-------------------------- MODULE CascReaderProofs --------------------------
(***************************************************************************)
(* Theorems about CascReader for any number of requests and rows and every  *)
(* client timeout.                                                          *)
(*                                                                         *)
(* The invariant says how requests refer to each other (pending lists,      *)
(* calls still to be made, the request the worker is about to join) and     *)
(* how old they are while they do: nothing but its age keeps a request      *)
(* that is still referred to from being freed.                              *)
(***************************************************************************)
EXTENDS CascReader, FiniteSetTheorems, SequenceTheorems, TLAPS

\* The worker between its two locks: it has nothing else to do, and the host it
\* has found is another request, waits for nobody, and lives.
Joining ==
    joining # None =>
        /\ todo[Reader] = <<>>
        /\ host \in Requests /\ host # joining /\ ecm[host] = ecm[joining]
        /\ life[host] \in {"cached", "garbage"} /\ life[joining] \in {"cached", "garbage"}
        /\ bin[joining] = 0
        /\ life[joining] = "cached" => isPending[joining]
        /\ \A k \in Requests : ~Waits(host, k)

\* Who waits, for whom and with which mark.
Waiting ==
    \A e, h \in Requests : Waits(e, h) =>
        /\ ecm[e] = ecm[h] /\ life[e] # "new" /\ life[h] # "new"
        /\ life[e] = "cached" => isPending[e]

\* A word in a call still to be made is the word of its ECM.
Calls ==
    \A t \in Threads : \A c \in Range(todo[t]) :
        c.ans.rc = "FOUND" => c.ans.cw = ecm[c.er]

\* The rows that are looked at hold a request.
Tabled == \A n \in DOMAIN rows : rows[n].busy \/ rows[n].open => rows[n].er \in Requests

\* ecmcwcache: each request once, as long as it lives.
Cached ==
    /\ \A n \in DOMAIN cache : life[cache[n]] = "cached"
    /\ \A n, m \in DOMAIN cache : cache[n] = cache[m] => n = m

\* Requests come into it at most Lag seconds out of the order of their stamps.
AgesInOrder ==
    \A n, m \in DOMAIN cache : n < m => age[cache[n]] <= age[cache[m]] + Lag

\* The place where cw_process is going to cut stays where it is.
Cutting ==
    /\ cut.er = None => cut.prv = None
    /\ cut.er # None => \E n \in DOMAIN cache :
          /\ cache[n] = cut.er /\ age[cut.er] > CutAge
          /\ cut.prv # None => n - 1 \in DOMAIN cache /\ cache[n - 1] = cut.prv

\* The clocks of what add_garbage got: who waits for its answer has aged meanwhile.
Bins ==
    \A e \in Requests :
        /\ life[e] \in {"new", "cached"} => bin[e] = 0
        /\ life[e] = "garbage" =>
              /\ bin[e] < GoneTime
              /\ age[e] >= bin[e] \/ age[e] = OldAge
              /\ \A h \in Requests : Waits(e, h) => age[h] >= bin[e] \/ age[h] = OldAge

IInv ==
    /\ TypeOK
    /\ Joining
    /\ Waiting
    /\ Calls
    /\ Tabled
    /\ Cached
    /\ AgesInOrder
    /\ Cutting
    /\ Bins
    /\ WordOfOwnEcm
    /\ NobodyForgotten
    /\ NoWaitingInCircles
    /\ NotFreedInUse

(***************************************************************************)
(* Sequences and what they contain.                                         *)
(***************************************************************************)

\* Put in front.
LEMMA PutFirst ==
    ASSUME NEW S, NEW s \in Seq(S), NEW e \in S
    PROVE  /\ <<e>> \o s \in Seq(S) /\ Range(<<e>> \o s) = {e} \cup Range(s)
           /\ Len(<<e>> \o s) = Len(s) + 1 /\ (<<e>> \o s)[1] = e
           /\ \A n \in 2..(Len(s) + 1) : (<<e>> \o s)[n] = s[n - 1]
<1>1. <<e>> \in Seq(S) /\ Range(<<e>>) = {e}
  BY DEF Range
<1>2. ASSUME NEW w \in Seq(S)
      PROVE  Range(w \o s) = Range(w) \cup Range(s)
  BY RangeConcatenation
<1>3. Len(s) \in Nat /\ Len(<<e>>) = 1 /\ <<e>>[1] = e
  BY LenProperties
<1>4. Range(<<e>> \o s) = {e} \cup Range(s)
  BY <1>1, <1>2
<1>5. /\ <<e>> \o s \in Seq(S) /\ Len(<<e>> \o s) = Len(s) + 1 /\ (<<e>> \o s)[1] = e
      /\ \A n \in 2..(Len(s) + 1) : (<<e>> \o s)[n] = s[n - 1]
  BY <1>1, <1>3, ConcatProperties
<1>6. QED
  BY <1>4, <1>5

\* Put at the end.
LEMMA PutLast ==
    ASSUME NEW S, NEW s \in Seq(S), NEW e \in S
    PROVE  Append(s, e) \in Seq(S) /\ Range(Append(s, e)) = Range(s) \cup {e}
<1>1. <<e>> \in Seq(S) /\ Range(<<e>>) = {e}
  BY DEF Range
<1>2. Append(s, e) = s \o <<e>>
  BY AppendIsConcat
<1>3. Range(s \o <<e>>) = Range(s) \cup Range(<<e>>)
  BY <1>1, RangeConcatenation, ZenonT(40)
<1>4. QED
  BY <1>1, <1>2, <1>3, AppendProperties

\* Taken from the front.
LEMMA TakeFirst ==
    ASSUME NEW S, NEW s \in Seq(S), s # <<>>
    PROVE  /\ Head(s) \in S /\ Tail(s) \in Seq(S)
           /\ Range(s) = {Head(s)} \cup Range(Tail(s))
<1>1. Head(s) \in S /\ Tail(s) \in Seq(S) /\ s = <<Head(s)>> \o Tail(s)
  <2>1. /\ Head(s) \in S /\ Tail(s) \in Seq(S) /\ Len(Tail(s)) = Len(s) - 1
        /\ \A n \in 1..Len(Tail(s)) : Tail(s)[n] = s[n + 1]
        /\ Len(s) \in Nat \ {0} /\ Head(s) = s[1]
    BY HeadTailProperties, EmptySeq
  <2> DEFINE h == Head(s)
             r == Tail(s)
  <2>2. /\ <<h>> \o r \in Seq(S) /\ Len(<<h>> \o r) = Len(s) /\ (<<h>> \o r)[1] = h
        /\ \A n \in 2..Len(s) : (<<h>> \o r)[n] = r[n - 1]
    BY <2>1, PutFirst
  <2> HIDE DEF h, r
  <2>3. \A n \in 1..Len(s) : (<<h>> \o r)[n] = s[n]
    <3>1. SUFFICES ASSUME NEW n \in 1..Len(s) PROVE (<<h>> \o r)[n] = s[n]
      OBVIOUS
    <3>2. CASE n = 1
      BY <2>1, <2>2, <3>2 DEF h
    <3>3. CASE n # 1
      <4>1. n \in 2..Len(s) /\ n - 1 \in 1..Len(r) /\ (n - 1) + 1 = n
        BY <2>1, <3>3 DEF r
      <4>2. r[n - 1] = s[n]
        BY <2>1, <4>1 DEF r
      <4>3. QED
        BY <2>2, <4>1, <4>2
    <3>4. QED
      BY <3>2, <3>3
  <2>4. <<h>> \o r = s
    BY <2>2, <2>3, SeqEqual
  <2>5. QED
    BY <2>1, <2>4 DEF h, r
<1>2. QED
  BY <1>1, PutFirst

\* The beginning of a sequence.
LEMMA Beginning ==
    ASSUME NEW S, NEW s \in Seq(S), NEW k \in 0..Len(s)
    PROVE  /\ SubSeq(s, 1, k) \in Seq(S) /\ Len(SubSeq(s, 1, k)) = k
           /\ \A n \in 1..k : SubSeq(s, 1, k)[n] = s[n]
<1>1. Len(s) \in Nat /\ \A n \in 1..k : s[n] \in S
  BY LenProperties
<1>2. QED
  BY <1>1, SubSeqProperties

\* A sequence's members are of its kind.
LEMMA InRange ==
    ASSUME NEW S, NEW s \in Seq(S)
    PROVE  /\ Range(s) \subseteq S /\ DOMAIN s = 1..Len(s) /\ Len(s) \in Nat
           /\ \A x : x \in Range(s) <=> \E n \in DOMAIN s : s[n] = x
BY LenProperties, RangeOfSeq DEF Range

(***************************************************************************)
(* The types.                                                               *)
(***************************************************************************)

\* The limits are numbers, and a request is too late long before it is freed, its job
\* before that.
LEMMA Limits ==
    /\ Timeout \in Nat /\ CutAge \in Nat /\ OldAge \in Nat /\ GoneTime \in Nat /\ Lag \in 0..1
    /\ CutAge = Timeout + 3 /\ OldAge = Timeout + 4 /\ GoneTime > Timeout + 1 /\ GoneTime > 0
    /\ ~MayStart(GoneTime)
<1>1. ClientTimeout \in Nat /\ Lag \in 0..1
  BY TimesAssumption
<1> DEFINE a == (ClientTimeout + 500) \div 1000
           b == (2 * ClientTimeout) \div 1000
<1>2. /\ a \in Int /\ 1000 * a <= ClientTimeout + 500 /\ ClientTimeout + 500 < 1000 * a + 1000
      /\ b \in Int /\ 1000 * b <= 2 * ClientTimeout /\ 2 * ClientTimeout < 1000 * b + 1000
  BY <1>1
<1>3. Timeout = a /\ GarbageTime = b + 6
  BY DEF Timeout, GarbageTime
<1> HIDE DEF a, b
<1>4. QED
  BY <1>1, <1>2, <1>3 DEF CutAge, OldAge, GoneTime, MayStart

LEMMA Threading == Requests \subseteq Threads /\ Reader \in Threads /\ None \notin Requests /\ Reader \notin Requests
BY RequestsAssumption DEF Requests, Threads, Reader, None

(***************************************************************************)
(* What the helpers do.                                                     *)
(***************************************************************************)

\* What is passed on is an answer, and a word only if there is one.
LEMMA PassedOn ==
    /\ \A a \in Answer : Passed(a) \in Answer /\ (Passed(a).rc = "FOUND" => a.rc = "FOUND" /\ Passed(a).cw = a.cw)
    /\ NotFound \in Answer /\ Limited \in Answer /\ TimedOut \in Answer /\ Unhandled \notin Answer
    /\ \A w \in Ecms : Found(w) \in Answer
<1>1. /\ NotFound \in Answer /\ Limited \in Answer /\ TimedOut \in Answer /\ Unhandled \notin Answer
      /\ \A w \in Ecms : Found(w) \in Answer
  BY DEF NotFound, Limited, TimedOut, Unhandled, Answer, Found
<1>2. NotFound.rc # "FOUND"
  BY DEF NotFound
<1>3. QED
  BY <1>1, <1>2 DEF Passed

\* distribute_ea calls write_ecm_answer for those who wait, and for nobody else.
LEMMA Distributed ==
    ASSUME TypeOK, NEW e \in Requests, NEW a \in Answer
    PROVE  /\ CallsFor(e, a) \in Seq(Call)
           /\ \A c \in Range(CallsFor(e, a)) : \E f \in Requests : Waits(f, e) /\ c = Write(f, Passed(a))
           /\ \A f \in Requests : Waits(f, e) => Write(f, Passed(a)) \in Range(CallsFor(e, a))
<1> DEFINE p == pending[e]
<1>1. p \in Seq(Requests) /\ DOMAIN p = 1..Len(p) /\ Len(p) \in Nat /\ \A n \in DOMAIN p : p[n] \in Requests
  BY InRange DEF TypeOK, Range
<1>2. \A f \in Requests : Write(f, Passed(a)) \in Call
  BY PassedOn DEF Write, Call
<1>3. /\ DOMAIN CallsFor(e, a) = 1..Len(p)
      /\ \A n \in 1..Len(p) : CallsFor(e, a)[n] = Write(p[n], Passed(a)) /\ CallsFor(e, a)[n] \in Call
  BY <1>1, <1>2 DEF CallsFor
<1>4. CallsFor(e, a) \in Seq(Call)
  <2> DEFINE F(n) == Write(p[n], Passed(a))
  <2>1. CallsFor(e, a) = [n \in 1..Len(p) |-> F(n)]
    BY <1>1 DEF CallsFor
  <2>2. \A n \in 1..Len(p) : F(n) \in Call
    BY <1>1, <1>2
  <2> HIDE DEF F, p
  <2>3. QED
    BY <1>1, <2>1, <2>2
<1>5. QED
  BY <1>1, <1>3, <1>4 DEF Range, Waits

\* write_ecm_answer, called by thread t: afterwards nobody can write this answer again,
\* and it has got either nothing or the answer, with a call for everybody who waits.
LEMMA Written ==
    ASSUME TypeOK, NEW t \in Threads, NEW e \in Requests, NEW a \in Answer, NEW rest \in Seq(Call),
           WriteAnswer(t, e, a, rest)
    PROVE  /\ ea' \in [Requests -> Answer \cup {Unhandled}] /\ todo' \in [Threads -> Seq(Call)]
           /\ \A u \in Threads \ {t} : todo'[u] = todo[u]
           /\ \A f \in Requests \ {e} : ea'[f] = ea[f]
           /\ Range(rest) \subseteq Range(todo'[t])
           /\ \/ /\ Unwritable(e) /\ ea'[e] = ea[e] /\ todo'[t] = rest
              \/ /\ ~Unwritable(e) /\ ea'[e] = a /\ ea'[e] # Unhandled
                 /\ \A c \in Range(todo'[t]) \ Range(rest) :
                       \E f \in Requests : Waits(f, e) /\ c = Write(f, Passed(a))
                 /\ \A f \in Requests : Waits(f, e) => Write(f, Passed(a)) \in Range(todo'[t])
<1>1. CASE Unwritable(e)
  BY <1>1 DEF WriteAnswer, TypeOK
<1>2. CASE ~Unwritable(e)
  <2> DEFINE c == CallsFor(e, a)
  <2>1. c \in Seq(Call)
    BY Distributed
  <2> HIDE DEF c
  <2>2. c \o rest \in Seq(Call) /\ Range(c \o rest) = Range(c) \cup Range(rest)
    BY <2>1, RangeConcatenation
  <2>3. ea' = [ea EXCEPT ![e] = a] /\ todo' = [todo EXCEPT ![t] = c \o rest]
    BY <1>2 DEF WriteAnswer, c
  <2>4. /\ ea' \in [Requests -> Answer \cup {Unhandled}] /\ ea'[e] = a /\ ea'[e] # Unhandled
        /\ \A f \in Requests \ {e} : ea'[f] = ea[f]
    BY <2>3, PassedOn DEF TypeOK
  <2>5. /\ todo' \in [Threads -> Seq(Call)] /\ todo'[t] = c \o rest
        /\ \A u \in Threads \ {t} : todo'[u] = todo[u]
    BY <2>2, <2>3 DEF TypeOK
  <2>6. /\ \A d \in Range(todo'[t]) \ Range(rest) : \E f \in Requests : Waits(f, e) /\ d = Write(f, Passed(a))
        /\ \A f \in Requests : Waits(f, e) => Write(f, Passed(a)) \in Range(todo'[t])
    BY <2>2, <2>5, Distributed DEF c
  <2>7. QED
    BY <1>2, <2>2, <2>4, <2>5, <2>6
<1>3. QED
  BY <1>1, <1>2

\* "drop timeouts" looks at no row anew.
LEMMA Dropped ==
    ASSUME NEW tab \in [1..MaxPending -> Row]
    PROVE  /\ DropTimeouts(tab) \in [1..MaxPending -> Row]
           /\ \A n \in 1..MaxPending :
                 LET r == DropTimeouts(tab)[n]
                 IN  /\ r.busy => tab[n].busy /\ r.er = tab[n].er
                     /\ r.open => tab[n].open /\ r.er = tab[n].er
<1>1. ASSUME NEW n \in 1..MaxPending
      PROVE  /\ DropTimeouts(tab)[n] \in Row
             /\ DropTimeouts(tab)[n].busy => tab[n].busy /\ DropTimeouts(tab)[n].er = tab[n].er
             /\ DropTimeouts(tab)[n].open => tab[n].open /\ DropTimeouts(tab)[n].er = tab[n].er
  <2>1. tab[n] \in Row /\ NoRow \in Row /\ ~NoRow.busy /\ ~NoRow.open
    BY <1>1 DEF Row, NoRow
  <2>2. /\ [tab[n] EXCEPT !.busy = FALSE] \in Row /\ [tab[n] EXCEPT !.busy = FALSE].er = tab[n].er
        /\ ~[tab[n] EXCEPT !.busy = FALSE].busy
        /\ [tab[n] EXCEPT !.busy = FALSE].open = tab[n].open
    BY <2>1 DEF Row
  <2>3. \/ DropTimeouts(tab)[n] = [tab[n] EXCEPT !.busy = FALSE]
        \/ DropTimeouts(tab)[n] = NoRow
        \/ DropTimeouts(tab)[n] = tab[n]
    BY <1>1 DEF DropTimeouts
  <2>4. QED
    BY <2>1, <2>2, <2>3
<1>2. DOMAIN tab = 1..MaxPending
  OBVIOUS
<1>3. DropTimeouts(tab) \in [1..MaxPending -> Row]
  <2>1. DOMAIN DropTimeouts(tab) = 1..MaxPending /\ DropTimeouts(tab) = [n \in 1..MaxPending |-> DropTimeouts(tab)[n]]
    BY <1>2 DEF DropTimeouts
  <2>2. QED
    BY <1>1, <2>1
<1>4. QED
  BY <1>1, <1>3

\* A row is entered where none was.
LEMMA Entered ==
    ASSUME NEW tab \in [1..MaxPending -> Row], NEW row \in Row, Enter(tab, row)
    PROVE  /\ rows' \in [1..MaxPending -> Row]
           /\ \A n \in 1..MaxPending : rows'[n] = row \/ rows'[n] = tab[n]
BY DEF Enter, FreeRows

\* A reply is passed on to requests in the reader's table that are not too late, and
\* are for the same ECM.
LEMMA Replied ==
    ASSUME TypeOK, Tabled, NEW n \in 1..MaxPending, NEW a \in Answer, Reply(n, a)
    PROVE  /\ todo' \in [Threads -> Seq(Call)] /\ \A u \in Threads \ {Reader} : todo'[u] = todo[u]
           /\ \A c \in Range(todo'[Reader]) : \E m \in 1..MaxPending :
                 /\ rows[m].busy /\ ~TooLate(rows[m].er) /\ ecm[rows[m].er] = ecm[rows[n].er]
                 /\ c = Write(rows[m].er, a)
           /\ rows' \in [1..MaxPending -> Row]
           /\ \A m \in 1..MaxPending :
                 /\ rows'[m].busy => rows[m].busy /\ rows'[m].er = rows[m].er
                 /\ rows'[m].open => rows[m].open /\ rows'[m].er = rows[m].er
<1>1. rows \in [1..MaxPending -> Row] /\ DOMAIN rows = 1..MaxPending
  BY DEF TypeOK
<1> DEFINE same == {m \in DOMAIN rows : rows[m].busy /\ ecm[rows[m].er] = ecm[rows[n].er]}
           S == {m \in same : ~TooLate(rows[m].er)}
           tab == [m \in DOMAIN rows |-> IF m = n \/ m \in same THEN NoRow ELSE rows[m]]
<1>2. PICK hit \in Ascending(S) :
         todo' = [todo EXCEPT ![Reader] = [i \in DOMAIN hit |-> Write(rows[hit[i]].er, a)]]
  BY DEF Reply
<1>3. Cardinality(S) \in Nat
  <2>1. IsFiniteSet(1..MaxPending)
    <3>1. 1 \in Int /\ MaxPending \in Int
      BY TableAssumption
    <3>2. QED
      BY <3>1, FS_Interval
  <2>2. IsFiniteSet(S)
    BY <1>1, <2>1, FS_Subset
  <2>3. QED
    BY <2>2, FS_CardinalityType
<1>4. \A m \in S : /\ m \in 1..MaxPending /\ Write(rows[m].er, a) \in Call
                   /\ rows[m].busy /\ ~TooLate(rows[m].er) /\ ecm[rows[m].er] = ecm[rows[n].er]
  BY <1>1 DEF Tabled, Write, Call
<1>5. /\ todo' \in [Threads -> Seq(Call)] /\ \A u \in Threads \ {Reader} : todo'[u] = todo[u]
      /\ \A c \in Range(todo'[Reader]) : \E m \in S : c = Write(rows[m].er, a)
  <2> HIDE DEF S
  <2> DEFINE k == Cardinality(S)
             F(i) == Write(rows[hit[i]].er, a)
  <2>1. hit \in [1..k -> S] /\ k \in Nat
    BY <1>3 DEF Ascending
  <2>2. \A i \in 1..k : F(i) \in Call /\ hit[i] \in S
    BY <1>4, <2>1
  <2>3. todo' = [todo EXCEPT ![Reader] = [i \in 1..k |-> F(i)]]
    BY <1>2, <2>1
  <2> HIDE DEF k
  <2>4. [i \in 1..k |-> F(i)] \in Seq(Call)
    <3> HIDE DEF F
    <3>1. QED
      BY <2>1, <2>2
  <2>5. todo \in [Threads -> Seq(Call)] /\ Reader \in Threads
    BY Threading DEF TypeOK
  <2>6. \A c \in Range([i \in 1..k |-> F(i)]) : \E i \in 1..k : c = F(i)
    BY DEF Range
  <2>7. QED
    BY <2>2, <2>3, <2>4, <2>5, <2>6
<1>6. rows' = DropTimeouts(tab) /\ tab \in [1..MaxPending -> Row]
  BY <1>1 DEF Reply, Row, NoRow
<1>7. \A m \in 1..MaxPending : (tab[m].busy => tab[m] = rows[m]) /\ (tab[m].open => tab[m] = rows[m])
  BY <1>1 DEF NoRow
<1>8. \A c \in Range(todo'[Reader]) : \E m \in 1..MaxPending :
         /\ rows[m].busy /\ ~TooLate(rows[m].er) /\ ecm[rows[m].er] = ecm[rows[n].er]
         /\ c = Write(rows[m].er, a)
  BY <1>4, <1>5, Zenon
<1> HIDE DEF tab
<1>9. /\ rows' \in [1..MaxPending -> Row]
      /\ \A m \in 1..MaxPending :
            /\ rows'[m].busy => rows[m].busy /\ rows'[m].er = rows[m].er
            /\ rows'[m].open => rows[m].open /\ rows'[m].er = rows[m].er
  BY <1>6, <1>7, Dropped
<1>10. QED
  BY <1>5, <1>8, <1>9

(***************************************************************************)
(* The types, action by action.                                             *)
(***************************************************************************)

LEMMA InitTypeOK == Init => TypeOK
<1>1. SUFFICES ASSUME Init PROVE TypeOK
  OBVIOUS
<1>2. [e \in Requests |-> <<>>] \in [Requests -> Seq(Requests)] /\ [t \in Threads |-> <<>>] \in [Threads -> Seq(Call)]
  BY EmptySeq
<1>3. cache \in Seq(Requests) /\ queue \in Seq(Requests)
  BY <1>1, EmptySeq DEF Init
<1>4. age \in [Requests -> 0..OldAge] /\ bin \in [Requests -> 0..GoneTime]
  BY <1>1, Limits DEF Init
<1>5. rows \in [1..MaxPending -> Row]
  BY <1>1 DEF Init, Row, NoRow
<1>6. QED
  BY <1>1, <1>2, <1>3, <1>4, <1>5 DEF Init, TypeOK

\* The worker has nothing else to call for; what it starts is a request.
LEMMA Started ==
    ASSUME IInv, NEW e \in Requests, StartJob(e) \/ TakeJob(e)
    PROVE  /\ joining = None /\ todo[Reader] = <<>>
           /\ queue' \in Seq(Requests) /\ Range(queue') \subseteq Range(queue) /\ e \in Range(queue)
           /\ (StartJob(e) => life[e] = "cached") /\ <<>> \in Seq(Call) /\ Range(<<>>) = {}
<1>1. queue \in Seq(Requests) /\ queue # <<>> /\ queue' = Tail(queue) /\ Head(queue) = e
  BY DEF IInv, TypeOK, StartJob, TakeJob
<1>2. Range(<<>>) = {}
  BY DEF Range
<1>3. QED
  BY <1>1, <1>2, TakeFirst, EmptySeq DEF StartJob, TakeJob, ReaderIdle

\* The worker answers what it is about to join with a copy of the host's answer.
LEMMA HostAnswer ==
    ASSUME IInv, JoinAnswered
    PROVE  /\ joining \in Requests /\ ea[host] \in Answer /\ Passed(ea[host]) \in Answer
           /\ Passed(ea[host]).rc = "FOUND" => Passed(ea[host]).cw = ecm[joining]
           /\ todo[Reader] = <<>> /\ <<>> \in Seq(Call) /\ Range(<<>>) = {}
<1>1. joining \in Requests /\ host \in Requests /\ ecm[host] = ecm[joining] /\ todo[Reader] = <<>>
  BY DEF IInv, TypeOK, Joining, JoinAnswered
<1>2. ea[host] \in Answer
  BY <1>1 DEF IInv, TypeOK, JoinAnswered
<1>3. <<>> \in Seq(Call) /\ Range(<<>>) = {}
  BY EmptySeq DEF Range
<1>4. QED
  BY <1>1, <1>2, <1>3, PassedOn DEF IInv, WordOfOwnEcm

\* The call that a thread makes next.
LEMMA NextOne ==
    ASSUME IInv, NEW t \in Threads, NextCall(t)
    PROVE  /\ Head(todo[t]).er \in Requests /\ Head(todo[t]).ans \in Answer /\ Tail(todo[t]) \in Seq(Call)
           /\ Range(todo[t]) = {Head(todo[t])} \cup Range(Tail(todo[t]))
           /\ Head(todo[t]).ans.rc = "FOUND" => Head(todo[t]).ans.cw = ecm[Head(todo[t]).er]
<1>1. todo[t] \in Seq(Call) /\ todo[t] # <<>>
  BY DEF IInv, TypeOK, NextCall
<1>2. /\ Head(todo[t]) \in Call /\ Tail(todo[t]) \in Seq(Call)
      /\ Range(todo[t]) = {Head(todo[t])} \cup Range(Tail(todo[t]))
  BY <1>1, TakeFirst
<1>3. QED
  BY <1>2 DEF Call, IInv, Calls

\* A second later.
LEMMA Ticked ==
    ASSUME IInv, Tick, NEW e \in Requests
    PROVE  /\ age'[e] \in 0..OldAge /\ age'[e] >= age[e] /\ age[e] \in 0..OldAge
           /\ life[e] # "new" => age'[e] = OldAge \/ age'[e] = age[e] + 1
           /\ bin'[e] \in 0..GoneTime /\ bin[e] \in 0..GoneTime
           /\ bin'[e] = IF life[e] = "garbage" THEN bin[e] + 1 ELSE bin[e]
           /\ life'[e] # life[e] => /\ life[e] = "garbage" /\ life'[e] = "freed"
                                    /\ bin'[e] = GoneTime \/ ~InUse(e)
           /\ life'[e] = "garbage" => bin'[e] < GoneTime
           /\ TooLate(e) => TooLate(e)'
<1>1. age[e] \in 0..OldAge /\ bin[e] \in 0..GoneTime /\ OldAge \in Nat /\ GoneTime \in Nat /\ Timeout \in Nat
  BY Limits DEF IInv, TypeOK
<1>2. /\ age'[e] = IF life[e] = "new" \/ age[e] = OldAge THEN age[e] ELSE age[e] + 1
      /\ bin'[e] = IF life[e] = "garbage" THEN bin[e] + 1 ELSE bin[e]
  BY DEF Tick
<1>3. life'[e] = IF life[e] = "garbage" /\ (bin'[e] = GoneTime \/ ~InUse(e)) THEN "freed" ELSE life[e]
  BY DEF Tick
<1>4. life[e] = "garbage" => bin[e] < GoneTime
  BY DEF IInv, Bins
<1>5. age'[e] \in 0..OldAge /\ age'[e] >= age[e]
  BY <1>1, <1>2
<1>6. bin'[e] \in 0..GoneTime /\ (life'[e] = "garbage" => bin'[e] < GoneTime)
  BY <1>1, <1>2, <1>3, <1>4
<1>7. TooLate(e) => TooLate(e)'
  <2>1. (TooLate(e) <=> age[e] > Timeout + 1) /\ (TooLate(e)' <=> age'[e] > Timeout + 1)
    BY DEF TooLate, Timeout
  <2>2. QED
    BY <1>1, <1>5, <2>1
<1>8. QED
  BY <1>1, <1>2, <1>3, <1>5, <1>6, <1>7

LEMMA StepTypeOK == IInv /\ [Next]_vars => TypeOK'
<1> SUFFICES ASSUME IInv, [Next]_vars PROVE TypeOK'
  OBVIOUS
<1>t. TypeOK /\ Tabled
  BY DEF IInv
<1>1. ASSUME NEW e \in Requests, Insert(e) PROVE TypeOK'
  <2>1. cache' \in Seq(Requests)
    BY <1>t, <1>1, PutFirst DEF TypeOK, Insert
  <2>2. age' \in [Requests -> 0..OldAge]
    BY <1>t, <1>1, Limits DEF TypeOK, Insert
  <2>3. QED
    BY <1>t, <1>1, <2>1, <2>2 DEF TypeOK, Insert, eaVars, rdrVars
<1>2. ASSUME NEW e \in Requests, AskReader(e) PROVE TypeOK'
  <2>1. queue' \in Seq(Requests)
    BY <1>t, <1>2, PutLast DEF TypeOK, AskReader
  <2>2. QED
    BY <1>t, <1>2, <2>1 DEF TypeOK, AskReader, cacheVars, clocks
<1>3. ASSUME NEW e \in Requests, TimeoutJob(e) PROVE TypeOK'
  <2>1. e \in Threads /\ <<>> \in Seq(Call)
    BY Threading, EmptySeq
  <2>2. ea' \in [Requests -> Answer \cup {Unhandled}] /\ todo' \in [Threads -> Seq(Call)]
    BY <1>t, <1>3, <2>1, Written, PassedOn DEF TimeoutJob
  <2>3. QED
    BY <1>t, <1>3, <2>2 DEF TypeOK, TimeoutJob, cacheVars, clocks, rdrVars
<1>4. ASSUME NEW e \in Requests, DropJob(e) \/ JobTooLate(e) PROVE TypeOK'
  BY <1>t, <1>4, Started DEF TypeOK, DropJob, JobTooLate, cacheVars, clocks, eaVars
<1>5. ASSUME NEW e \in Requests, Join(e) PROVE TypeOK'
  <2>1. host' \in Requests
    BY <1>t, <1>5, InRange DEF Join, Hosts, TypeOK
  <2>2. queue' \in Seq(Requests)
    BY <1>5, Started DEF Join
  <2>3. QED
    BY <1>t, <1>5, <2>1, <2>2 DEF TypeOK, Join, cacheVars, clocks
<1>6. ASSUME NEW e \in Requests, AskLimited(e) PROVE TypeOK'
  <2>1. queue' \in Seq(Requests) /\ <<>> \in Seq(Call)
    BY <1>6, Started DEF AskLimited
  <2>2. ea' \in [Requests -> Answer \cup {Unhandled}] /\ todo' \in [Threads -> Seq(Call)]
    BY <1>t, <1>6, <2>1, Threading, Written, PassedOn DEF AskLimited
  <2>3. QED
    BY <1>t, <1>6, <2>1, <2>2 DEF TypeOK, AskLimited, cacheVars, clocks
<1>r. rows \in [1..MaxPending -> Row] /\ DropTimeouts(rows) \in [1..MaxPending -> Row]
      /\ NoRow \in Row /\ Emptied \in [1..MaxPending -> Row]
  BY <1>t, Dropped, SMTT(30) DEF TypeOK, NoRow, Row, Emptied
<1>7. ASSUME NEW e \in Requests, TableFull(e) \/ SendCloses(e) PROVE TypeOK'
  <2>1. queue' \in Seq(Requests)
    BY <1>7, Started DEF TableFull, SendCloses
  <2>2. rows' \in [1..MaxPending -> Row]
    BY <1>7, <1>r DEF TableFull, SendCloses
  <2>3. QED
    BY <1>t, <1>7, <2>1, <2>2 DEF TypeOK, TableFull, SendCloses, cacheVars, clocks, eaVars
<1>8. ASSUME NEW e \in Requests, SendEcm(e) PROVE TypeOK'
  <2>1. queue' \in Seq(Requests)
    BY <1>8, Started DEF SendEcm
  <2>2. rows' \in [1..MaxPending -> Row]
    <3> DEFINE row == [er |-> e, busy |-> TRUE, open |-> ~Underway(DropTimeouts(rows), e)]
    <3>1. row \in Row
      BY DEF Row, Underway
    <3>2. QED
      BY <1>8, <1>r, <3>1, Entered DEF SendEcm
  <2>3. QED
    BY <1>t, <1>8, <2>1, <2>2 DEF TypeOK, SendEcm, cacheVars, clocks, eaVars
<1>9. ASSUME NEW e \in Requests, SendFails(e) PROVE TypeOK'
  <2>1. queue' \in Seq(Requests) /\ <<>> \in Seq(Call)
    BY <1>9, Started DEF SendFails
  <2>2. ea' \in [Requests -> Answer \cup {Unhandled}] /\ todo' \in [Threads -> Seq(Call)]
    BY <1>t, <1>9, <2>1, Threading, Written, PassedOn DEF SendFails
  <2>3. rows' \in [1..MaxPending -> Row]
    BY <1>9, <1>r, Entered DEF SendFails
  <2>4. QED
    BY <1>t, <1>9, <2>1, <2>2, <2>3 DEF TypeOK, SendFails, cacheVars, clocks
<1>10. ASSUME NEW n \in 1..MaxPending, ReplyStep(n) PROVE TypeOK'
  <2>1. Found(ecm[rows[n].er]) \in Answer /\ NotFound \in Answer
    BY <1>t, <1>10, PassedOn, AssignmentsAssumption, SMTT(30) DEF ReplyStep, Tabled, TypeOK
  <2>2. PICK a \in {Found(ecm[rows[n].er]), NotFound} : Reply(n, a)
    BY <1>10 DEF ReplyStep
  <2>3. rows' \in [1..MaxPending -> Row] /\ todo' \in [Threads -> Seq(Call)]
    BY <1>t, <2>1, <2>2, Replied
  <2>4. QED
    BY <1>t, <2>2, <2>3 DEF TypeOK, Reply, cacheVars, clocks, eaVars
<1>11. CASE JoinAnswered
  <2>1. ea' \in [Requests -> Answer \cup {Unhandled}] /\ todo' \in [Threads -> Seq(Call)]
    BY <1>t, <1>11, HostAnswer, Threading, Written DEF JoinAnswered
  <2>2. QED
    BY <1>t, <1>11, <2>1 DEF TypeOK, JoinAnswered, cacheVars, clocks
<1>12. CASE JoinWaits
  <2>1. joining \in Requests /\ host \in Requests
    BY <1>t, <1>12 DEF IInv, Joining, JoinWaits, TypeOK
  <2>2. <<joining>> \o pending[host] \in Seq(Requests)
    BY <1>t, <2>1, PutFirst DEF TypeOK
  <2>3. pending' \in [Requests -> Seq(Requests)]
    BY <1>t, <1>12, <2>2 DEF TypeOK, JoinWaits
  <2>4. QED
    BY <1>t, <1>12, <2>3 DEF TypeOK, JoinWaits, cacheVars, clocks
<1>13. CASE Disconnect
  BY <1>t, <1>13, <1>r DEF TypeOK, Disconnect, cacheVars, clocks, eaVars
<1>14. ASSUME NEW t \in Threads, NextCall(t) PROVE TypeOK'
  <2>1. ea' \in [Requests -> Answer \cup {Unhandled}] /\ todo' \in [Threads -> Seq(Call)]
    BY <1>t, <1>14, NextOne, Written DEF NextCall
  <2>2. QED
    BY <1>t, <1>14, <2>1 DEF TypeOK, NextCall, cacheVars, clocks, rdrVars
<1>15. CASE CutScan
  <2>1. cut' \in [er : Requests \cup {None}, prv : Requests \cup {None}]
    <3>1. PICK n \in DOMAIN cache : cut' = [er |-> cache[n], prv |-> IF n = 1 THEN None ELSE cache[n - 1]]
      BY <1>15 DEF CutScan
    <3>2. cache \in Seq(Requests) /\ DOMAIN cache = 1..Len(cache) /\ Len(cache) \in Nat
          /\ \A m \in DOMAIN cache : cache[m] \in Requests
      BY <1>t, InRange DEF TypeOK, Range
    <3>3. n # 1 => n - 1 \in DOMAIN cache
      BY <3>2
    <3>4. QED
      BY <3>1, <3>2, <3>3
  <2>2. QED
    BY <1>t, <1>15, <2>1 DEF TypeOK, CutScan, clocks, eaVars, rdrVars
<1>16. CASE CutTail
  <2>1. cache' \in Seq(Requests)
    <3> DEFINE last == IF cut.prv = None THEN 0 ELSE Index(cut.prv)
    <3>1. cache' = SubSeq(cache, 1, last)
      BY <1>16 DEF CutTail
    <3>2. last \in 0..Len(cache)
      <4>1. DOMAIN cache = 1..Len(cache) /\ Len(cache) \in Nat
        BY <1>t, InRange DEF TypeOK
      <4>2. CASE cut.prv = None
        BY <4>1, <4>2
      <4>3. CASE cut.prv # None
        <5>1. cut.er # None
          BY <4>3 DEF IInv, Cutting
        <5>2. \E n \in DOMAIN cache : cache[n] = cut.prv
          BY <4>3, <5>1 DEF IInv, Cutting
        <5>3. Index(cut.prv) \in DOMAIN cache
          BY <5>2 DEF Index
        <5>4. QED
          BY <4>1, <4>3, <5>3
      <4>4. QED
        BY <4>2, <4>3
    <3>3. QED
      BY <1>t, <3>1, <3>2, Beginning DEF TypeOK
  <2>2. /\ life' \in [Requests -> {"new", "cached", "garbage", "freed"}] /\ sent' \in [Requests -> BOOLEAN]
        /\ ea' \in [Requests -> Answer \cup {Unhandled}] /\ isPending' \in [Requests -> BOOLEAN]
    BY <1>t, <1>16 DEF TypeOK, CutTail, FreeEcm
  <2>3. pending' \in [Requests -> Seq(Requests)]
    <3>1. <<>> \in Seq(Requests)
      BY EmptySeq
    <3>2. \A e \in Requests : pending[e] \in Seq(Requests)
      BY <1>t DEF TypeOK
    <3>3. PICK old : pending' = [e \in Requests |-> IF e \in old THEN <<>> ELSE pending[e]]
      BY <1>16 DEF CutTail, FreeEcm
    <3>4. QED
      BY <3>1, <3>2, <3>3
  <2>4. QED
    BY <1>t, <1>16, <2>1, <2>2, <2>3 DEF TypeOK, CutTail, clocks, rdrVars
<1>17. CASE Tick
  <2>1. age' \in [Requests -> 0..OldAge]
    <3>1. age' = [e \in Requests |-> age'[e]]
      BY <1>17 DEF Tick
    <3>2. QED
      BY <1>17, <3>1, Ticked
  <2>2. bin' \in [Requests -> 0..GoneTime]
    <3>1. bin' = [e \in Requests |-> bin'[e]]
      BY <1>17 DEF Tick
    <3>2. QED
      BY <1>17, <3>1, Ticked
  <2>3. life' \in [Requests -> {"new", "cached", "garbage", "freed"}]
    BY <1>t, <1>17 DEF TypeOK, Tick
  <2>4. QED
    BY <1>t, <1>17, <2>1, <2>2, <2>3 DEF TypeOK, Tick, eaVars, rdrVars
<1>18. CASE UNCHANGED vars
  BY <1>t, <1>18 DEF TypeOK, vars, cacheVars, clocks, eaVars, rdrVars
<1>19. QED
  BY <1>1, <1>2, <1>3, <1>4, <1>5, <1>6, <1>7, <1>8, <1>9, <1>10, <1>11, <1>12, <1>13, <1>14, <1>15, <1>16,
     <1>17, <1>18 DEF Next, ClientStep, JobStep

(***************************************************************************)
(* The invariant, action by action.                                         *)
(***************************************************************************)

\* The four ways in which a request is in use.
Queued(e) == e \in Range(queue) /\ MayStart(bin[e])
Expecting(e) == \E h \in Requests : ea[h] = Unhandled /\ ~TooLate(h) /\ Waits(e, h)
Listed(e) == \E n \in DOMAIN rows : rows[n].er = e /\ rows[n].busy /\ ~TooLate(e)

LEMMA Uses ==
    /\ \A e : InUse(e) <=> Queued(e) \/ Expecting(e) \/ Listed(e) \/ Called(e)
    /\ \A e : InUse(e)' <=> Queued(e)' \/ Expecting(e)' \/ Listed(e)' \/ Called(e)'
BY DEF InUse, Queued, Expecting, Listed, Called, Waits, Range

\* Who is called for.
LEMMA Calling ==
    /\ \A e : Called(e) <=> \E t \in Threads : \E c \in Range(todo[t]) : c.er = e
    /\ \A e : Called(e)' <=> \E t \in Threads : \E c \in Range(todo'[t]) : c.er = e
BY DEF Called, Range

LEMMA InitIInv == Init => IInv
<1> SUFFICES ASSUME Init PROVE IInv
  OBVIOUS
<1>1. TypeOK
  BY InitTypeOK
<1>2. DOMAIN <<>> = {} /\ Range(<<>>) = {}
  BY DEF Range
<1>3. \A e, h \in Requests : ~Waits(e, h)
  BY <1>2 DEF Init, Waits
<1>4. Joining /\ Waiting /\ NobodyForgotten
  BY <1>3 DEF Init, Joining, Waiting, NobodyForgotten
<1>5. Calls /\ Tabled
  BY <1>2 DEF Init, Calls, Tabled, NoRow
<1>6. Cached /\ AgesInOrder /\ Cutting
  BY <1>2 DEF Init, Cached, AgesInOrder, Cutting
<1>7. Bins /\ NotFreedInUse
  BY DEF Init, Bins, NotFreedInUse
<1>8. WordOfOwnEcm
  BY DEF Init, WordOfOwnEcm, Unhandled
<1>9. NoWaitingInCircles
  BY <1>3 DEF NoWaitingInCircles
<1>10. QED
  BY <1>1, <1>4, <1>5, <1>6, <1>7, <1>8, <1>9 DEF IInv

\* What only depends on who waits for whom and on the clocks.
LEMMA SamePeople ==
    ASSUME IInv, UNCHANGED <<ecm, life, cache, clocks, isPending, pending>>
    PROVE  /\ Waiting' /\ Cached' /\ AgesInOrder' /\ Bins' /\ NoWaitingInCircles'
           /\ UNCHANGED cut => Cutting'
           /\ \A e, h : Waits(e, h)' <=> Waits(e, h)
           /\ \A e : TooLate(e)' <=> TooLate(e)
<1>1. \A e, h : Waits(e, h)' <=> Waits(e, h)
  BY DEF Waits
<1>2. (\A e : TooLate(e)' <=> TooLate(e)) /\ UNCHANGED <<age, bin>>
  BY DEF TooLate, Timeout, clocks
<1>3. Waiting'
  BY <1>1 DEF IInv, Waiting
<1>4. Cached' /\ AgesInOrder'
  BY <1>2 DEF IInv, Cached, AgesInOrder
<1>5. Bins'
  BY <1>1, <1>2 DEF IInv, Bins, GoneTime, GarbageTime, OldAge, CutAge, Timeout
<1>6. NoWaitingInCircles'
  BY <1>1 DEF IInv, NoWaitingInCircles
<1>7. UNCHANGED cut => Cutting'
  BY <1>2 DEF IInv, Cutting, CutAge, Timeout
<1>8. QED
  BY <1>1, <1>2, <1>3, <1>4, <1>5, <1>6, <1>7

\* Steps of the worker on its queue and its table: no answer is given.
LEMMA NoAnswer ==
    ASSUME IInv, TypeOK', Joining', Tabled', Cutting',
           UNCHANGED <<ecm, life, cache, clocks, ea, isPending, pending, todo>>,
           \A e \in Requests : life[e] = "freed" => (Queued(e)' => Queued(e)) /\ (Listed(e)' => Listed(e))
    PROVE  IInv'
<1>1. /\ Waiting' /\ Cached' /\ AgesInOrder' /\ Bins' /\ NoWaitingInCircles'
      /\ \A e, h : Waits(e, h)' <=> Waits(e, h)
      /\ \A e : TooLate(e)' <=> TooLate(e)
  BY SamePeople
<1>2. Calls' /\ WordOfOwnEcm'
  BY DEF IInv, Calls, WordOfOwnEcm
<1>3. \A e : Called(e)' <=> Called(e)
  BY DEF Called
<1>4. NobodyForgotten'
  BY <1>1, <1>3 DEF IInv, NobodyForgotten, Unwritable
<1>5. NotFreedInUse'
  <2>1. \A e : Expecting(e)' <=> Expecting(e)
    BY <1>1 DEF Expecting
  <2>2. SUFFICES ASSUME NEW e \in Requests, life[e] = "freed", InUse(e)' PROVE InUse(e)
    BY DEF IInv, NotFreedInUse
  <2>3. QED
    BY <1>3, <2>1, <2>2, Uses
<1>6. QED
  BY <1>1, <1>2, <1>4, <1>5 DEF IInv

\* A call of write_ecm_answer, by whomever: who waited for the answer is called for.
LEMMA AnswerWritten ==
    ASSUME IInv, TypeOK', Joining', Tabled',
           NEW t \in Threads, NEW e \in Requests, NEW a \in Answer, NEW rest \in Seq(Call),
           WriteAnswer(t, e, a, rest), a.rc = "FOUND" => a.cw = ecm[e],
           Range(rest) \subseteq Range(todo[t]),
           \A c \in Range(todo[t]) : c.er = e \/ c \in Range(rest),
           UNCHANGED <<ecm, life, cache, cut, clocks, isPending, pending>>,
           \A f \in Requests : (Queued(f)' => Queued(f)) /\ (Listed(f)' => Listed(f))
    PROVE  IInv'
<1>1. /\ Waiting' /\ Cached' /\ AgesInOrder' /\ Bins' /\ NoWaitingInCircles' /\ Cutting'
      /\ \A f, h : Waits(f, h)' <=> Waits(f, h)
      /\ \A f : TooLate(f)' <=> TooLate(f)
  BY SamePeople
<1>t. TypeOK
  BY DEF IInv
<1>2. /\ \A u \in Threads \ {t} : todo'[u] = todo[u]
      /\ \A f \in Requests \ {e} : ea'[f] = ea[f]
      /\ Range(rest) \subseteq Range(todo'[t])
      /\ \/ /\ Unwritable(e) /\ ea'[e] = ea[e] /\ todo'[t] = rest
         \/ /\ ~Unwritable(e) /\ ea'[e] = a /\ ea'[e] # Unhandled
            /\ \A c \in Range(todo'[t]) \ Range(rest) :
                  \E f \in Requests : Waits(f, e) /\ c = Write(f, Passed(a))
            /\ \A f \in Requests : Waits(f, e) => Write(f, Passed(a)) \in Range(todo'[t])
  BY <1>t, Written
<1>3. Unwritable(e)' /\ \A f \in Requests : Unwritable(f) => Unwritable(f)'
  <2>1. Unwritable(e)'
    BY <1>1, <1>2 DEF Unwritable
  <2>2. ASSUME NEW f \in Requests \ {e}, Unwritable(f) PROVE Unwritable(f)'
    BY <1>1, <1>2, <2>2 DEF Unwritable
  <2>3. QED
    BY <2>1, <2>2
<1>4. Calls'
  <2>1. SUFFICES ASSUME NEW u \in Threads, NEW c \in Range(todo'[u]), c.ans.rc = "FOUND"
                 PROVE  c.ans.cw = ecm[c.er]
    BY DEF Calls
  <2>2. CASE c \in Range(todo[u])
    BY <2>1, <2>2 DEF IInv, Calls
  <2>3. CASE c \notin Range(todo[u])
    <3>1. u = t /\ c \notin Range(rest)
      BY <1>2, <2>1, <2>3
    <3>2. PICK f \in Requests : Waits(f, e) /\ c = Write(f, Passed(a))
      BY <1>2, <2>1, <3>1
    <3>3. Passed(a).rc = "FOUND" => a.rc = "FOUND" /\ Passed(a).cw = a.cw
      BY PassedOn
    <3>4. ecm[f] = ecm[e] /\ c.er = f /\ c.ans = Passed(a)
      BY <3>2 DEF IInv, Waiting, Write
    <3>5. QED
      BY <2>1, <3>3, <3>4
  <2>4. QED
    BY <2>2, <2>3
<1>5. WordOfOwnEcm'
  BY <1>2 DEF IInv, WordOfOwnEcm
<1>6. NobodyForgotten'
  <2>1. SUFFICES ASSUME NEW f \in Requests, NEW h \in Requests, Waits(f, h), ea'[h] # Unhandled
                 PROVE  Called(f)' \/ Unwritable(f)'
    BY <1>1 DEF NobodyForgotten
  <2>2. CASE ea[h] # Unhandled
    <3>1. Called(f) \/ Unwritable(f)
      BY <2>1, <2>2 DEF IInv, NobodyForgotten
    <3>2. CASE Unwritable(f)
      BY <1>3, <3>2
    <3>3. CASE Called(f)
      <4>1. PICK u \in Threads : \E c \in Range(todo[u]) : c.er = f
        BY <3>3, Calling
      <4>2. PICK c \in Range(todo[u]) : c.er = f
        BY <4>1
      <4>3. CASE u # t \/ c \in Range(rest)
        <5>1. c \in Range(todo'[u]) \/ c \in Range(todo'[t])
          BY <1>2, <4>2, <4>3
        <5>2. QED
          BY <4>2, <5>1, Calling
      <4>4. CASE u = t /\ c \notin Range(rest)
        BY <1>3, <4>2, <4>4
      <4>5. QED
        BY <4>3, <4>4
    <3>4. QED
      BY <3>1, <3>2, <3>3
  <2>3. CASE ea[h] = Unhandled
    <3>1. h = e /\ Write(f, Passed(a)) \in Range(todo'[t])
      BY <1>2, <2>1, <2>3
    <3>2. Write(f, Passed(a)).er = f
      BY DEF Write
    <3>3. QED
      BY <3>1, <3>2, Calling
  <2>4. QED
    BY <2>2, <2>3
<1>7. NotFreedInUse'
  <2>1. SUFFICES ASSUME NEW f \in Requests, life[f] = "freed", InUse(f)' PROVE InUse(f)
    BY DEF IInv, NotFreedInUse
  <2>2. CASE Queued(f)' \/ Listed(f)'
    BY <2>2, Uses
  <2>3. CASE Expecting(f)'
    <3>1. PICK h \in Requests : ea'[h] = Unhandled /\ ~TooLate(h) /\ Waits(f, h)
      BY <1>1, <2>3 DEF Expecting
    <3>2. ea[h] = Unhandled
      BY <1>2, <3>1
    <3>3. QED
      BY <3>1, <3>2, Uses DEF Expecting
  <2>4. CASE Called(f)'
    <3>1. PICK u \in Threads : \E c \in Range(todo'[u]) : c.er = f
      BY <2>4, Calling
    <3>2. PICK c \in Range(todo'[u]) : c.er = f
      BY <3>1
    <3>3. CASE c \in Range(todo[u])
      BY <3>2, <3>3, Uses, Calling
    <3>4. CASE c \notin Range(todo[u])
      <4>1. u = t /\ c \notin Range(rest)
        BY <1>2, <3>2, <3>4
      <4>2. PICK g \in Requests : Waits(g, e) /\ c = Write(g, Passed(a))
        BY <1>2, <3>2, <4>1
      <4>3. g = f
        BY <3>2, <4>2 DEF Write
      <4>4. ea[e] = Unhandled /\ ~TooLate(e)
        BY <1>2, <3>2, <4>1 DEF Unwritable
      <4>5. QED
        BY <4>2, <4>3, <4>4, Uses DEF Expecting
    <3>5. QED
      BY <3>3, <3>4
  <2>5. QED
    BY <2>1, <2>2, <2>3, <2>4, Uses
<1>8. QED
  BY <1>1, <1>4, <1>5, <1>6, <1>7 DEF IInv

\* get_cw: a request nobody knows yet comes into the cache, in front.
LEMMA StepInsert ==
    ASSUME IInv, TypeOK', NEW e \in Requests, Insert(e)
    PROVE  IInv'
<1>1. PICK late \in 0..Lag : age' = [age EXCEPT ![e] = late]
  BY DEF Insert
<1>t. /\ age \in [Requests -> 0..OldAge] /\ Lag \in 0..1 /\ Lag \in Nat /\ OldAge \in Nat /\ cache \in Seq(Requests)
      /\ life \in [Requests -> {"new", "cached", "garbage", "freed"}]
  <2>1. Lag \in 0..1 /\ Lag \in Nat /\ OldAge \in Nat
    BY Limits
  <2>2. QED
    BY <2>1 DEF IInv, TypeOK
<1>2. /\ life[e] = "new" /\ life' = [life EXCEPT ![e] = "cached"] /\ cache' = <<e>> \o cache
      /\ UNCHANGED <<ecm, cut, bin, eaVars, rdrVars, todo>>
  BY DEF Insert
<1>3. /\ \A f \in Requests : f # e => life'[f] = life[f] /\ age'[f] = age[f] /\ bin'[f] = bin[f]
      /\ life'[e] = "cached" /\ age'[e] = late /\ bin'[e] = 0
  BY <1>1, <1>2, <1>t DEF IInv, Bins
<1>4. /\ \A f, h : Waits(f, h)' <=> Waits(f, h)
      /\ \A f, h \in Requests : Waits(f, h) => f # e /\ h # e
  BY <1>2 DEF eaVars, Waits, IInv, Waiting
<1>5. \A f \in Requests : f # e => (TooLate(f)' <=> TooLate(f))
  BY <1>3 DEF TooLate, Timeout
<1>6. Joining'
  BY <1>2, <1>3, <1>4 DEF IInv, TypeOK, Joining, rdrVars, eaVars
<1>7. Waiting'
  BY <1>2, <1>3, <1>4 DEF IInv, Waiting, eaVars
<1>8. Calls' /\ WordOfOwnEcm' /\ Tabled'
  BY <1>2 DEF IInv, Calls, WordOfOwnEcm, Tabled, eaVars, rdrVars
<1>c. /\ DOMAIN cache = 1..Len(cache) /\ DOMAIN cache' = 1..(Len(cache) + 1) /\ Len(cache) \in Nat
      /\ cache'[1] = e /\ \A n \in 2..(Len(cache) + 1) : cache'[n] = cache[n - 1] /\ n - 1 \in DOMAIN cache
      /\ \A n \in DOMAIN cache : cache[n] \in Requests /\ cache[n] # e /\ life[cache[n]] = "cached"
  <2>1. DOMAIN cache = 1..Len(cache) /\ Len(cache) \in Nat /\ \A n \in DOMAIN cache : cache[n] \in Requests
    BY <1>t, InRange DEF Range
  <2>2. /\ cache' \in Seq(Requests) /\ Len(cache') = Len(cache) + 1
        /\ cache'[1] = e /\ \A n \in 2..(Len(cache) + 1) : cache'[n] = cache[n - 1]
    BY <1>2, <1>t, PutFirst
  <2>3. DOMAIN cache' = 1..(Len(cache) + 1)
    BY <2>2, InRange
  <2>4. \A n \in DOMAIN cache : life[cache[n]] = "cached"
    BY DEF IInv, Cached
  <2>5. QED
    BY <1>2, <2>1, <2>2, <2>3, <2>4
<1>9. Cached'
  <2>1. ASSUME NEW n \in DOMAIN cache' PROVE life'[cache'[n]] = "cached"
    <3>1. CASE n = 1
      BY <1>3, <1>c, <3>1
    <3>2. CASE n # 1
      <4>1. n \in 2..(Len(cache) + 1)
        BY <1>c, <3>2
      <4>2. QED
        BY <1>3, <1>c, <4>1
    <3>3. QED
      BY <3>1, <3>2
  <2>2. ASSUME NEW n \in DOMAIN cache', NEW m \in DOMAIN cache', cache'[n] = cache'[m] PROVE n = m
    <3>1. n \in 1..(Len(cache) + 1) /\ m \in 1..(Len(cache) + 1)
      BY <1>c
    <3>2. CASE n = 1 \/ m = 1
      BY <1>c, <2>2, <3>1, <3>2
    <3>3. CASE n # 1 /\ m # 1
      <4>1. n \in 2..(Len(cache) + 1) /\ m \in 2..(Len(cache) + 1)
        BY <1>c, <3>1, <3>3
      <4>2. n - 1 = m - 1
        BY <1>c, <2>2, <4>1 DEF IInv, Cached
      <4>3. QED
        BY <1>c, <4>1, <4>2
    <3>4. QED
      BY <3>2, <3>3
  <2>3. QED
    BY <2>1, <2>2 DEF Cached
<1>10. AgesInOrder'
  <2>1. SUFFICES ASSUME NEW n \in DOMAIN cache', NEW m \in DOMAIN cache', n < m
                 PROVE  age'[cache'[n]] <= age'[cache'[m]] + Lag
    BY DEF AgesInOrder
  <2>2. m \in 2..(Len(cache) + 1)
    BY <1>c, <2>1
  <2>3. cache'[m] = cache[m - 1] /\ m - 1 \in DOMAIN cache /\ age'[cache'[m]] = age[cache[m - 1]]
        /\ age[cache[m - 1]] \in Nat
    BY <1>3, <1>c, <1>t, <2>2
  <2>4. CASE n = 1
    BY <1>3, <1>c, <1>t, <2>3, <2>4
  <2>5. CASE n # 1
    <3>1. n \in 2..(Len(cache) + 1)
      BY <1>c, <2>1, <2>5
    <3>2. cache'[n] = cache[n - 1] /\ n - 1 \in DOMAIN cache /\ age'[cache'[n]] = age[cache[n - 1]] /\ n - 1 < m - 1
      BY <1>3, <1>c, <2>1, <2>2, <3>1
    <3>3. QED
      BY <2>3, <3>2 DEF IInv, AgesInOrder
  <2>6. QED
    BY <2>4, <2>5
<1>11. Cutting'
  <2>a. cut' = cut /\ (cut.er = None => cut.prv = None)
    BY <1>2 DEF IInv, Cutting
  <2>b. CASE cut.er = None
    BY <2>a, <2>b DEF Cutting
  <2>1. SUFFICES ASSUME cut.er # None PROVE Cutting'
    BY <2>b
  <2>2. PICK n \in DOMAIN cache : /\ cache[n] = cut.er /\ age[cut.er] > CutAge
                                  /\ cut.prv # None => n - 1 \in DOMAIN cache /\ cache[n - 1] = cut.prv
    BY <2>1 DEF IInv, Cutting
  <2>3. n + 1 \in 2..(Len(cache) + 1) /\ (n + 1) - 1 = n
    BY <1>c
  <2>4. cache'[n + 1] = cut.er /\ age'[cut.er] > CutAge
    BY <1>3, <1>c, <2>2, <2>3
  <2>5. cut.prv # None => n \in DOMAIN cache' /\ cache'[n] = cut.prv
    <3>1. SUFFICES ASSUME cut.prv # None PROVE n \in DOMAIN cache' /\ cache'[n] = cut.prv
      OBVIOUS
    <3>2. n - 1 \in DOMAIN cache /\ cache[n - 1] = cut.prv
      BY <2>2, <3>1
    <3>3. n \in 2..(Len(cache) + 1)
      BY <1>c, <3>2
    <3>4. QED
      BY <1>c, <3>2, <3>3
  <2>6. n + 1 \in DOMAIN cache' /\ (n + 1) - 1 = n
    BY <1>c, <2>3
  <2>7. QED
    BY <2>a, <2>1, <2>4, <2>5, <2>6 DEF Cutting, CutAge, Timeout
<1>12. Bins'
  <2>1. SUFFICES ASSUME NEW f \in Requests
                 PROVE  /\ life'[f] \in {"new", "cached"} => bin'[f] = 0
                        /\ life'[f] = "garbage" =>
                              /\ bin'[f] < GoneTime
                              /\ age'[f] >= bin'[f] \/ age'[f] = OldAge
                              /\ \A h \in Requests : Waits(f, h) => age'[h] >= bin'[f] \/ age'[h] = OldAge
    BY <1>4 DEF Bins, GoneTime, GarbageTime, OldAge, CutAge, Timeout
  <2>2. CASE f = e
    BY <1>3, <2>2
  <2>3. CASE f # e
    BY <1>3, <1>4, <2>3 DEF IInv, Bins
  <2>4. QED
    BY <2>2, <2>3
<1>13. NobodyForgotten'
  <2>1. SUFFICES ASSUME NEW f \in Requests, NEW h \in Requests, Waits(f, h), ea[h] # Unhandled
                 PROVE  Called(f)' \/ Unwritable(f)'
    BY <1>2, <1>4 DEF NobodyForgotten, eaVars
  <2>2. f # e /\ (Called(f) \/ Unwritable(f))
    BY <1>4, <2>1 DEF IInv, NobodyForgotten
  <2>3. QED
    BY <1>2, <1>3, <1>5, <2>2 DEF Called, Unwritable, eaVars
<1>14. NoWaitingInCircles'
  BY <1>4 DEF IInv, NoWaitingInCircles
<1>15. NotFreedInUse'
  <2>1. SUFFICES ASSUME NEW f \in Requests, life'[f] = "freed", InUse(f)' PROVE life[f] = "freed" /\ InUse(f)
    BY DEF IInv, NotFreedInUse
  <2>2. f # e /\ life[f] = "freed" /\ bin'[f] = bin[f] /\ (TooLate(f)' <=> TooLate(f))
    BY <1>3, <1>5, <2>1
  <2>3. Queued(f)' => Queued(f)
    BY <1>2, <2>2 DEF Queued, rdrVars, MayStart
  <2>4. Expecting(f)' => Expecting(f)
    BY <1>2, <1>4, <1>5 DEF Expecting, eaVars
  <2>5. Listed(f)' => Listed(f)
    BY <1>2, <2>2 DEF Listed, rdrVars
  <2>6. Called(f)' => Called(f)
    BY <1>2 DEF Called
  <2>7. QED
    BY <2>1, <2>2, <2>3, <2>4, <2>5, <2>6, Uses
<1>16. QED
  BY <1>6, <1>7, <1>8, <1>9, <1>10, <1>11, <1>12, <1>13, <1>14, <1>15 DEF IInv

\* reader_get_ecm finds the request whose answer it is going to join: one that does
\* not wait itself.
LEMMA StepJoin ==
    ASSUME IInv, TypeOK', NEW e \in Requests, Join(e)
    PROVE  IInv'
<1>1. PICK n \in Hosts(e) : host' = cache[n]
  BY DEF Join
<1>2. /\ joining = None /\ todo[Reader] = <<>> /\ life[e] = "cached" /\ Range(queue') \subseteq Range(queue)
      /\ joining' = e /\ isPending' = [isPending EXCEPT ![e] = TRUE]
      /\ UNCHANGED <<ecm, cacheVars, clocks, sent, ea, pending, rows, todo>>
  BY Started DEF Join
<1>3. n \in DOMAIN cache /\ cache[n] \in Requests /\ Joinable(e, cache[n])
  BY InRange DEF Hosts, IInv, TypeOK, Range
<1> DEFINE h == cache[n]
<1>4. h \in Requests /\ h # e /\ ecm[h] = ecm[e] /\ life[h] = "cached" /\ ~isPending[h]
  BY <1>3 DEF Joinable, IInv, Cached
<1>5. \A k \in Requests : ~Waits(h, k)
  BY <1>4 DEF IInv, Waiting
<1>p. \A f \in Requests : isPending[f] => isPending'[f]
  BY <1>2 DEF IInv, TypeOK
<1>q. isPending'[e]
  BY <1>2 DEF IInv, TypeOK
<1>6. /\ \A f, k : Waits(f, k)' <=> Waits(f, k)
      /\ \A f : TooLate(f)' <=> TooLate(f)
  BY <1>2 DEF Waits, TooLate, Timeout, clocks
<1>7. Joining'
  <2>1. host' = h /\ bin[e] = 0
    BY <1>1, <1>2 DEF IInv, Bins
  <2>2. QED
    BY <1>2, <1>4, <1>5, <1>6, <1>q, <2>1 DEF Joining, cacheVars, clocks
<1>8. Waiting'
  BY <1>2, <1>6, <1>p DEF IInv, Waiting, cacheVars
<1>9. Calls' /\ Tabled' /\ WordOfOwnEcm'
  BY <1>2 DEF IInv, Calls, Tabled, WordOfOwnEcm
<1>10. Cached' /\ AgesInOrder' /\ Cutting'
  BY <1>2 DEF IInv, Cached, AgesInOrder, Cutting, cacheVars, clocks, CutAge, Timeout
<1>11. Bins'
  BY <1>2, <1>6 DEF IInv, Bins, cacheVars, clocks, GoneTime, GarbageTime, OldAge, CutAge, Timeout
<1>12. NobodyForgotten' /\ NoWaitingInCircles'
  BY <1>2, <1>6 DEF IInv, NobodyForgotten, NoWaitingInCircles, Called, Unwritable, cacheVars
<1>13. NotFreedInUse'
  <2>1. ASSUME NEW f \in Requests, InUse(f)' PROVE InUse(f)
    <3>1. Queued(f)' => Queued(f)
      BY <1>2 DEF Queued, clocks, MayStart
    <3>2. /\ Expecting(f)' => Expecting(f)
          /\ Listed(f)' => Listed(f)
          /\ Called(f)' => Called(f)
      BY <1>2, <1>6 DEF Expecting, Listed, Called
    <3>3. QED
      BY <2>1, <3>1, <3>2, Uses
  <2>2. QED
    BY <1>2, <2>1 DEF IInv, NotFreedInUse, cacheVars
<1>14. QED
  BY <1>7, <1>8, <1>9, <1>10, <1>11, <1>12, <1>13 DEF IInv

\* The host has no answer yet: the request gets into its list.  The host waits for
\* nobody, so that no circle is closed.
LEMMA StepJoinWaits ==
    ASSUME IInv, TypeOK', JoinWaits
    PROVE  IInv'
<1> DEFINE e == joining
           g == host
<1>1. /\ e \in Requests /\ g \in Requests /\ g # e /\ ecm[g] = ecm[e] /\ bin[e] = 0
      /\ life[g] \in {"cached", "garbage"} /\ life[e] \in {"cached", "garbage"}
      /\ life[e] = "cached" => isPending[e]
      /\ \A k \in Requests : ~Waits(g, k)
  BY DEF IInv, TypeOK, Joining, JoinWaits
<1>2. /\ joining' = None /\ ea[g] = Unhandled
      /\ pending' = [pending EXCEPT ![g] = <<e>> \o @]
      /\ UNCHANGED <<ecm, cacheVars, clocks, sent, ea, isPending, queue, rows, todo>>
  BY DEF JoinWaits
<1>3. \A f, k \in Requests : Waits(f, k)' <=> Waits(f, k) \/ (f = e /\ k = g)
  <2>1. \A k \in Requests : pending[k] \in Seq(Requests)
    BY DEF IInv, TypeOK
  <2>2. Range(<<e>> \o pending[g]) = {e} \cup Range(pending[g])
    BY <1>1, <2>1, PutFirst
  <2>3. \A f, k : (Waits(f, k) <=> f \in Range(pending[k])) /\ (Waits(f, k)' <=> f \in Range(pending'[k]))
    BY DEF Waits, Range
  <2>4. \A k \in Requests : pending'[k] = IF k = g THEN <<e>> \o pending[g] ELSE pending[k]
    BY <1>1, <1>2 DEF IInv, TypeOK
  <2>5. QED
    BY <1>1, <2>2, <2>3, <2>4
<1>4. \A f : TooLate(f)' <=> TooLate(f)
  BY <1>2 DEF TooLate, Timeout, clocks
<1> HIDE DEF e, g
<1>5. Joining' /\ Calls' /\ Tabled' /\ WordOfOwnEcm'
  BY <1>2 DEF IInv, Joining, Calls, Tabled, WordOfOwnEcm
<1>6. Waiting'
  BY <1>1, <1>2, <1>3 DEF IInv, Waiting, cacheVars
<1>7. Cached' /\ AgesInOrder' /\ Cutting'
  BY <1>2 DEF IInv, Cached, AgesInOrder, Cutting, cacheVars, clocks, CutAge, Timeout
<1>8. Bins'
  <2>1. SUFFICES ASSUME NEW f \in Requests
                 PROVE  /\ life[f] \in {"new", "cached"} => bin[f] = 0
                        /\ life[f] = "garbage" =>
                              /\ bin[f] < GoneTime
                              /\ age[f] >= bin[f] \/ age[f] = OldAge
                              /\ \A h \in Requests : Waits(f, h)' => age[h] >= bin[f] \/ age[h] = OldAge
    BY <1>2 DEF Bins, GoneTime, GarbageTime, OldAge, CutAge, Timeout, cacheVars, clocks
  <2>2. age[g] \in Nat
    BY <1>1, Limits DEF IInv, TypeOK
  <2>3. \A h \in Requests : Waits(f, h)' => Waits(f, h) \/ (f = e /\ h = g /\ age[h] >= bin[f])
    BY <1>1, <1>3, <2>2
  <2>4. QED
    BY <2>3 DEF IInv, Bins
<1>9. NobodyForgotten'
  BY <1>2, <1>3, <1>4 DEF IInv, NobodyForgotten, Called, Unwritable, cacheVars
<1>10. NoWaitingInCircles'
  <2>1. SUFFICES ASSUME NEW S \in (SUBSET Requests) \ {{}}
                 PROVE  \E f \in S : \A h \in S : ~Waits(f, h)'
    BY DEF NoWaitingInCircles
  <2>2. CASE g \in S
    BY <1>1, <1>3, <2>2
  <2>3. CASE g \notin S
    <3>1. PICK f \in S : \A h \in S : ~Waits(f, h)
      BY <2>1 DEF IInv, NoWaitingInCircles
    <3>2. QED
      BY <1>3, <2>3, <3>1
  <2>4. QED
    BY <2>2, <2>3
<1>11. NotFreedInUse'
  <2>1. SUFFICES ASSUME NEW f \in Requests, life[f] = "freed", InUse(f)' PROVE InUse(f)
    BY <1>2 DEF IInv, NotFreedInUse, cacheVars
  <2>2. f # e
    BY <1>1, <2>1
  <2>3. Expecting(f)' => Expecting(f)
    BY <1>2, <1>3, <1>4, <2>2 DEF Expecting
  <2>4. (Queued(f)' => Queued(f)) /\ (Listed(f)' => Listed(f)) /\ (Called(f)' => Called(f))
    BY <1>2, <1>4 DEF Queued, Listed, Called, clocks, MayStart
  <2>5. QED
    BY <2>1, <2>3, <2>4, Uses
<1>12. QED
  BY <1>5, <1>6, <1>7, <1>8, <1>9, <1>10, <1>11 DEF IInv

\* A reply of the proxy: the requests called for were in the reader's table.
LEMMA StepReply ==
    ASSUME IInv, TypeOK', NEW n \in 1..MaxPending, ReplyStep(n)
    PROVE  IInv'
<1>t. TypeOK /\ Tabled
  BY DEF IInv
<1>1. rows[n].er \in Requests /\ Found(ecm[rows[n].er]) \in Answer /\ NotFound \in Answer
  <2>1. rows[n].er \in Requests
    BY <1>t DEF ReplyStep, Tabled, TypeOK
  <2>2. ecm[rows[n].er] \in Ecms
    BY <1>t, <2>1, AssignmentsAssumption DEF TypeOK
  <2>3. QED
    BY <2>1, <2>2, PassedOn
<1>2. PICK a \in {Found(ecm[rows[n].er]), NotFound} : Reply(n, a)
  BY DEF ReplyStep
<1>3. a.rc = "FOUND" => a.cw = ecm[rows[n].er]
  BY <1>2 DEF Found, NotFound
<1>4. /\ joining = None /\ todo[Reader] = <<>>
      /\ UNCHANGED <<ecm, cacheVars, clocks, eaVars, queue, joining, host>>
  BY <1>2 DEF Reply, ReaderIdle
<1>5. /\ \A u \in Threads \ {Reader} : todo'[u] = todo[u]
      /\ \A c \in Range(todo'[Reader]) : \E m \in 1..MaxPending :
            /\ rows[m].busy /\ ~TooLate(rows[m].er) /\ ecm[rows[m].er] = ecm[rows[n].er]
            /\ c = Write(rows[m].er, a)
      /\ rows' \in [1..MaxPending -> Row]
      /\ \A m \in 1..MaxPending :
            /\ rows'[m].busy => rows[m].busy /\ rows'[m].er = rows[m].er
            /\ rows'[m].open => rows[m].open /\ rows'[m].er = rows[m].er
  BY <1>t, <1>1, <1>2, Replied
<1>d. DOMAIN rows = 1..MaxPending /\ DOMAIN rows' = 1..MaxPending
  BY <1>t, <1>5 DEF TypeOK
<1>6. /\ Waiting' /\ Cached' /\ AgesInOrder' /\ Bins' /\ NoWaitingInCircles' /\ Cutting'
      /\ \A f, h : Waits(f, h)' <=> Waits(f, h)
      /\ \A f : TooLate(f)' <=> TooLate(f)
  BY <1>4, SamePeople DEF cacheVars, clocks, eaVars
<1>7. Joining' /\ WordOfOwnEcm'
  BY <1>4 DEF IInv, Joining, WordOfOwnEcm, eaVars
<1>8. Tabled'
  BY <1>t, <1>5, <1>d DEF Tabled
<1>9. Calls'
  <2>1. ASSUME NEW c \in Range(todo'[Reader]), c.ans.rc = "FOUND" PROVE c.ans.cw = ecm[c.er]
    BY <1>3, <1>5, <2>1 DEF Write
  <2>2. ASSUME NEW u \in Threads \ {Reader}, NEW c \in Range(todo'[u]), c.ans.rc = "FOUND"
        PROVE  c.ans.cw = ecm[c.er]
    BY <1>5, <2>2 DEF IInv, Calls
  <2>3. QED
    BY <1>4, <2>1, <2>2 DEF Calls
<1>10. NobodyForgotten'
  <2>1. Range(todo[Reader]) = {}
    BY <1>4 DEF Range
  <2>2. \A f : Called(f) => Called(f)'
    BY <1>5, <2>1, Calling
  <2>3. QED
    BY <1>4, <1>6, <2>2 DEF IInv, NobodyForgotten, Unwritable, cacheVars, eaVars
<1>11. NotFreedInUse'
  <2>1. SUFFICES ASSUME NEW f \in Requests, InUse(f)' PROVE InUse(f)
    BY <1>4 DEF IInv, NotFreedInUse, cacheVars
  <2>2. Queued(f)' => Queued(f)
    BY <1>4 DEF Queued, clocks, MayStart
  <2>3. Expecting(f)' => Expecting(f)
    BY <1>4, <1>6 DEF Expecting, eaVars
  <2>4. Listed(f)' => Listed(f)
    BY <1>5, <1>6, <1>d DEF Listed
  <2>5. Called(f)' => Called(f) \/ Listed(f)
    <3>1. SUFFICES ASSUME Called(f)' PROVE Called(f) \/ Listed(f)
      OBVIOUS
    <3>2. PICK u \in Threads : \E c \in Range(todo'[u]) : c.er = f
      BY <3>1, Calling
    <3>3. CASE u = Reader
      BY <1>5, <1>d, <3>2, <3>3 DEF Listed, Write
    <3>4. CASE u # Reader
      BY <1>5, <3>2, <3>4, Calling
    <3>5. QED
      BY <3>3, <3>4
  <2>6. QED
    BY <2>1, <2>2, <2>3, <2>4, <2>5, Uses
<1>12. QED
  BY <1>6, <1>7, <1>8, <1>9, <1>10, <1>11 DEF IInv

\* Where cw_process cuts: at the request it has found, behind the one it has noted.
LEMMA CutPlace ==
    ASSUME IInv, cut.er # None
    PROVE  \E n \in DOMAIN cache :
              /\ cache[n] = cut.er /\ age[cut.er] > CutAge /\ Index(cut.er) = n
              /\ cut.prv # None => Index(cut.prv) = n - 1 /\ n - 1 \in DOMAIN cache
<1>1. \A n, m \in DOMAIN cache : cache[n] = cache[m] => n = m
  BY DEF IInv, Cached
<1>2. \A n \in DOMAIN cache : Index(cache[n]) = n
  BY <1>1 DEF Index
<1>3. PICK n \in DOMAIN cache : /\ cache[n] = cut.er /\ age[cut.er] > CutAge
                                /\ cut.prv # None => n - 1 \in DOMAIN cache /\ cache[n - 1] = cut.prv
  BY DEF IInv, Cutting
<1>4. QED
  BY <1>2, <1>3

\* Under the read lock it only looks for that place.
LEMMA StepCutScan ==
    ASSUME IInv, TypeOK', CutScan
    PROVE  IInv'
<1>1. UNCHANGED <<ecm, life, cache, clocks, eaVars, rdrVars, todo>>
  BY DEF CutScan
<1>2. Joining' /\ Tabled'
  BY <1>1 DEF IInv, Joining, Tabled, clocks, eaVars, rdrVars, Waits
<1>3. Cutting'
  <2>1. PICK n \in DOMAIN cache :
           /\ age[cache[n]] > CutAge
           /\ cut' = [er |-> cache[n], prv |-> IF n = 1 THEN None ELSE cache[n - 1]]
    BY DEF CutScan
  <2>2. cache \in Seq(Requests) /\ DOMAIN cache = 1..Len(cache) /\ Len(cache) \in Nat
        /\ \A m \in DOMAIN cache : cache[m] \in Requests
    BY InRange DEF IInv, TypeOK, Range
  <2>3. n # 1 => n - 1 \in DOMAIN cache
    BY <2>2
  <2>4. cut'.er = cache[n] /\ cut'.er # None /\ cut'.prv = IF n = 1 THEN None ELSE cache[n - 1]
    BY <2>1, <2>2, Threading
  <2>5. QED
    BY <1>1, <2>1, <2>3, <2>4 DEF Cutting, clocks, CutAge, Timeout
<1>4. \A e \in Requests : (Queued(e)' => Queued(e)) /\ (Listed(e)' => Listed(e))
  BY <1>1 DEF Queued, Listed, TooLate, clocks, rdrVars, MayStart, Timeout
<1>5. QED
  BY <1>1, <1>2, <1>3, <1>4, NoAnswer DEF eaVars, rdrVars

\* Under the write lock it takes out that request and all behind it, and free_ecm
\* takes them from everybody: nobody waits for them any more.
LEMMA StepCutTail ==
    ASSUME IInv, TypeOK', CutTail
    PROVE  IInv'
<1> DEFINE first == Index(cut.er)
           last == IF cut.prv = None THEN 0 ELSE Index(cut.prv)
           old == {cache[n] : n \in first..Len(cache)}
<1>1. /\ cut.er # None /\ cache' = SubSeq(cache, 1, last) /\ FreeEcm(old)
      /\ cut' = [er |-> None, prv |-> None] /\ UNCHANGED <<ecm, clocks, rdrVars, todo>>
  BY DEF CutTail
<1>2. PICK n \in DOMAIN cache :
         /\ cache[n] = cut.er /\ Index(cut.er) = n
         /\ cut.prv # None => Index(cut.prv) = n - 1 /\ n - 1 \in DOMAIN cache
  BY <1>1, CutPlace
<1>c. cache \in Seq(Requests) /\ DOMAIN cache = 1..Len(cache) /\ Len(cache) \in Nat
      /\ \A m \in DOMAIN cache : cache[m] \in Requests
  BY InRange DEF IInv, TypeOK, Range
<1>3. last \in 0..Len(cache) /\ last < first /\ first = n
  BY <1>2, <1>c
<1>4. old \subseteq Requests /\ \A e \in old : life[e] = "cached"
  <2>1. \A m \in first..Len(cache) : m \in DOMAIN cache
    BY <1>3, <1>c
  <2>2. QED
    BY <1>c, <2>1 DEF IInv, Cached
<1>5. /\ Len(cache') = last /\ DOMAIN cache' = 1..last
      /\ \A m \in 1..last : cache'[m] = cache[m] /\ m \in DOMAIN cache
  <2>1. cache' \in Seq(Requests) /\ Len(cache') = last /\ \A m \in 1..last : cache'[m] = cache[m]
    BY <1>1, <1>3, <1>c, Beginning
  <2>2. DOMAIN cache' = 1..last
    BY <2>1, InRange
  <2>3. QED
    BY <1>3, <1>c, <2>1, <2>2
<1>6. \A m \in 1..last : cache[m] \notin old
  <2>1. SUFFICES ASSUME NEW m \in 1..last, NEW k \in first..Len(cache), cache[m] = cache[k] PROVE FALSE
    OBVIOUS
  <2>2. m \in DOMAIN cache /\ k \in DOMAIN cache /\ m < k
    BY <1>3, <1>c, <2>1
  <2>3. QED
    BY <2>1, <2>2 DEF IInv, Cached
<1> HIDE DEF old, first, last
<1>7. \A e \in Requests :
         /\ e \in old => life'[e] = "garbage" /\ ea'[e] = Unhandled /\ pending'[e] = <<>>
         /\ e \notin old => /\ life'[e] = life[e] /\ ea'[e] = ea[e] /\ pending'[e] = pending[e]
                            /\ isPending'[e] = (e \notin old /\ isPending[e])
  BY <1>1 DEF FreeEcm
<1>p. \A e \in Requests : e \notin old => (isPending'[e] <=> isPending[e])
  BY <1>7
<1>8. \A e, h \in Requests : Waits(e, h)' <=> h \notin old /\ Waits(e, h)
  <2>1. DOMAIN <<>> = {}
    OBVIOUS
  <2>2. QED
    BY <1>7, <2>1 DEF Waits
<1>9. /\ \A e : TooLate(e)' <=> TooLate(e)
      /\ \A e : Called(e)' <=> Called(e)
      /\ UNCHANGED <<age, bin, queue, rows, joining, host>>
  BY <1>1 DEF TooLate, Timeout, clocks, rdrVars, Called
<1>10. Joining'
  <2>1. SUFFICES ASSUME joining # None
                 PROVE  /\ todo[Reader] = <<>>
                        /\ host \in Requests /\ host # joining /\ ecm[host] = ecm[joining]
                        /\ life'[host] \in {"cached", "garbage"} /\ life'[joining] \in {"cached", "garbage"}
                        /\ bin[joining] = 0
                        /\ life'[joining] = "cached" => isPending'[joining]
                        /\ \A k \in Requests : ~Waits(host, k)'
    BY <1>1, <1>9 DEF Joining
  <2>2. /\ joining \in Requests /\ todo[Reader] = <<>>
        /\ host \in Requests /\ host # joining /\ ecm[host] = ecm[joining]
        /\ life[host] \in {"cached", "garbage"} /\ life[joining] \in {"cached", "garbage"}
        /\ bin[joining] = 0
        /\ life[joining] = "cached" => isPending[joining]
        /\ \A k \in Requests : ~Waits(host, k)
    BY <2>1 DEF IInv, TypeOK, Joining
  <2>3. life'[host] \in {"cached", "garbage"} /\ life'[joining] \in {"cached", "garbage"}
    BY <1>7, <2>2
  <2>4. life'[joining] = "cached" => isPending'[joining]
    BY <1>7, <1>p, <2>2
  <2>5. \A k \in Requests : ~Waits(host, k)'
    BY <1>8, <1>9, <2>2
  <2>6. QED
    BY <2>2, <2>3, <2>4, <2>5
<1>11. Waiting'
  <2>1. SUFFICES ASSUME NEW e \in Requests, NEW h \in Requests, h \notin old, Waits(e, h)
                 PROVE  /\ ecm[e] = ecm[h] /\ life'[e] # "new" /\ life'[h] # "new"
                        /\ life'[e] = "cached" => isPending'[e]
    BY <1>1, <1>8 DEF Waiting
  <2>2. /\ ecm[e] = ecm[h] /\ life[e] # "new" /\ life[h] # "new"
        /\ life[e] = "cached" => isPending[e]
    BY <2>1 DEF IInv, Waiting
  <2>3. QED
    BY <1>7, <1>p, <2>2
<1>12. Calls' /\ Tabled'
  BY <1>1, <1>9 DEF IInv, Calls, Tabled
<1>13. Cached'
  <2>1. \A m \in DOMAIN cache' : life'[cache'[m]] = "cached"
    BY <1>5, <1>6, <1>7, <1>c DEF IInv, Cached
  <2>2. QED
    BY <1>5, <2>1 DEF IInv, Cached
<1>14. AgesInOrder'
  BY <1>5, <1>9 DEF IInv, AgesInOrder
<1>15. Cutting'
  BY <1>1 DEF Cutting
<1>16. Bins'
  <2>1. SUFFICES ASSUME NEW e \in Requests
                 PROVE  /\ life'[e] \in {"new", "cached"} => bin[e] = 0
                        /\ life'[e] = "garbage" =>
                              /\ bin[e] < GoneTime
                              /\ age[e] >= bin[e] \/ age[e] = OldAge
                              /\ \A h \in Requests : Waits(e, h)' => age[h] >= bin[e] \/ age[h] = OldAge
    BY <1>9 DEF Bins, GoneTime, GarbageTime, OldAge, CutAge, Timeout
  <2>2. CASE e \in old
    <3>1. bin[e] = 0 /\ life'[e] = "garbage"
      BY <1>4, <1>7, <2>2 DEF IInv, Bins
    <3>2. 0 < GoneTime /\ \A h \in Requests : age[h] >= 0
      BY Limits DEF IInv, TypeOK
    <3>3. QED
      BY <3>1, <3>2
  <2>3. CASE e \notin old
    BY <1>7, <1>8, <2>3 DEF IInv, Bins
  <2>4. QED
    BY <2>2, <2>3
<1>17. WordOfOwnEcm'
  <2>1. Unhandled.rc # "FOUND"
    BY DEF Unhandled
  <2>2. QED
    BY <1>1, <1>7, <2>1 DEF IInv, WordOfOwnEcm
<1>18. NobodyForgotten'
  <2>1. SUFFICES ASSUME NEW e \in Requests, NEW h \in Requests, Waits(e, h)', ea'[h] # Unhandled
                 PROVE  Called(e)' \/ Unwritable(e)'
    BY DEF NobodyForgotten
  <2>2. Called(e) \/ Unwritable(e)
    BY <1>7, <1>8, <2>1 DEF IInv, NobodyForgotten
  <2>3. Unwritable(e) => Unwritable(e)'
    BY <1>7, <1>9 DEF Unwritable
  <2>4. QED
    BY <1>9, <2>2, <2>3
<1>19. NoWaitingInCircles'
  BY <1>8 DEF IInv, NoWaitingInCircles
<1>20. NotFreedInUse'
  <2>1. SUFFICES ASSUME NEW e \in Requests, life'[e] = "freed", InUse(e)' PROVE life[e] = "freed" /\ InUse(e)
    BY DEF IInv, NotFreedInUse
  <2>2. life[e] = "freed"
    BY <1>7, <2>1
  <2>3. Expecting(e)' => Expecting(e)
    BY <1>7, <1>8, <1>9 DEF Expecting
  <2>4. (Queued(e)' => Queued(e)) /\ (Listed(e)' => Listed(e))
    BY <1>9 DEF Queued, Listed, MayStart
  <2>5. QED
    BY <1>9, <2>1, <2>2, <2>3, <2>4, Uses
<1>21. QED
  BY <1>10, <1>11, <1>12, <1>13, <1>14, <1>15, <1>16, <1>17, <1>18, <1>19, <1>20 DEF IInv

\* A second passes.  What is freed because its time has come is in use no more: its
\* job would be dropped, and whoever it waits for is too late to be answered.
LEMMA StepTick ==
    ASSUME IInv, TypeOK', Tick
    PROVE  IInv'
<1>1. /\ joining = None /\ cut.er = None /\ \A t \in Threads : todo[t] = <<>>
      /\ UNCHANGED <<ecm, cache, cut, eaVars, rdrVars, todo>>
  BY DEF Tick, AllIdle
<1>2. \A e, h : Waits(e, h)' <=> Waits(e, h)
  BY <1>1 DEF Waits, eaVars
<1>3. \A e \in Requests : TooLate(e) => TooLate(e)'
  BY Ticked
<1>c. \A n \in DOMAIN cache : cache[n] \in Requests /\ life[cache[n]] = "cached"
  BY InRange DEF IInv, TypeOK, Cached, Range
<1>4. Joining'
  BY <1>1 DEF Joining, rdrVars
<1>l. \A e \in Requests : /\ life'[e] = "new" <=> life[e] = "new"
                          /\ life'[e] = "cached" <=> life[e] = "cached"
                          /\ life'[e] = "garbage" => life[e] = "garbage"
  BY Ticked
<1>5. Waiting'
  BY <1>1, <1>2, <1>l DEF IInv, Waiting, eaVars
<1>6. Calls' /\ Tabled' /\ WordOfOwnEcm' /\ NoWaitingInCircles'
  BY <1>1, <1>2 DEF IInv, Calls, Tabled, WordOfOwnEcm, NoWaitingInCircles, eaVars, rdrVars
<1>7. Cached'
  BY <1>1, <1>c, <1>l DEF IInv, Cached
<1>8. AgesInOrder'
  <2>1. SUFFICES ASSUME NEW n \in DOMAIN cache, NEW m \in DOMAIN cache, n < m
                 PROVE  age'[cache[n]] <= age'[cache[m]] + Lag
    BY <1>1 DEF AgesInOrder
  <2>2. age[cache[n]] <= age[cache[m]] + Lag
    BY <2>1 DEF IInv, AgesInOrder
  <2>3. \A e \in Requests : life[e] = "cached" =>
           /\ age[e] \in 0..OldAge /\ age'[e] \in 0..OldAge
           /\ age'[e] = OldAge \/ age'[e] = age[e] + 1
           /\ age'[e] >= age[e]
    BY Ticked
  <2>4. /\ age[cache[n]] \in 0..OldAge /\ age[cache[m]] \in 0..OldAge
        /\ age'[cache[n]] \in 0..OldAge /\ age'[cache[m]] \in 0..OldAge
        /\ age'[cache[n]] = OldAge \/ age'[cache[n]] = age[cache[n]] + 1
        /\ age'[cache[m]] = OldAge \/ age'[cache[m]] = age[cache[m]] + 1
        /\ age'[cache[n]] >= age[cache[n]]
    BY <1>c, <2>3
  <2>5. Lag \in Nat /\ OldAge \in Nat
    BY Limits
  <2>6. age'[cache[n]] = OldAge => age[cache[n]] = OldAge \/ age[cache[n]] + 1 = OldAge
    <3>1. age'[cache[n]] = IF life[cache[n]] = "new" \/ age[cache[n]] = OldAge THEN age[cache[n]] ELSE age[cache[n]] + 1
      BY <1>c DEF Tick
    <3>2. QED
      BY <1>c, <2>4, <2>5, <3>1
  <2>7. QED
    BY <2>2, <2>4, <2>5, <2>6
<1>9. Cutting'
  BY <1>1 DEF IInv, Cutting
<1>10. Bins'
  <2>1. SUFFICES ASSUME NEW e \in Requests
                 PROVE  /\ life'[e] \in {"new", "cached"} => bin'[e] = 0
                        /\ life'[e] = "garbage" =>
                              /\ bin'[e] < GoneTime
                              /\ age'[e] >= bin'[e] \/ age'[e] = OldAge
                              /\ \A h \in Requests : Waits(e, h) => age'[h] >= bin'[e] \/ age'[h] = OldAge
    BY <1>2 DEF Bins, GoneTime, GarbageTime, OldAge, CutAge, Timeout
  <2>2. life'[e] \in {"new", "cached"} => bin'[e] = 0
    BY <1>l, Ticked DEF IInv, Bins
  <2>3. ASSUME life'[e] = "garbage"
        PROVE  /\ bin'[e] < GoneTime
               /\ \A h \in Requests : (h = e \/ Waits(e, h)) => age'[h] >= bin'[e] \/ age'[h] = OldAge
    <3>1. life[e] = "garbage" /\ bin'[e] = bin[e] + 1 /\ bin'[e] < GoneTime /\ bin[e] \in Nat
      BY <1>l, <2>3, Ticked, Limits
    <3>2. SUFFICES ASSUME NEW h \in Requests, h = e \/ Waits(e, h) PROVE age'[h] >= bin'[e] \/ age'[h] = OldAge
      BY <3>1
    <3>3. life[h] # "new" /\ (age[h] >= bin[e] \/ age[h] = OldAge)
      BY <3>1, <3>2 DEF IInv, Waiting, Bins
    <3>4. /\ age'[h] = OldAge \/ age'[h] = age[h] + 1
          /\ age'[h] >= age[h] /\ age[h] \in 0..OldAge /\ age'[h] \in 0..OldAge /\ OldAge \in Nat
      BY <3>3, Ticked, Limits
    <3>5. QED
      BY <3>1, <3>3, <3>4
  <2>4. QED
    BY <2>2, <2>3
<1>11. NobodyForgotten'
  <2>1. SUFFICES ASSUME NEW e \in Requests, NEW h \in Requests, Waits(e, h), ea[h] # Unhandled
                 PROVE  Called(e)' \/ Unwritable(e)'
    BY <1>1, <1>2 DEF NobodyForgotten, eaVars
  <2>2. Called(e) \/ Unwritable(e)
    BY <2>1 DEF IInv, NobodyForgotten
  <2>3. Unwritable(e) => Unwritable(e)'
    BY <1>1, <1>3, <1>l DEF Unwritable, eaVars
  <2>4. Called(e) => Called(e)'
    BY <1>1 DEF Called
  <2>5. QED
    BY <2>2, <2>3, <2>4
<1>12. NotFreedInUse'
  <2>1. SUFFICES ASSUME NEW e \in Requests, life'[e] = "freed", InUse(e)' PROVE FALSE
    BY DEF NotFreedInUse
  <2>2. /\ bin[e] \in 0..GoneTime /\ bin'[e] \in 0..GoneTime /\ bin'[e] >= bin[e] /\ GoneTime \in Nat
    BY Ticked, Limits
  <2>3. Queued(e)' => Queued(e) /\ MayStart(bin'[e])
    <3>1. MayStart(bin'[e]) => MayStart(bin[e])
      <4>1. ClientTimeout \in Nat
        BY TimesAssumption
      <4>2. QED
        BY <2>2, <4>1 DEF MayStart
    <3>2. Queued(e)' => e \in Range(queue) /\ MayStart(bin'[e])
      BY <1>1 DEF Queued, rdrVars, MayStart
    <3>3. QED
      BY <3>1, <3>2 DEF Queued
  <2>4. Expecting(e)' => \E h \in Requests : ea[h] = Unhandled /\ ~TooLate(h)' /\ ~TooLate(h) /\ Waits(e, h)
    BY <1>1, <1>2, <1>3 DEF Expecting, eaVars
  <2>5. Listed(e)' => Listed(e) /\ ~TooLate(e)'
    BY <1>1, <1>3 DEF Listed, rdrVars
  <2>6. ~Called(e)'
    BY <1>1 DEF Called
  <2>7. InUse(e)
    BY <2>1, <2>3, <2>4, <2>5, <2>6, Uses DEF Expecting
  <2>8. life[e] = "garbage" /\ bin'[e] = GoneTime /\ bin'[e] = bin[e] + 1
    <3>1. life[e] # "freed"
      BY <2>7 DEF IInv, NotFreedInUse
    <3>2. QED
      BY <2>1, <2>7, <3>1, Ticked
  <2>9. \A h \in Requests : (h = e \/ Waits(e, h)) => TooLate(h)'
    <3>1. SUFFICES ASSUME NEW h \in Requests, h = e \/ Waits(e, h) PROVE TooLate(h)'
      OBVIOUS
    <3>2. life[h] # "new" /\ (age[h] >= bin[e] \/ age[h] = OldAge)
      BY <2>8, <3>1 DEF IInv, Waiting, Bins
    <3>3. /\ age'[h] = OldAge \/ age'[h] = age[h] + 1
          /\ age'[h] >= age[h] /\ age[h] \in 0..OldAge /\ age'[h] \in 0..OldAge
      BY <3>2, Ticked
    <3>4. /\ Timeout \in Nat /\ OldAge = Timeout + 4 /\ GoneTime \in Nat /\ GoneTime > Timeout + 1
      BY Limits
    <3>5. age'[h] > Timeout + 1
      BY <2>2, <2>8, <3>2, <3>3, <3>4
    <3>6. QED
      BY <3>5 DEF TooLate, Timeout
  <2>10. ~MayStart(bin'[e])
    BY <2>8, Limits
  <2>11. ~Queued(e)' /\ ~Expecting(e)' /\ ~Listed(e)'
    BY <2>3, <2>4, <2>5, <2>9, <2>10
  <2>12. QED
    BY <2>1, <2>6, <2>11, Uses
<1>13. QED
  BY <1>4, <1>5, <1>6, <1>7, <1>8, <1>9, <1>10, <1>11, <1>12 DEF IInv

\* The remaining steps of the worker and of the clients on the queue and the table.
LEMMA StepQueue ==
    ASSUME IInv, TypeOK', NEW e \in Requests,
           AskReader(e) \/ DropJob(e) \/ JobTooLate(e) \/ TableFull(e) \/ SendCloses(e) \/ SendEcm(e)
    PROVE  IInv'
<1>t. rows \in [1..MaxPending -> Row] /\ DOMAIN rows = 1..MaxPending /\ Tabled /\ queue \in Seq(Requests)
  BY DEF IInv, TypeOK
<1>1. UNCHANGED <<ecm, cacheVars, clocks, ea, isPending, pending, joining, host, todo>>
  BY DEF AskReader, DropJob, JobTooLate, TableFull, SendCloses, SendEcm, eaVars
<1>2. Range(queue') \subseteq Range(queue) \cup {e} /\ (e \in Range(queue') => e \in Range(queue) \/ life[e] = "cached")
  <2>1. CASE AskReader(e)
    BY <1>t, <2>1, PutLast DEF AskReader
  <2>2. CASE ~AskReader(e)
    BY <2>2, Started DEF DropJob, JobTooLate, TableFull, SendCloses, SendEcm, StartJob
  <2>3. QED
    BY <2>1, <2>2
<1>d. /\ DropTimeouts(rows) \in [1..MaxPending -> Row]
      /\ \A n \in 1..MaxPending :
            /\ DropTimeouts(rows)[n].busy => rows[n].busy /\ DropTimeouts(rows)[n].er = rows[n].er
            /\ DropTimeouts(rows)[n].open => rows[n].open /\ DropTimeouts(rows)[n].er = rows[n].er
  BY <1>t, Dropped
<1>3. /\ DOMAIN rows' = 1..MaxPending
      /\ \A n \in 1..MaxPending :
            \/ rows'[n].er = e /\ life[e] = "cached"
            \/ /\ rows'[n].busy => rows[n].busy /\ rows'[n].er = rows[n].er
               /\ rows'[n].open => rows[n].open /\ rows'[n].er = rows[n].er
  <2>1. CASE AskReader(e) \/ DropJob(e) \/ JobTooLate(e)
    BY <1>t, <2>1 DEF AskReader, DropJob, JobTooLate, eaVars
  <2>2. CASE TableFull(e)
    BY <1>t, <1>d, <2>2 DEF TableFull
  <2>3. CASE SendCloses(e)
    BY <1>t, <2>3 DEF SendCloses, Emptied, NoRow
  <2>4. CASE SendEcm(e)
    <3> DEFINE row == [er |-> e, busy |-> TRUE, open |-> ~Underway(DropTimeouts(rows), e)]
    <3>1. row \in Row /\ row.er = e /\ Enter(DropTimeouts(rows), row) /\ life[e] = "cached"
      BY <2>4 DEF Row, Underway, SendEcm, StartJob
    <3> HIDE DEF row
    <3>2. rows' \in [1..MaxPending -> Row] /\ \A n \in 1..MaxPending : rows'[n] = row \/ rows'[n] = DropTimeouts(rows)[n]
      BY <1>d, <3>1, Entered
    <3>3. QED
      BY <1>d, <3>1, <3>2
  <2>5. QED
    BY <2>1, <2>2, <2>3, <2>4
<1>4. Tabled'
  BY <1>t, <1>3 DEF Tabled
<1>5. Joining' /\ Cutting'
  BY <1>1 DEF IInv, Joining, Cutting, cacheVars, clocks, Waits, CutAge, Timeout
<1>6. \A f \in Requests : life[f] = "freed" => (Queued(f)' => Queued(f)) /\ (Listed(f)' => Listed(f))
  <2>1. SUFFICES ASSUME NEW f \in Requests, life[f] = "freed"
                 PROVE  (Queued(f)' => Queued(f)) /\ (Listed(f)' => Listed(f))
    OBVIOUS
  <2>2. Queued(f)' => Queued(f)
    BY <1>1, <1>2, <2>1 DEF Queued, clocks, MayStart
  <2>3. Listed(f)' => Listed(f)
    <3>1. TooLate(f)' <=> TooLate(f)
      BY <1>1 DEF TooLate, Timeout, clocks
    <3>2. QED
      BY <1>t, <1>3, <2>1, <3>1 DEF Listed
  <2>4. QED
    BY <2>2, <2>3
<1>7. QED
  BY <1>1, <1>4, <1>5, <1>6, NoAnswer DEF cacheVars

\* The steps in which somebody calls write_ecm_answer.
LEMMA StepWrite ==
    ASSUME IInv, TypeOK',
           \/ \E e \in Requests : TimeoutJob(e) \/ AskLimited(e) \/ SendFails(e)
           \/ JoinAnswered
           \/ \E t \in Threads : NextCall(t)
    PROVE  IInv'
<1>t. rows \in [1..MaxPending -> Row] /\ DOMAIN rows = 1..MaxPending /\ Tabled
  BY DEF IInv, TypeOK
<1>0. <<>> \in Seq(Call) /\ Range(<<>>) = {}
  BY EmptySeq DEF Range
<1>n. TimedOut.rc # "FOUND" /\ Limited.rc # "FOUND" /\ NotFound.rc # "FOUND"
  BY DEF TimedOut, Limited, NotFound
<1>s. ASSUME UNCHANGED <<age, bin, rows>>, Range(queue') \subseteq Range(queue)
      PROVE  /\ \A f \in Requests : (Queued(f)' => Queued(f)) /\ (Listed(f)' => Listed(f))
             /\ Tabled'
  <2>1. \A f \in Requests : Queued(f)' => Queued(f)
    BY <1>s DEF Queued, MayStart
  <2>2. \A f \in Requests : Listed(f)' => Listed(f)
    BY <1>s DEF Listed, TooLate, Timeout
  <2>3. Tabled'
    BY <1>s, <1>t DEF Tabled
  <2>4. QED
    BY <2>1, <2>2, <2>3
<1>1. ASSUME NEW e \in Requests, TimeoutJob(e) PROVE IInv'
  <2>1. /\ WriteAnswer(e, e, TimedOut, <<>>) /\ todo[e] = <<>> /\ e \in Threads /\ e # Reader
        /\ UNCHANGED <<ecm, cacheVars, clocks, sent, isPending, pending, rdrVars>>
    BY <1>1, Threading DEF TimeoutJob
  <2>2. todo'[Reader] = todo[Reader]
    <3>1. TypeOK
      BY DEF IInv
    <3>2. QED
      BY <1>0, <2>1, <3>1, Written, PassedOn, Threading, ZenonT(60)
  <2>3. Joining'
    BY <2>1, <2>2 DEF IInv, Joining, cacheVars, clocks, rdrVars, Waits
  <2>4. Tabled' /\ \A f \in Requests : (Queued(f)' => Queued(f)) /\ (Listed(f)' => Listed(f))
    BY <1>s, <2>1 DEF clocks, rdrVars
  <2>5. QED
    BY <1>0, <1>n, <2>1, <2>3, <2>4, AnswerWritten, PassedOn DEF cacheVars
<1>2. ASSUME NEW e \in Requests, AskLimited(e) PROVE IInv'
  <2>1. /\ WriteAnswer(Reader, e, Limited, <<>>) /\ todo[Reader] = <<>> /\ joining = None
        /\ UNCHANGED <<ecm, cacheVars, clocks, sent, isPending, pending, rows, joining, host>>
        /\ Range(queue') \subseteq Range(queue)
    BY <1>2, Started DEF AskLimited
  <2>2. Joining'
    BY <2>1 DEF Joining
  <2>3. Tabled' /\ \A f \in Requests : (Queued(f)' => Queued(f)) /\ (Listed(f)' => Listed(f))
    BY <1>s, <2>1 DEF clocks
  <2>4. QED
    BY <1>0, <1>n, <2>1, <2>2, <2>3, AnswerWritten, PassedOn, Threading DEF cacheVars
<1>3. ASSUME NEW e \in Requests, SendFails(e) PROVE IInv'
  <2>1. /\ WriteAnswer(Reader, e, NotFound, <<>>) /\ todo[Reader] = <<>> /\ joining = None
        /\ UNCHANGED <<ecm, cacheVars, clocks, sent, isPending, pending, joining, host>>
        /\ Range(queue') \subseteq Range(queue) /\ Enter(DropTimeouts(rows), NoRow)
    BY <1>3, Started DEF SendFails
  <2>2. Joining'
    BY <2>1 DEF Joining
  <2>3. /\ DropTimeouts(rows) \in [1..MaxPending -> Row] /\ NoRow \in Row
        /\ \A n \in 1..MaxPending :
              /\ DropTimeouts(rows)[n].busy => rows[n].busy /\ DropTimeouts(rows)[n].er = rows[n].er
              /\ DropTimeouts(rows)[n].open => rows[n].open /\ DropTimeouts(rows)[n].er = rows[n].er
    BY <1>t, Dropped DEF NoRow, Row
  <2>4. /\ DOMAIN rows' = 1..MaxPending
        /\ \A n \in 1..MaxPending : rows'[n] = NoRow \/ rows'[n] = DropTimeouts(rows)[n]
    BY <2>1, <2>3, Entered
  <2>5. \A n \in 1..MaxPending : /\ rows'[n].busy => rows[n].busy /\ rows'[n].er = rows[n].er
                                 /\ rows'[n].open => rows[n].open /\ rows'[n].er = rows[n].er
    BY <2>3, <2>4 DEF NoRow
  <2>6. Tabled'
    BY <1>t, <2>4, <2>5 DEF Tabled
  <2>7. \A f \in Requests : Queued(f)' => Queued(f)
    BY <2>1 DEF Queued, clocks, MayStart
  <2>8. \A f \in Requests : Listed(f)' => Listed(f)
    BY <1>t, <2>1, <2>4, <2>5 DEF Listed, TooLate, Timeout, clocks
  <2>9. QED
    BY <1>0, <1>n, <2>1, <2>2, <2>6, <2>7, <2>8, AnswerWritten, PassedOn, Threading DEF cacheVars
<1>4. CASE JoinAnswered
  <2>1. /\ WriteAnswer(Reader, joining, Passed(ea[host]), <<>>) /\ joining' = None
        /\ UNCHANGED <<ecm, cacheVars, clocks, sent, isPending, pending, queue, rows>>
    BY <1>4 DEF JoinAnswered
  <2>2. Joining'
    BY <2>1 DEF Joining
  <2>3. Tabled' /\ \A f \in Requests : (Queued(f)' => Queued(f)) /\ (Listed(f)' => Listed(f))
    BY <1>s, <2>1 DEF clocks
  <2>4. /\ joining \in Requests /\ Passed(ea[host]) \in Answer
        /\ Passed(ea[host]).rc = "FOUND" => Passed(ea[host]).cw = ecm[joining]
        /\ todo[Reader] = <<>>
    BY <1>4, HostAnswer
  <2>5. QED
    BY <1>0, <2>1, <2>2, <2>3, <2>4, AnswerWritten, Threading DEF cacheVars
<1>5. ASSUME NEW t \in Threads, NextCall(t) PROVE IInv'
  <2> DEFINE c == Head(todo[t])
             rest == Tail(todo[t])
  <2>1. /\ WriteAnswer(t, c.er, c.ans, rest) /\ todo[t] # <<>>
        /\ UNCHANGED <<ecm, cacheVars, clocks, sent, isPending, pending, rdrVars>>
    BY <1>5 DEF NextCall
  <2>2. /\ c.er \in Requests /\ c.ans \in Answer /\ rest \in Seq(Call)
        /\ Range(todo[t]) = {c} \cup Range(rest)
        /\ c.ans.rc = "FOUND" => c.ans.cw = ecm[c.er]
    BY <1>5, NextOne
  <2>3. joining # None => t # Reader /\ todo[Reader] = <<>>
    BY <2>1 DEF IInv, Joining
  <2> HIDE DEF c, rest
  <2>4. t # Reader => todo'[Reader] = todo[Reader]
    <3>1. TypeOK
      BY DEF IInv
    <3>2. QED
      BY <2>1, <2>2, <3>1, Written, Threading
  <2>5. Joining'
    BY <2>1, <2>3, <2>4 DEF IInv, Joining, cacheVars, clocks, rdrVars, Waits
  <2>6. Tabled' /\ \A f \in Requests : (Queued(f)' => Queued(f)) /\ (Listed(f)' => Listed(f))
    BY <1>s, <2>1 DEF clocks, rdrVars
  <2>7. QED
    BY <2>1, <2>2, <2>5, <2>6, AnswerWritten DEF cacheVars
<1>6. QED
  BY <1>1, <1>2, <1>3, <1>4, <1>5

LEMMA StepIInv == IInv /\ [Next]_vars => IInv'
<1> SUFFICES ASSUME IInv, [Next]_vars PROVE IInv'
  OBVIOUS
<1>t. TypeOK'
  BY StepTypeOK
<1>1. ASSUME NEW e \in Requests, ClientStep(e) PROVE IInv'
  <2>1. CASE Insert(e)
    BY <1>t, <2>1, StepInsert
  <2>2. CASE AskReader(e)
    BY <1>t, <2>2, StepQueue
  <2>3. CASE TimeoutJob(e)
    BY <1>t, <2>3, StepWrite
  <2>4. QED
    BY <1>1, <2>1, <2>2, <2>3 DEF ClientStep
<1>2. ASSUME NEW e \in Requests, JobStep(e) PROVE IInv'
  <2>1. CASE Join(e)
    BY <1>t, <2>1, StepJoin
  <2>2. CASE AskLimited(e) \/ SendFails(e)
    BY <1>t, <2>2, StepWrite
  <2>3. CASE DropJob(e) \/ JobTooLate(e) \/ TableFull(e) \/ SendEcm(e) \/ SendCloses(e)
    BY <1>t, <2>3, StepQueue
  <2>4. QED
    BY <1>2, <2>1, <2>2, <2>3 DEF JobStep
<1>3. ASSUME NEW n \in 1..MaxPending, ReplyStep(n) PROVE IInv'
  BY <1>t, <1>3, StepReply
<1>4. CASE JoinAnswered
  BY <1>t, <1>4, StepWrite
<1>5. CASE JoinWaits
  BY <1>t, <1>5, StepJoinWaits
<1>6. CASE Disconnect
  <2>1. UNCHANGED <<ecm, cacheVars, clocks, eaVars, queue, joining, host, todo>> /\ rows' = Emptied
    BY <1>6 DEF Disconnect
  <2>2. Joining' /\ Cutting'
    BY <2>1 DEF IInv, Joining, Cutting, cacheVars, clocks, eaVars, Waits, CutAge, Timeout
  <2>3. Tabled' /\ \A e \in Requests : ~Listed(e)'
    BY <2>1 DEF Tabled, Listed, Emptied, NoRow
  <2>4. \A e \in Requests : Queued(e)' => Queued(e)
    BY <2>1 DEF Queued, clocks, MayStart
  <2>5. QED
    BY <1>t, <2>1, <2>2, <2>3, <2>4, NoAnswer DEF cacheVars, eaVars
<1>7. ASSUME NEW t \in Threads, NextCall(t) PROVE IInv'
  BY <1>t, <1>7, StepWrite
<1>8. CASE CutScan
  BY <1>t, <1>8, StepCutScan
<1>9. CASE CutTail
  BY <1>t, <1>9, StepCutTail
<1>10. CASE Tick
  BY <1>t, <1>10, StepTick
<1>11. CASE UNCHANGED vars
  <2>1. UNCHANGED <<ecm, cacheVars, clocks, eaVars, rdrVars, todo>>
    BY <1>11 DEF vars
  <2>2. Joining' /\ Cutting' /\ Tabled'
    BY <2>1 DEF IInv, Joining, Cutting, Tabled, cacheVars, clocks, eaVars, rdrVars, Waits, CutAge, Timeout
  <2>3. \A e \in Requests : (Queued(e)' => Queued(e)) /\ (Listed(e)' => Listed(e))
    BY <2>1 DEF Queued, Listed, TooLate, Timeout, clocks, rdrVars, MayStart
  <2>4. QED
    BY <1>t, <2>1, <2>2, <2>3, NoAnswer DEF cacheVars, eaVars
<1>12. QED
  BY <1>1, <1>2, <1>3, <1>4, <1>5, <1>6, <1>7, <1>8, <1>9, <1>10, <1>11 DEF Next

\* IInv is an inductive invariant.
LEMMA Invariant == Spec => []IInv
BY InitIInv, StepIInv, PTL DEF Spec

(***************************************************************************)
(* The theorems.                                                            *)
(***************************************************************************)

\* Every state has the types declared: no clock runs over, no pending list, table or
\* call names a request that does not exist.
THEOREM TypeCorrect == Spec => []TypeOK
<1>1. IInv => TypeOK
  BY DEF IInv
<1>2. QED
  BY <1>1, Invariant, PTL

\* What a job, a pending list, the reader's table or a call of write_ecm_answer may
\* still lead to is not freed yet: the collector waits longer than any of them lives.
THEOREM NeverFreedInUse == Spec => []NotFreedInUse
<1>1. IInv => NotFreedInUse
  BY DEF IInv
<1>2. QED
  BY <1>1, Invariant, PTL

\* Who waits for another request's answer is told when it comes, although
\* reader_get_ecm finds the other request under one lock and joins it under another.
THEOREM EverybodyTold == Spec => []NobodyForgotten
<1>1. IInv => NobodyForgotten
  BY DEF IInv
<1>2. QED
  BY <1>1, Invariant, PTL

\* Requests never wait for each other in a circle: is_pending is set before the lock is
\* released, and nobody joins a request that is pending.
THEOREM NoCircles == Spec => []NoWaitingInCircles
<1>1. IInv => NoWaitingInCircles
  BY DEF IInv
<1>2. QED
  BY <1>1, Invariant, PTL

\* The control word a request gets is that of its own ECM, whoever was sent for it.
THEOREM OwnWord == Spec => []WordOfOwnEcm
<1>1. IInv => WordOfOwnEcm
  BY DEF IInv
<1>2. QED
  BY <1>1, Invariant, PTL

\* "ecm stays in cache at least ctimeout+2seconds!": what the clean-up of cw_process
\* cuts off behind a request that was old enough is nearly as old, provided that the
\* request was not the first of the list.
THEOREM OldWhenCut == Spec => StaysInCache
<1> DEFINE Stays == \A n \in DOMAIN cache :
                       (cut.prv # None /\ ~\E m \in DOMAIN cache' : cache'[m] = cache[n])
                           => age[cache[n]] >= Timeout + 2
<1>1. ASSUME IInv, [Next]_vars PROVE [Stays]_vars
  <2>1. SUFFICES ASSUME Next, NEW n \in DOMAIN cache, cut.prv # None,
                        ~\E m \in DOMAIN cache' : cache'[m] = cache[n]
                 PROVE  age[cache[n]] >= Timeout + 2
    BY <1>1
  <2>c. cache \in Seq(Requests) /\ DOMAIN cache = 1..Len(cache) /\ Len(cache) \in Nat
        /\ \A m \in DOMAIN cache : cache[m] \in Requests
    BY <1>1, InRange DEF IInv, TypeOK, Range
  <2>2. cache' # cache
    BY <2>1
  <2>3. ASSUME NEW e \in Requests, Insert(e) PROVE FALSE
    <3>1. cache' = <<e>> \o cache /\ cache' \in Seq(Requests)
      BY <2>3, <2>c, PutFirst DEF Insert
    <3>2. /\ Len(cache') = Len(cache) + 1 /\ DOMAIN cache' = 1..Len(cache')
          /\ \A m \in 2..(Len(cache) + 1) : cache'[m] = cache[m - 1]
      BY <2>c, <3>1, PutFirst, InRange
    <3>3. n + 1 \in DOMAIN cache' /\ n + 1 \in 2..(Len(cache) + 1) /\ (n + 1) - 1 = n
      BY <2>c, <3>2
    <3>4. QED
      BY <2>1, <3>2, <3>3
  <2>4. CutTail
    BY <2>1, <2>2, <2>3, ZenonT(60)
       DEF Next, ClientStep, AskReader, TimeoutJob, JobStep, DropJob, JobTooLate, Join, AskLimited, TableFull,
           SendEcm, SendFails, SendCloses, ReplyStep, Reply, JoinAnswered, JoinWaits, Disconnect, NextCall,
           CutScan, Tick, cacheVars
  <2>5. cut.er # None /\ cache' = SubSeq(cache, 1, Index(cut.prv))
    BY <2>1, <2>4 DEF CutTail
  <2>6. PICK k \in DOMAIN cache : /\ cache[k] = cut.er /\ age[cut.er] > CutAge
                                  /\ Index(cut.prv) = k - 1 /\ k - 1 \in DOMAIN cache
    BY <1>1, <2>1, <2>5, CutPlace
  <2>7. n >= k
    <3>1. SUFFICES ASSUME n < k PROVE FALSE
      BY <2>c
    <3>2. k - 1 \in 0..Len(cache) /\ n \in 1..(k - 1)
      BY <2>c, <2>6, <3>1
    <3>3. cache' \in Seq(Requests) /\ Len(cache') = k - 1 /\ cache'[n] = cache[n]
      BY <2>c, <2>5, <2>6, <3>2, Beginning
    <3>4. n \in DOMAIN cache'
      BY <3>2, <3>3, InRange
    <3>5. QED
      BY <2>1, <3>3, <3>4
  <2>8. age[cache[k]] <= age[cache[n]] + 1
    <3>1. /\ age[cache[k]] \in Nat /\ age[cache[n]] \in Nat /\ Lag \in 0..1
      BY <1>1, <2>c, Limits DEF IInv, TypeOK
    <3>2. CASE k = n
      BY <3>1, <3>2
    <3>3. CASE k # n
      <4>1. k < n
        BY <2>c, <2>7, <3>3
      <4>2. age[cache[k]] <= age[cache[n]] + Lag
        BY <1>1, <4>1 DEF IInv, AgesInOrder
      <4>3. QED
        BY <3>1, <4>2
    <3>4. QED
      BY <3>2, <3>3
  <2>9. age[cache[n]] \in Nat /\ age[cache[k]] \in Nat /\ CutAge = Timeout + 3 /\ Timeout \in Nat
    BY <1>1, <2>c, Limits DEF IInv, TypeOK
  <2>10. QED
    BY <2>6, <2>8, <2>9
<1>2. QED
  BY <1>1, Invariant, PTL DEF Spec, StaysInCache
=============================================================================
