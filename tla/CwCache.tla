------------------------------ MODULE CwCache ------------------------------
(***************************************************************************)
(* The cache of control words, src/trunk/oscam-cache.c: for each hash of an *)
(* ECM the words that readers answered, each with the number of times, the  *)
(* list kept in that order by the sort of tommyDS_hashlin.  add_cache and   *)
(* cleanup_cache run under cache_lock and are one step each; check_cache    *)
(* reads, and is the operator FirstCw.                                      *)
(*                                                                          *)
(* The default build: the counter cannot be marked as locally generated.    *)
(* The hash leaves out the first byte of the ECM, so that words of both     *)
(* parities may be under one hash.  Left out: the groups and flags that     *)
(* check_cache also asks for, free_cache at the end of the program.         *)
(***************************************************************************)
EXTENDS Naturals, Sequences, FiniteSets
Sets == INSTANCE FiniteSetsExt

CONSTANTS
    Hashes, Words,
    NoWord,         \* get_first_cw finds nothing
    MaxWords,       \* different words stored for a hash; 10 in the code
    MaxCacheTime,   \* cfg.max_cache_time
    MaxTotal        \* bound: words counted in the cache at a time

ASSUME MaxWordsAssumption == MaxWords \in 1..16
ASSUME CacheTimesAssumption == MaxCacheTime \in Nat /\ MaxTotal \in Nat
ASSUME NoWordAssumption == NoWord \notin [cw : Words, odd : BOOLEAN, count : Nat]

VARIABLES
    llCache,    \* ll_cache: the hashes, with the time since first_recv_time and upd_time
    signed      \* the build: a result of -1 reaches the sort as such, and not as 255

cwCacheVars == <<llCache, signed>>

CwEntry == [cw : Words, odd : BOOLEAN, count : Nat]
Ages == 0..(MaxCacheTime + 1)
EcmHash == [hash : Hashes, first : Ages, upd : Ages, cws : Seq(CwEntry)]

CacheInit == llCache = <<>> /\ signed \in BOOLEAN

-----------------------------------------------------------------------------
(* The sort.                                                                *)

\* count_sort(a, b) > 0, which 255 is too, and < 0.  It returns uint8_t and is called
\* as a function that returns int.
Above(a, b) == a.count # b.count /\ (a.count < b.count \/ ~signed)
Below(a, b) == a.count > b.count /\ signed

\* tommy_chain_merge
Merge[c \in Seq(CwEntry) \X Seq(CwEntry)] ==
    LET s == c[1]
        t == c[2]
    IN  IF s = <<>> \/ t = <<>> THEN s \o t
        ELSE IF Above(Head(s), Head(t)) THEN <<Head(t)>> \o Merge[<<s, Tail(t)>>]
        ELSE <<Head(s)>> \o Merge[<<Tail(s), t>>]

\* tommy_chain_merge_degenerated
MergeChains(s, t) ==
    IF ~Above(s[Len(s)], t[1]) THEN s \o t
    ELSE IF Below(t[Len(t)], s[1]) THEN t \o s
    ELSE Merge[<<s, t>>]

\* The buckets hold powers of two, the largest the front of the list; of at most 16 words
\* this is at most 8.
LargestBucket(n) == CHOOSE p \in {1, 2, 4, 8} : p < n /\ (n <= 2 * p \/ p = 8)

\* sort_list, of at most ten words
SortList[s \in Seq(CwEntry)] ==
    IF Len(s) <= 1 THEN s
    ELSE LET p == LargestBucket(Len(s))
         IN  MergeChains(SortList[SubSeq(s, 1, p)], SortList[SubSeq(s, p + 1, Len(s))])

-----------------------------------------------------------------------------
\* "add cw to this csp hash".  A word that is there keeps its parity.
\* Mutant: the list is sorted from the third time on.
CountedLate(cws, w, odd) ==
    IF \E k \in DOMAIN cws : cws[k].cw = w
    THEN LET k == CHOOSE k \in DOMAIN cws : cws[k].cw = w
             new == [cws EXCEPT ![k].count = @ + 1]
         IN  IF new[k].count > 2 THEN SortList[new] ELSE new
    ELSE IF Len(cws) >= MaxWords THEN cws
    ELSE Append(cws, [cw |-> w, odd |-> odd, count |-> 1])

Counted(cws, w, odd) ==
    IF \E k \in DOMAIN cws : cws[k].cw = w
    THEN LET k == CHOOSE k \in DOMAIN cws : cws[k].cw = w
         IN  SortList[[cws EXCEPT ![k].count = @ + 1]]
    ELSE IF Len(cws) >= MaxWords THEN cws
    ELSE Append(cws, [cw |-> w, odd |-> odd, count |-> 1])

\* Mutant: a hash that was used before is taken for a new one.
WithHashAnew(h) ==
    IF \E n \in DOMAIN llCache : llCache[n].hash = h /\ llCache[n].upd = 0 THEN llCache
    ELSE Append(llCache, [hash |-> h, first |-> 0, upd |-> 0, cws |-> <<>>])

\* The hash is known, or comes last.
WithHash(h) ==
    IF \E n \in DOMAIN llCache : llCache[n].hash = h THEN llCache
    ELSE Append(llCache, [hash |-> h, first |-> 0, upd |-> 0, cws |-> <<>>])

Total ==
    LET ofHash(n) == Sets!MapThenSumSet(LAMBDA k : llCache[n].cws[k].count, DOMAIN llCache[n].cws)
    IN  Sets!MapThenSumSet(ofHash, DOMAIN llCache)

AddCache(h, w, odd) ==
    /\ Total < MaxTotal
    /\ LET known == WithHash(h)
           n == CHOOSE n \in DOMAIN known : known[n].hash = h
       IN  llCache' = [known EXCEPT ![n].upd = 0, ![n].cws = Counted(@, w, odd)]
    /\ UNCHANGED signed

\* Mutant: the loop ends at an entry that was used lately.
ReachedByUse(n) == \A m \in 1..n : llCache[m].upd > MaxCacheTime

\* The loop of cleanup_cache ends at the first entry that came lately.
Reached(n) == \A m \in 1..n : llCache[m].first > MaxCacheTime

Expired(n) == Reached(n) /\ llCache[n].upd > MaxCacheTime

\* The numbers in S from the first to the last, as a sequence.
Ascending(S) == {f \in [1..Cardinality(S) -> S] : \A i, k \in DOMAIN f : i < k => f[i] < f[k]}

CleanupCache ==
    /\ \E kept \in Ascending({n \in DOMAIN llCache : ~Expired(n)}) :
          llCache' = [i \in DOMAIN kept |-> llCache[kept[i]]]
    /\ UNCHANGED signed

\* check_cache: get_first_cw
FirstCw(cws, odd) ==
    IF \E k \in DOMAIN cws : cws[k].odd = odd
    THEN cws[CHOOSE k \in DOMAIN cws : cws[k].odd = odd /\ \A j \in 1..(k - 1) : cws[j].odd # odd]
    ELSE NoWord

Older(a) == IF a > MaxCacheTime THEN a ELSE a + 1

CacheTick ==
    /\ llCache' = [n \in DOMAIN llCache |->
                      [llCache[n] EXCEPT !.first = Older(@), !.upd = Older(@)]]
    /\ UNCHANGED signed

CacheNext ==
    \/ \E h \in Hashes, w \in Words, odd \in BOOLEAN : AddCache(h, w, odd)
    \/ CleanupCache \/ CacheTick

CacheSpec == CacheInit /\ [][CacheNext]_cwCacheVars

-----------------------------------------------------------------------------
CacheTypeOK ==
    /\ llCache \in Seq(EcmHash) /\ signed \in BOOLEAN
    /\ \A n, m \in DOMAIN llCache : llCache[n].hash = llCache[m].hash => n = m

\* "This function returns cw (mostly received) in cache": of the words of a parity the
\* first in the list is one that no other was received more often than - in a build
\* that hands the -1 of count_sort on to the sort.
MostlyReceived ==
    signed => \A n \in DOMAIN llCache, odd \in BOOLEAN :
        LET cws == llCache[n].cws
        IN  \A k \in DOMAIN cws : cws[k].odd = odd => cws[k].count <= FirstCw(cws, odd).count

\* What a pass of the clean-up would remove is exactly what was not used for
\* max_cache_time, at any time: the loop ends at the first young hash, and hashes stay
\* where they were first added, but it leaves nothing behind that end.
SweepExact == \A n \in DOMAIN llCache : Expired(n) <=> llCache[n].upd > MaxCacheTime
=============================================================================
