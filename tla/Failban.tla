------------------------------ MODULE Failban ------------------------------
(***************************************************************************)
(* Failed logins: cs_check_v of src/trunk/oscam-failban.c, called by the    *)
(* main thread for every connection (add = 0) and by any client's thread    *)
(* for a failed login (add = 1).  Each call walks over one list of          *)
(* addresses, of module LList, and removes what is out of time on its way.  *)
(*                                                                          *)
(* v_count is left out: it is logged and nothing else, so that an address   *)
(* is refused after one failed login whatever cfg.failbancount is.  Left    *)
(* out too: the penalties of acosc, and the info string.                    *)
(*                                                                          *)
(* A call takes one time stamp when it starts and another for a new entry,  *)
(* and time goes on meanwhile: what one call finds in time another removes, *)
(* and the entries need not be in the order of their times.                 *)
(*                                                                          *)
(* The list is locked for reading by every step of a walk and for writing   *)
(* by every change, with the lock of module CsLock.  That does not always   *)
(* exclude: among several readers, and after five seconds, it lets a writer *)
(* in beside others.  So the search for an iterator's place and the removal *)
(* of a node are two steps each, and mixed records that somebody had the    *)
(* list for writing beside others.                                          *)
(***************************************************************************)
EXTENDS LList

CONSTANTS
    Callers,    \* threads
    Addresses,  \* address and port
    BanTime,    \* cfg.failbantime
    MaxLag      \* bound: how much time passes during a call

ASSUME BanTimeAssumption == BanTime \in Nat \ {0} /\ MaxLag \in Nat
ASSUME AddressesAssumption == Null \notin Addresses

VARIABLES
    vList,      \* cfg.v_list
    mayRead, orderly, writelock, readlock, mode,    \* its lock
    entry,      \* of each node: v_ip (with v_port), and the time since v_time
    iter,       \* itr of each call
    call,       \* where each caller is, its parameters and its result, the time since
                \* its now, and the new entry, or the prv of ll_iter_remove_nolock
    known,      \* history: the nodes for its address that were in the list when the call began
    members,    \* history: the nodes that were added and not removed
    mixed       \* history: the lock has let somebody in beside a writer

Lock == INSTANCE CsLock WITH
    Threads <- Callers, ReaderSets <- {Callers}, Timings <- BOOLEAN

lockVars == <<mayRead, orderly, writelock, readlock, mode, mixed>>
callVars == <<vList, entry, iter, call, known, members>>
banVars == <<callVars, lockVars>>

Address == Addresses \cup {Null}
NoCall == [pc |-> "idle", ip |-> Null, add |-> FALSE, result |-> FALSE, lag |-> 0, node |-> Null]

Used == {n \in Nodes : entry[n].ip # Null}

\* In time for a call with the given lag; an entry may be younger than the call.
InTime(n, lag) == entry[n].age < BanTime + lag

BanInit ==
    /\ vList = EmptyList
    /\ entry = [n \in Nodes |-> [ip |-> Null, age |-> 0]]
    /\ iter = [t \in Callers |-> NewIter(EmptyList)]
    /\ call = [t \in Callers |-> NoCall]
    /\ known = [t \in Callers |-> {}]
    /\ members = {}
    /\ Lock!Init /\ mixed = FALSE

-----------------------------------------------------------------------------
(* The lock of the list.                                                    *)

\* What the history says of a step of the lock.
Watched == mixed' = (mixed \/ ~Lock!Exclusive')

\* ll_iter_next, ll_iter_remove and ll_iter_insert ask for it, and wait.
BanLock(t) ==
    /\ \/ call[t].pc = "walk" /\ Lock!LockRead(t)
       \/ call[t].pc \in {"remove", "link"} /\ Lock!LockWrite(t)
    /\ Watched /\ UNCHANGED callVars

\* The wait ends without a signal.
BanForced(t) ==
    /\ Lock!ForceRead(t) \/ Lock!ForceWrite(t) \/ Lock!Spurious(t)
    /\ Watched /\ UNCHANGED callVars

HasRead(t) == mode[t] = "holdR"
HasWritten(t) == mode[t] = "holdW" /\ Lock!UnlockWrite(t) /\ Watched

-----------------------------------------------------------------------------

BanCall(t, ip, add) ==
    /\ call[t].pc = "idle"
    /\ call' = [call EXCEPT ![t] = [NoCall EXCEPT !.pc = "walk", !.ip = ip, !.add = add]]
    /\ iter' = [iter EXCEPT ![t] = NewIter(vList)]
    /\ known' = [known EXCEPT ![t] = {n \in members : entry[n].ip = ip}]
    /\ UNCHANGED <<vList, entry, members, lockVars>>

\* ll_iter_next, and what the loop does with the entry.
AfterNext(c, n) ==
    CASE n = Null -> [c EXCEPT !.pc = IF c.add /\ ~c.result THEN "insert" ELSE "return"]
      [] n # Null /\ ~InTime(n, c.lag) -> [c EXCEPT !.pc = "remove"]
      [] OTHER -> [c EXCEPT !.result = @ \/ entry[n].ip = c.ip]

\* "list changed, searching new position"
BanSearch(t) ==
    /\ call[t].pc = "walk" /\ HasRead(t)
    /\ iter[t].version # vList.version
    /\ iter' = [iter EXCEPT ![t] = IterSearch(vList, @)]
    /\ call' = [call EXCEPT ![t].pc = "found"]
    /\ UNCHANGED <<vList, entry, known, members, lockVars>>

\* it->ll_version = it->l->version, or the iterator has that; the list is unlocked.
BanNext(t) ==
    /\ HasRead(t)
    /\ \/ call[t].pc = "walk" /\ iter[t].version = vList.version
       \/ call[t].pc = "found"
    /\ LET it == IF call[t].pc = "found" THEN [iter[t] EXCEPT !.version = vList.version]
                 ELSE IterStep(vList, iter[t])
       IN  /\ iter' = [iter EXCEPT ![t] = it]
           /\ call' = [call EXCEPT ![t] = AfterNext([@ EXCEPT !.pc = "walk"], it.cur)]
    /\ Lock!UnlockRead(t) /\ Watched
    /\ UNCHANGED <<vList, entry, known, members>>

\* ll_iter_remove_data, whatever has happened to the list since.
BanSeek(t) ==
    /\ call[t].pc = "remove" /\ mode[t] = "holdW"
    /\ ~Gone(vList, iter[t])
    /\ call' = [call EXCEPT ![t].pc = "unlink", ![t].node = Prv(vList, iter[t])]
    /\ UNCHANGED <<vList, entry, iter, known, members, lockVars>>

BanGone(t) ==
    /\ call[t].pc = "remove" /\ HasWritten(t)
    /\ Gone(vList, iter[t])
    /\ call' = [call EXCEPT ![t].pc = "walk"]
    /\ UNCHANGED <<vList, entry, iter, known, members>>

BanUnlink(t) ==
    /\ call[t].pc = "unlink" /\ HasWritten(t)
    /\ vList' = Unlinked(vList, iter[t].cur, call[t].node)
    /\ iter' = [iter EXCEPT ![t] = IterBack(vList', @.cur, call[t].node)]
    /\ call' = [call EXCEPT ![t].pc = "walk", ![t].node = Null]
    /\ members' = members \ {iter[t].cur}
    /\ UNCHANGED <<entry, known>>

BanNewEntry(t, n) ==
    /\ call[t].pc = "insert" /\ n \notin Used
    /\ entry' = [entry EXCEPT ![n] = [ip |-> call[t].ip, age |-> 0]]
    /\ call' = [call EXCEPT ![t].pc = "link", ![t].node = n]
    /\ UNCHANGED <<vList, iter, known, members, lockVars>>

Returned(t) ==
    /\ call' = [call EXCEPT ![t] = NoCall]
    /\ iter' = [iter EXCEPT ![t] = NewIter(EmptyList)]
    /\ known' = [known EXCEPT ![t] = {}]

\* ll_iter_insert, at an iterator that is past the end: it appends.
BanLink(t) ==
    /\ call[t].pc = "link" /\ HasWritten(t)
    /\ vList' = Inserted(vList, iter[t], call[t].node)
    /\ members' = members \cup {call[t].node}
    /\ Returned(t) /\ UNCHANGED entry

\* Nothing to insert, or cs_malloc fails.
BanReturn(t) ==
    /\ call[t].pc \in {"insert", "return"}
    /\ Returned(t) /\ UNCHANGED <<vList, entry, members, lockVars>>

BanTick ==
    /\ \A t \in Callers : call[t].pc # "idle" => call[t].lag < MaxLag
    /\ entry' = [n \in Nodes |-> IF n \in Used /\ InTime(n, MaxLag) THEN [entry[n] EXCEPT !.age = @ + 1]
                                 ELSE entry[n]]
    /\ call' = [t \in Callers |-> IF call[t].pc = "idle" THEN call[t] ELSE [call[t] EXCEPT !.lag = @ + 1]]
    /\ UNCHANGED <<vList, iter, known, members, lockVars>>

BanStep(t) ==
    \/ \E ip \in Addresses, add \in BOOLEAN : BanCall(t, ip, add)
    \/ BanLock(t) \/ BanForced(t)
    \/ BanSearch(t) \/ BanNext(t)
    \/ BanSeek(t) \/ BanGone(t) \/ BanUnlink(t)
    \/ BanReturn(t) \/ BanLink(t)
    \/ \E n \in Nodes : BanNewEntry(t, n)

BanNextState == (\E t \in Callers : BanStep(t)) \/ BanTick

BanSpec == BanInit /\ [][BanNextState]_banVars

-----------------------------------------------------------------------------
BanTypeOK ==
    /\ vList \in List
    /\ entry \in [Nodes -> [ip : Address, age : 0..(BanTime + MaxLag)]]
    /\ iter \in [Callers -> Iterator]
    /\ call \in [Callers -> [pc : {"idle", "walk", "found", "remove", "unlink", "insert", "link", "return"}, ip : Address,
                             add : BOOLEAN, result : BOOLEAN, lag : 0..MaxLag, node : Ref]]
    /\ known \in [Callers -> SUBSET Nodes]
    /\ members \subseteq Nodes
    /\ Lock!TypeOK /\ mixed \in BOOLEAN

\* As long as the lock has let nobody in beside a writer: the list is what was added to
\* it and not removed, its end and its count are right, whoever else held an iterator on
\* a node that was removed or on the one before it.
ListIntact ==
    ~mixed =>
        /\ Linked(vList) = members
        /\ vList.count = Cardinality(members)
        /\ (vList.last = Null) <=> (members = {})
        /\ members # {} => vList.last \in members /\ vList.nxt[vList.last] = Null

\* Until then, a call that ends its walk without a result has not passed an entry for its
\* address that was there when it began and still is in time, however the list changed
\* between the steps of the walk.
NoneOverlooked ==
    ~mixed => \A t \in Callers : call[t].pc \in {"insert", "link", "return"} /\ ~call[t].result =>
        \A n \in known[t] : ~InTime(n, 0)
=============================================================================
