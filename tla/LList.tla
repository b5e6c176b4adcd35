------------------------------- MODULE LList -------------------------------
(***************************************************************************)
(* The linked list of src/trunk/oscam-llist.c and its iterators, which any  *)
(* number of threads hold over a list that changes under them.  A function  *)
(* runs under the lock of the list and is an operator here, ll_iter_next    *)
(* two: the module that uses the list locks it and takes the steps.         *)
(*                                                                          *)
(* A node is freed long after it was removed (module Garbage), so that an   *)
(* iterator may still point to it and a node is never the one it was before.*)
(* Not here: lists that are destroyed, cleared, sorted, prepended to.       *)
(***************************************************************************)
EXTENDS Integers, FiniteSets

CONSTANTS Nodes, Null

ASSUME NullAssumption == Null \notin Nodes
ASSUME NodesAssumption == IsFiniteSet(Nodes)

Ref == Nodes \cup {Null}
List == [initial : Ref, last : Ref, nxt : [Nodes -> Ref], count : Int, version : Nat]
Iterator == [cur : Ref, prv : Ref, version : Nat]

EmptyList ==
    [initial |-> Null, last |-> Null, nxt |-> [n \in Nodes |-> Null], count |-> 0, version |-> 0]

\* The nodes that a walk along the pointers nx comes to, from r on.
WalkFrom(nx, r) ==
    {n \in Nodes : \A S \in SUBSET Nodes :
        (r \in S \cup {Null} /\ \A m \in S : nx[m] \in S \cup {Null}) => n \in S}

Linked(l) == WalkFrom(l.nxt, l.initial)

\* The node before n in the list, Null for the first one.
Before(l, n) ==
    IF \E m \in Linked(l) : l.nxt[m] = n THEN CHOOSE m \in Linked(l) : l.nxt[m] = n ELSE Null

\* ll_iter_create
NewIter(l) == [cur |-> Null, prv |-> Null, version |-> l.version]

\* ll_iter_next_nolock, list unchanged: one node on.
IterStep(l, it) ==
    CASE it.cur # Null -> [it EXCEPT !.prv = it.cur, !.cur = l.nxt[it.cur]]
      [] it.cur = Null /\ it.prv = Null -> [it EXCEPT !.cur = l.initial]
      [] OTHER -> it

\* ll_iter_next_nolock, "list changed, searching new position": before the iterator gets
\* the version of the list.
IterSearch(l, it) ==
    CASE it.cur = Null /\ it.prv = Null -> [it EXCEPT !.cur = l.initial]
      [] it.cur \in Linked(l) -> [it EXCEPT !.cur = l.nxt[it.cur], !.prv = it.cur]
      [] OTHER -> [it EXCEPT !.cur = l.initial, !.prv = Null]

\* ll_append_nolock; the version stays.
Appended(l, n) ==
    [l EXCEPT !.initial = IF l.last = Null THEN n ELSE @,
              !.nxt = IF l.last = Null THEN @ ELSE [@ EXCEPT ![l.last] = n],
              !.last = n, !.count = @ + 1]

\* ll_iter_insert
Inserted(l, it, n) ==
    IF it.cur = Null \/ (it.cur # Null /\ l.nxt[it.cur] = Null) THEN Appended(l, n)
    ELSE [l EXCEPT !.nxt = [@ EXCEPT ![n] = l.nxt[it.cur], ![it.cur] = n],
                   !.count = @ + 1, !.version = @ + 1]

\* ll_iter_remove_nolock, in two parts: which node comes before the one to remove, the
\* iterator's prv being right as long as the list has its version...
\* Mutant: it is always taken to be right.
PrvKept(l, it) == IF it.prv = Null THEN Before(l, it.cur) ELSE it.prv
Prv(l, it) == IF it.version # l.version \/ it.prv = Null THEN Before(l, it.cur) ELSE it.prv

\* The search for cur fails: another iterator has removed it.
Gone(l, it) == (it.version # l.version \/ it.prv = Null) /\ it.cur \notin Linked(l)

\* ... and that del is unlinked behind prv.
Unlinked(l, del, prv) ==
    LET first == IF prv = Null THEN l.nxt[del] ELSE l.initial
    IN  [initial |-> first,
         nxt |-> IF prv = Null THEN l.nxt ELSE [l.nxt EXCEPT ![prv] = l.nxt[del]],
         last |-> CASE first = Null -> Null
                    [] first # Null /\ del = l.last -> prv
                    [] OTHER -> l.last,
         count |-> l.count - 1,
         version |-> l.version + 1]

\* Mutant: the iterator goes on to the next node, as its owner will do once more.
IterBackNot(l, del, prv) == [cur |-> l.nxt[del], prv |-> prv, version |-> l.version]

\* The iterator afterwards, l being the new list: back on the node before.
IterBack(l, del, prv) ==
    [cur |-> IF prv \in Linked(l) THEN prv ELSE Null,
     prv |-> IF prv = Null THEN Null ELSE IF prv \in Linked(l) THEN Before(l, prv) ELSE l.last,
     version |-> l.version]
=============================================================================
