---------------------------- MODULE FailbanProofs ----------------------------
(***************************************************************************)
(* Theorems about the list of failed logins (Failban) and the linked list   *)
(* it is (LList), for any number of threads, nodes and addresses and any    *)
(* times.                                                                   *)
(*                                                                          *)
(* First the walks along pointers, then what each function does to a list   *)
(* and to the iterators that point into it, at last the calls.  What holds  *)
(* it together is the version of the list: an iterator that has it stands   *)
(* on a node of the list, behind the one it came from, and one that has     *)
(* not looks where it stands before it relies on anything.  An iterator     *)
(* between the two, and a node that is about to be unlinked, need more:     *)
(* that the list stays as it is.  The lock sees to that while nothing is    *)
(* mixed, so that the invariant has a part that always holds (the types,    *)
(* Steady) and a part that holds until then (Kept).                         *)
(***************************************************************************)
EXTENDS Failban, FiniteSetTheorems, TLAPS

(***************************************************************************)
(* Walks along pointers.                                                    *)
(***************************************************************************)

Pointing == [Nodes -> Ref]

\* A walk stays in every set that it starts in and that the pointers do not leave.
LEMMA WalkWithin ==
    ASSUME NEW nx \in Pointing, NEW e \in Ref, NEW S \in SUBSET Nodes,
           e \in S \cup {Null}, \A m \in S : nx[m] \in S \cup {Null}
    PROVE  WalkFrom(nx, e) \subseteq S
BY DEF WalkFrom, Ref

\* From nowhere the walk comes to nothing.
LEMMA WalkFromNull ==
    ASSUME NEW nx \in Pointing
    PROVE  WalkFrom(nx, Null) = {}
<1>1. {} \in SUBSET Nodes /\ Null \in {} \cup {Null}
  OBVIOUS
<1>2. WalkFrom(nx, Null) \subseteq {}
  BY <1>1, WalkWithin, ZenonT(60) DEF Ref
<1>3. QED
  BY <1>2

\* A walk comes to where it starts, and goes on from every place it comes to.
LEMMA WalkGoesOn ==
    ASSUME NEW nx \in Pointing, NEW e \in Ref
    PROVE  /\ WalkFrom(nx, e) \subseteq Nodes
           /\ e # Null => e \in WalkFrom(nx, e)
           /\ \A m \in WalkFrom(nx, e) : nx[m] \in WalkFrom(nx, e) \cup {Null}
<1>1. WalkFrom(nx, e) \subseteq Nodes /\ (e # Null => e \in WalkFrom(nx, e))
  BY DEF WalkFrom, Ref
<1>2. ASSUME NEW m \in WalkFrom(nx, e), nx[m] # Null PROVE nx[m] \in WalkFrom(nx, e)
  <2>1. nx[m] \in Nodes /\ m \in Nodes
    BY <1>1, <1>2 DEF Pointing, Ref
  <2>2. ASSUME NEW S \in SUBSET Nodes,
               e \in S \cup {Null}, \A k \in S : nx[k] \in S \cup {Null}
        PROVE  nx[m] \in S
    <3>1. m \in S
      BY <2>2, <1>2 DEF WalkFrom, Ref
    <3>2. QED
      BY <2>2, <3>1, <1>2
  <2>3. QED
    BY <2>1, <2>2 DEF WalkFrom, Ref
<1>3. QED
  BY <1>1, <1>2

\* It comes to its start and to what the walk from the next place comes to.
LEMMA WalkUnfolds ==
    ASSUME NEW nx \in Pointing, NEW e \in Nodes
    PROVE  WalkFrom(nx, e) = {e} \cup WalkFrom(nx, nx[e])
<1> DEFINE C == WalkFrom(nx, e)
           D == WalkFrom(nx, nx[e])
<1>1. nx[e] \in Ref
  BY DEF Pointing, Ref
<1>2. /\ C \subseteq Nodes /\ e \in C /\ \A m \in C : nx[m] \in C \cup {Null}
      /\ D \subseteq Nodes /\ (nx[e] # Null => nx[e] \in D)
      /\ \A m \in D : nx[m] \in D \cup {Null}
  BY <1>1, WalkGoesOn, NullAssumption DEF Ref
<1> HIDE DEF C, D
<1>3. D \subseteq C
  <2>1. nx[e] \in C \cup {Null}
    BY <1>2
  <2>2. QED
    BY <1>1, <1>2, <2>1, WalkWithin DEF D
<1>4. C \subseteq {e} \cup D
  <2>1. {e} \cup D \in SUBSET Nodes /\ e \in ({e} \cup D) \cup {Null}
    BY <1>2
  <2>2. \A m \in {e} \cup D : nx[m] \in ({e} \cup D) \cup {Null}
    BY <1>1, <1>2
  <2>3. QED
    BY <2>1, <2>2, WalkWithin DEF C, Ref
<1>5. QED
  BY <1>2, <1>3, <1>4 DEF C, D

\* Every place but the start is come to from a place before it.
LEMMA WalkComesFrom ==
    ASSUME NEW nx \in Pointing, NEW e \in Ref, NEW y \in WalkFrom(nx, e), y # e
    PROVE  \E x \in WalkFrom(nx, e) : nx[x] = y
<1> DEFINE C == WalkFrom(nx, e)
<1>1. C \subseteq Nodes /\ (e # Null => e \in C) /\ \A m \in C : nx[m] \in C \cup {Null}
  BY WalkGoesOn
<1>2. SUFFICES ASSUME \A x \in C : nx[x] # y PROVE FALSE
  OBVIOUS
<1>3. C \ {y} \in SUBSET Nodes /\ e \in (C \ {y}) \cup {Null}
  BY <1>1
<1>4. \A m \in C \ {y} : nx[m] \in (C \ {y}) \cup {Null}
  BY <1>1, <1>2
<1>5. C \subseteq C \ {y}
  BY <1>3, <1>4, WalkWithin
<1>6. QED
  BY <1>5

(***************************************************************************)
(* Lists.                                                                   *)
(***************************************************************************)

\* The nodes are in a row, the list knows its last one and how many they are.
Whole(l) ==
    /\ \A x, y \in Linked(l) : l.nxt[x] = l.nxt[y] /\ l.nxt[x] # Null => x = y
    /\ \A x \in Linked(l) : l.nxt[x] # l.initial
    /\ l.last = Null <=> Linked(l) = {}
    /\ Linked(l) # {} => l.last \in Linked(l) /\ l.nxt[l.last] = Null
    /\ l.count = Cardinality(Linked(l))

\* prv is where del is to be taken out, Null for the first node.
Preceding(l, prv, del) ==
    \/ prv = Null /\ l.initial = del
    \/ prv \in Linked(l) /\ l.nxt[prv] = del

\* An iterator with the list's version.
Fit(l, it) ==
    it.version = l.version /\ it.cur # Null =>
        /\ it.cur \in Linked(l)
        /\ it.prv # Null => it.prv \in Linked(l) /\ l.nxt[it.prv] = it.cur

\* The nodes that an iterator will still come to if the list stays as it is.
Ahead(l, it) == IF it.cur \in Linked(l) THEN WalkFrom(l.nxt, l.nxt[it.cur]) ELSE Linked(l)

LEMMA ListParts ==
    ASSUME NEW l \in List
    PROVE  /\ l.initial \in Ref /\ l.last \in Ref /\ l.nxt \in Pointing /\ l.count \in Int /\ l.version \in Nat
           /\ Linked(l) \subseteq Nodes /\ Null \notin Linked(l)
           /\ \A m \in Nodes : l.nxt[m] \in Ref
           /\ l.initial # Null => l.initial \in Linked(l)
           /\ l.initial = Null => Linked(l) = {}
           /\ \A m \in Linked(l) : l.nxt[m] \in Linked(l) \cup {Null}
<1>1. l.initial \in Ref /\ l.last \in Ref /\ l.nxt \in Pointing /\ l.count \in Int /\ l.version \in Nat
  BY DEF List, Pointing
<1>2. /\ Linked(l) \subseteq Nodes /\ (l.initial # Null => l.initial \in Linked(l))
      /\ \A m \in Linked(l) : l.nxt[m] \in Linked(l) \cup {Null}
  BY <1>1, WalkGoesOn DEF Linked
<1>3. l.initial = Null => Linked(l) = {}
  BY <1>1, WalkFromNull DEF Linked
<1>4. \A m \in Nodes : l.nxt[m] \in Ref
  BY <1>1 DEF Pointing
<1>5. QED
  BY <1>1, <1>2, <1>3, <1>4, NullAssumption

LEMMA LinkedCount ==
    ASSUME NEW S \in SUBSET Nodes
    PROVE  /\ Cardinality(S) \in Nat
           /\ \A n \in S : Cardinality(S \ {n}) = Cardinality(S) - 1
           /\ \A n \in Nodes \ S : Cardinality(S \cup {n}) = Cardinality(S) + 1
<1>1. IsFiniteSet(S)
  BY NodesAssumption, FS_Subset
<1>2. Cardinality(S) \in Nat
  BY <1>1, FS_CardinalityType
<1>3. ASSUME NEW n \in S PROVE Cardinality(S \ {n}) = Cardinality(S) - 1
  BY <1>1, <1>3, FS_RemoveElement
<1>4. ASSUME NEW n \in Nodes \ S PROVE Cardinality(S \cup {n}) = Cardinality(S) + 1
  BY <1>1, <1>4, FS_AddElement
<1>5. QED
  BY <1>2, <1>3, <1>4

\* No node points to itself.
LEMMA NoLoop ==
    ASSUME NEW l \in List, Whole(l), NEW x \in Linked(l)
    PROVE  l.nxt[x] # x
<1>1. SUFFICES ASSUME l.nxt[x] = x PROVE FALSE
  OBVIOUS
<1>2. x # l.initial /\ x # Null /\ l.nxt \in Pointing /\ l.initial \in Ref
  BY <1>1, ListParts DEF Whole
<1>3. l.initial \in (Linked(l) \ {x}) \cup {Null}
  BY <1>2, ListParts
<1>4. ASSUME NEW m \in Linked(l) \ {x} PROVE l.nxt[m] \in (Linked(l) \ {x}) \cup {Null}
  <2>1. l.nxt[m] # x
    BY <1>1, <1>2 DEF Whole
  <2>2. QED
    BY <2>1, ListParts
<1>5. Linked(l) \ {x} \in SUBSET Nodes
  BY ListParts
<1>6. WalkFrom(l.nxt, l.initial) \subseteq Linked(l) \ {x}
  BY <1>2, <1>3, <1>4, <1>5, WalkWithin
<1>7. QED
  BY <1>6 DEF Linked

\* A node is appended: the list grows by it, and no walk loses a node.
LEMMA AppendedWhole ==
    ASSUME NEW l \in List, Whole(l), NEW n \in Nodes, n \notin Linked(l), l.nxt[n] = Null,
           NEW k, k = Appended(l, n)
    PROVE  /\ k \in List /\ Whole(k) /\ Linked(k) = Linked(l) \cup {n} /\ k.version = l.version
           /\ \A m \in Nodes : m # l.last => k.nxt[m] = l.nxt[m]
           /\ \A r \in Ref : WalkFrom(l.nxt, r) \subseteq WalkFrom(k.nxt, r)
<1> DEFINE C == Linked(l)
           initial == IF l.last = Null THEN n ELSE l.initial
           nxt == IF l.last = Null THEN l.nxt ELSE [l.nxt EXCEPT ![l.last] = n]
<1>1. k = [initial |-> initial, last |-> n, nxt |-> nxt, count |-> l.count + 1, version |-> l.version]
  BY DEF Appended, List
<1>2. /\ k.initial = initial /\ k.last = n /\ k.nxt = nxt /\ k.count = l.count + 1 /\ k.version = l.version
      /\ n \in Ref /\ n # Null
  BY <1>1, NullAssumption DEF Ref
<1>3. /\ C \subseteq Nodes /\ Null \notin C /\ l.nxt \in Pointing /\ l.count \in Int /\ l.version \in Nat
      /\ l.initial \in Ref /\ l.last \in Ref /\ \A m \in C : l.nxt[m] \in C \cup {Null}
      /\ \A m \in Nodes : l.nxt[m] \in Ref
  BY ListParts
<1>4. /\ l.last # Null => l.last \in C /\ l.last \in Nodes /\ l.nxt[l.last] = Null /\ l.initial # Null /\ l.initial \in C
      /\ l.last = Null <=> C = {}
      /\ \A x, y \in C : l.nxt[x] = l.nxt[y] /\ l.nxt[x] # Null => x = y
      /\ \A x \in C : l.nxt[x] # l.initial
      /\ l.count = Cardinality(C)
  BY ListParts DEF Whole
<1>5. n \notin C /\ initial \in Ref
  BY <1>2, <1>3
<1>6. nxt \in Pointing /\ \A m \in Nodes : nxt[m] = IF m = l.last THEN n ELSE l.nxt[m]
  BY <1>2, <1>3, <1>4, NullAssumption DEF Pointing
<1>7. ASSUME NEW r \in Ref PROVE WalkFrom(l.nxt, r) \subseteq WalkFrom(nxt, r)
  <2> DEFINE D == WalkFrom(nxt, r)
  <2>1. D \subseteq Nodes /\ r \in D \cup {Null} /\ \A m \in D : nxt[m] \in D \cup {Null}
    BY <1>6, WalkGoesOn
  <2>2. \A m \in D : l.nxt[m] \in D \cup {Null}
    BY <1>4, <1>6, <2>1
  <2>3. D \in SUBSET Nodes
    BY <2>1
  <2> HIDE DEF D, nxt
  <2>4. WalkFrom(l.nxt, r) \subseteq D
    BY <1>3, <2>1, <2>2, <2>3, WalkWithin
  <2>5. QED
    BY <2>4 DEF D
<1>8. WalkFrom(nxt, initial) = C \cup {n}
  <2>1. CASE l.last = Null
    <3>1. nxt = l.nxt /\ initial = n /\ C = {}
      BY <1>4, <2>1
    <3>2. WalkFrom(l.nxt, n) = {n} \cup WalkFrom(l.nxt, Null)
      BY <1>3, WalkUnfolds
    <3>3. QED
      BY <1>3, <3>1, <3>2, WalkFromNull
  <2>2. CASE l.last # Null
    <3>1. initial = l.initial /\ l.initial \in C
      BY <1>4, <2>2
    <3>2. C \cup {n} \in SUBSET Nodes /\ initial \in (C \cup {n}) \cup {Null}
      BY <1>3, <3>1
    <3>3. \A m \in C \cup {n} : nxt[m] \in (C \cup {n}) \cup {Null}
      BY <1>3, <1>5, <1>6
    <3> HIDE DEF nxt, initial
    <3>4. WalkFrom(nxt, initial) \subseteq C \cup {n}
      BY <1>5, <1>6, <3>2, <3>3, WalkWithin
    <3>5. C \subseteq WalkFrom(nxt, initial)
      BY <1>3, <1>7, <3>1 DEF Linked
    <3>6. l.last \in WalkFrom(nxt, initial) /\ nxt[l.last] = n
      BY <1>4, <1>6, <2>2, <3>5
    <3>7. n \in WalkFrom(nxt, initial)
      BY <1>2, <1>5, <1>6, <3>6, WalkGoesOn
    <3>8. QED
      BY <3>4, <3>5, <3>7
  <2>3. QED
    BY <2>1, <2>2
<1> HIDE DEF nxt, initial
<1>9. Linked(k) = C \cup {n}
  BY <1>2, <1>8 DEF Linked
<1>10. k \in List
  BY <1>1, <1>2, <1>3, <1>5, <1>6 DEF List, Pointing
<1> HIDE DEF C
<1>11. Whole(k)
  <2>1. \A x \in C \cup {n} : x \in Nodes /\ nxt[x] = IF x = l.last THEN n ELSE l.nxt[x]
    BY <1>3, <1>6
  <2>2. nxt[n] = Null
    BY <1>4, <1>5, <2>1
  <2>3. \A x \in C : nxt[x] = n <=> x = l.last
    BY <1>3, <1>5, <2>1, NullAssumption
  <2>4. \A x, y \in C \cup {n} : nxt[x] = nxt[y] /\ nxt[x] # Null => x = y
    BY <1>4, <2>1, <2>2, <2>3
  <2>5. \A x \in C \cup {n} : nxt[x] # initial
    <3>1. CASE l.last = Null
      BY <1>2, <1>4, <2>2, <3>1 DEF initial
    <3>2. CASE l.last # Null
      BY <1>2, <1>4, <1>5, <2>1, <2>2, <3>2 DEF initial
    <3>3. QED
      BY <3>1, <3>2
  <2>6. Cardinality(C \cup {n}) = l.count + 1
    BY <1>3, <1>4, <1>5, LinkedCount
  <2>7. QED
    BY <1>2, <1>9, <2>2, <2>4, <2>5, <2>6 DEF Whole
<1>12. QED
  BY <1>2, <1>6, <1>7, <1>9, <1>10, <1>11 DEF C

\* A node is taken out: the list loses it, and no walk loses another one.
LEMMA UnlinkedWhole ==
    ASSUME NEW l \in List, Whole(l), NEW del \in Linked(l), NEW prv, Preceding(l, prv, del),
           NEW k, k = Unlinked(l, del, prv)
    PROVE  /\ k \in List /\ Whole(k) /\ Linked(k) = Linked(l) \ {del}
           /\ k.version = l.version + 1 /\ (prv = Null => k.initial = l.nxt[del])
           /\ \A m \in Nodes : k.nxt[m] = IF m = prv THEN l.nxt[del] ELSE l.nxt[m]
           /\ \A r \in Ref : WalkFrom(l.nxt, r) \ {del} \subseteq WalkFrom(k.nxt, r)
<1> DEFINE C == Linked(l)
<1>k. /\ k.initial = IF prv = Null THEN l.nxt[del] ELSE l.initial
      /\ k.nxt = IF prv = Null THEN l.nxt ELSE [l.nxt EXCEPT ![prv] = l.nxt[del]]
      /\ k.initial = Null => k.last = Null
      /\ k.initial # Null => k.last = IF del = l.last THEN prv ELSE l.last
      /\ k.count = l.count - 1 /\ k.version = l.version + 1
      /\ k = [initial |-> k.initial, nxt |-> k.nxt, last |-> k.last, count |-> k.count, version |-> k.version]
  BY DEF Unlinked
<1>1. /\ C \subseteq Nodes /\ Null \notin C /\ l.nxt \in Pointing /\ l.count \in Int /\ l.version \in Nat
      /\ l.initial \in Ref /\ l.last \in Ref /\ \A m \in C : l.nxt[m] \in C \cup {Null}
      /\ \A m \in Nodes : l.nxt[m] \in Ref
  BY ListParts
<1>2. /\ l.last \in C /\ l.nxt[l.last] = Null
      /\ \A x, y \in C : l.nxt[x] = l.nxt[y] /\ l.nxt[x] # Null => x = y
      /\ \A x \in C : l.nxt[x] # l.initial
      /\ l.count = Cardinality(C)
      /\ l.initial \in C
  BY ListParts DEF Whole
<1>3. \A x \in C : l.nxt[x] # x
  BY NoLoop
<1>4. del \in C /\ del \in Nodes /\ del # Null /\ prv # del
  BY <1>1, <1>3, NullAssumption DEF Preceding
<1>5. prv # Null => prv \in C /\ prv \in Nodes /\ l.nxt[prv] = del /\ l.initial # del
  BY <1>1, <1>2 DEF Preceding
<1>6. prv = Null => l.initial = del
  BY <1>1 DEF Preceding
<1>7. \A m \in Nodes : k.nxt[m] = IF m = prv THEN l.nxt[del] ELSE l.nxt[m]
  BY <1>k, <1>1, <1>5, NullAssumption DEF Pointing
<1>8. k.nxt \in Pointing /\ k.initial \in Ref
  BY <1>k, <1>1, <1>4, <1>5 DEF Pointing
<1> HIDE DEF C
<1>9. ASSUME NEW r \in Ref PROVE WalkFrom(l.nxt, r) \ {del} \subseteq WalkFrom(k.nxt, r)
  <2> DEFINE D == WalkFrom(k.nxt, r)
  <2>1. D \subseteq Nodes /\ r \in D \cup {Null} /\ \A m \in D : k.nxt[m] \in D \cup {Null}
    BY <1>8, WalkGoesOn DEF Ref
  <2> HIDE DEF D
  <2>2. CASE prv \in D
    <3>1. l.nxt[del] \in D \cup {Null}
      BY <1>7, <2>1, <2>2
    <3> DEFINE E == D \cup {del}
    <3>2. \A m \in E : l.nxt[m] \in E \cup {Null}
      BY <1>4, <1>5, <1>7, <2>1, <3>1, NullAssumption
    <3>3. E \in SUBSET Nodes /\ r \in E \cup {Null}
      BY <1>4, <2>1
    <3> HIDE DEF E
    <3>4. WalkFrom(l.nxt, r) \subseteq E
      BY <1>1, <3>2, <3>3, WalkWithin
    <3>5. QED
      BY <3>4 DEF D, E
  <2>3. CASE prv \notin D
    <3>1. \A m \in D : l.nxt[m] \in D \cup {Null}
      BY <1>7, <2>1, <2>3
    <3>2. D \in SUBSET Nodes
      BY <2>1
    <3>3. WalkFrom(l.nxt, r) \subseteq D
      BY <1>1, <2>1, <3>1, <3>2, WalkWithin
    <3>4. QED
      BY <3>3 DEF D
  <2>4. QED
    BY <2>2, <2>3
<1>10. Linked(k) = C \ {del}
  <2>1. k.initial \in (C \ {del}) \cup {Null}
    <3>1. CASE prv = Null
      BY <1>k, <1>1, <1>3, <1>4, <3>1
    <3>2. CASE prv # Null
      BY <1>k, <1>2, <1>5, <3>2
    <3>3. QED
      BY <3>1, <3>2
  <2>2. ASSUME NEW m \in C \ {del} PROVE k.nxt[m] \in (C \ {del}) \cup {Null}
    <3>1. CASE m = prv
      BY <1>1, <1>3, <1>4, <1>7, <3>1
    <3>2. CASE m # prv
      <4>1. k.nxt[m] = l.nxt[m] /\ l.nxt[m] \in C \cup {Null}
        BY <1>1, <1>7, <3>2
      <4>2. l.nxt[m] # del
        <5>1. CASE prv = Null
          BY <1>2, <1>6, <5>1
        <5>2. CASE prv # Null
          BY <1>2, <1>4, <1>5, <3>2, <5>2
        <5>3. QED
          BY <5>1, <5>2
      <4>3. QED
        BY <4>1, <4>2
    <3>3. QED
      BY <3>1, <3>2
  <2>3. C \ {del} \in SUBSET Nodes
    BY <1>1
  <2>4. WalkFrom(k.nxt, k.initial) \subseteq C \ {del}
    BY <1>8, <2>1, <2>2, <2>3, WalkWithin
  <2>5. C \ {del} \subseteq WalkFrom(k.nxt, k.initial)
    <3>1. CASE prv = Null
      <4>1. k.nxt = l.nxt /\ k.initial = l.nxt[del] /\ C = WalkFrom(l.nxt, del)
        BY <1>k, <1>6, <3>1 DEF C, Linked
      <4>2. WalkFrom(l.nxt, del) = {del} \cup WalkFrom(l.nxt, l.nxt[del])
        BY <1>1, <1>4, WalkUnfolds
      <4>3. QED
        BY <4>1, <4>2
    <3>2. CASE prv # Null
      BY <1>k, <1>1, <1>9, <3>2 DEF C, Linked
    <3>3. QED
      BY <3>1, <3>2
  <2>6. QED
    BY <2>4, <2>5 DEF Linked
<1>11. Cardinality(C \ {del}) = l.count - 1 /\ l.count - 1 \in Int
  <2>1. Cardinality(C \ {del}) = Cardinality(C) - 1 /\ C \ {del} \in SUBSET Nodes
    BY <1>1, <1>4, LinkedCount
  <2>2. Cardinality(C \ {del}) \in Nat
    BY <2>1, LinkedCount
  <2>3. QED
    BY <1>2, <2>1, <2>2
<1>12. k.last \in Ref
  BY <1>k, <1>1, <1>5 DEF Ref
<1>13. k \in List
  BY <1>k, <1>1, <1>8, <1>11, <1>12 DEF List, Pointing
<1>14. Whole(k)
  <2>1. \A x \in C \ {del} : x \in Nodes /\ k.nxt[x] = IF x = prv THEN l.nxt[del] ELSE l.nxt[x]
    BY <1>1, <1>7
  <2>2. \A x, y \in C \ {del} : k.nxt[x] = k.nxt[y] /\ k.nxt[x] # Null => x = y
    BY <1>2, <1>4, <2>1
  <2>3. \A x \in C \ {del} : k.nxt[x] # k.initial
    <3>1. CASE prv = Null
      <4>1. k.initial = l.nxt[del]
        BY <1>k, <3>1
      <4>2. SUFFICES ASSUME NEW x \in C \ {del}, k.nxt[x] = l.nxt[del] PROVE FALSE
        BY <4>1
      <4>3. k.nxt[x] = l.nxt[x]
        BY <1>1, <2>1, <3>1
      <4>4. l.nxt[del] = Null
        BY <1>2, <1>4, <4>2, <4>3
      <4>5. C = {del}
        <5>1. C = WalkFrom(l.nxt, del)
          BY <1>6, <3>1 DEF C, Linked
        <5>2. WalkFrom(l.nxt, del) = {del} \cup WalkFrom(l.nxt, l.nxt[del])
          BY <1>1, <1>4, WalkUnfolds
        <5>3. WalkFrom(l.nxt, l.nxt[del]) = {}
          BY <1>1, <4>4, WalkFromNull
        <5>4. QED
          BY <5>1, <5>2, <5>3
      <4>6. QED
        BY <4>5
    <3>2. CASE prv # Null
      BY <1>k, <1>2, <1>4, <2>1, <3>2
    <3>3. QED
      BY <3>1, <3>2
  <2>4. k.initial = Null <=> C \ {del} = {}
    BY <1>10, <1>13, ListParts
  <2>5. k.last = Null <=> C \ {del} = {}
    <3>1. CASE k.initial = Null
      BY <1>k, <2>4, <3>1
    <3>2. CASE k.initial # Null /\ del = l.last
      <4>1. prv # Null
        BY <1>k, <1>2, <3>2
      <4>2. QED
        BY <1>k, <2>4, <3>2, <4>1
    <3>3. CASE k.initial # Null /\ del # l.last
      BY <1>k, <1>1, <1>2, <2>4, <3>3
    <3>4. QED
      BY <3>1, <3>2, <3>3
  <2>6. ASSUME C \ {del} # {} PROVE k.last \in C \ {del} /\ k.nxt[k.last] = Null
    <3>1. k.initial # Null
      BY <2>4, <2>6
    <3>2. CASE del = l.last
      <4>1. prv # Null /\ k.last = prv
        BY <1>k, <1>2, <3>1, <3>2
      <4>2. QED
        BY <1>2, <1>4, <1>5, <1>7, <3>2, <4>1
    <3>3. CASE del # l.last
      <4>1. k.last = l.last
        BY <1>k, <3>1, <3>3
      <4>2. l.last # prv
        BY <1>1, <1>2, <1>4, <1>5
      <4>3. QED
        BY <1>1, <1>2, <1>7, <3>3, <4>1, <4>2
    <3>4. QED
      BY <3>2, <3>3
  <2>7. QED
    BY <1>k, <1>10, <1>11, <2>2, <2>3, <2>5, <2>6 DEF Whole
<1>15. QED
  BY <1>k, <1>7, <1>9, <1>10, <1>13, <1>14 DEF C

\* Before finds the node before one of the list, and Null for the first.
LEMMA BeforeRight ==
    ASSUME NEW l \in List, NEW n \in Linked(l)
    PROVE  Preceding(l, Before(l, n), n)
<1>1. CASE \E m \in Linked(l) : l.nxt[m] = n
  BY <1>1 DEF Before, Preceding
<1>2. CASE ~\E m \in Linked(l) : l.nxt[m] = n
  <2>1. l.nxt \in Pointing /\ l.initial \in Ref
    BY ListParts
  <2>2. l.initial = n
    BY <1>2, <2>1, WalkComesFrom DEF Linked
  <2>3. QED
    BY <1>2, <2>2 DEF Before, Preceding
<1>3. QED
  BY <1>1, <1>2

(***************************************************************************)
(* Iterators.                                                               *)
(***************************************************************************)

\* Each function makes a list of a list, and an iterator of an iterator, whatever they are.
LEMMA FunctionsTyped ==
    ASSUME NEW l \in List, NEW it \in Iterator
    PROVE  /\ IterStep(l, it) \in Iterator /\ IterSearch(l, it) \in Iterator
           /\ [it EXCEPT !.version = l.version] \in Iterator
           /\ \A n \in Nodes : Before(l, n) \in Ref /\ Appended(l, n) \in List
           /\ it.cur # Null => Prv(l, it) \in Ref
           /\ \A del \in Nodes, prv \in Ref : Unlinked(l, del, prv) \in List /\ IterBack(l, del, prv) \in Iterator
<1>1. /\ l.initial \in Ref /\ l.last \in Ref /\ l.nxt \in Pointing /\ l.count \in Int /\ l.version \in Nat
      /\ Linked(l) \subseteq Nodes /\ Null \notin Linked(l) /\ \A m \in Nodes : l.nxt[m] \in Ref
  BY ListParts
<1>2. it.cur \in Ref /\ it.prv \in Ref /\ it.version \in Nat /\ [it EXCEPT !.version = l.version] \in Iterator
  BY <1>1 DEF Iterator
<1>3. Null \in Ref /\ \A r \in Ref : r # Null => r \in Nodes
  BY DEF Ref
<1>4. IterStep(l, it) \in Iterator
  <2>1. CASE it.cur # Null
    <3>1. IterStep(l, it) = [it EXCEPT !.prv = it.cur, !.cur = l.nxt[it.cur]]
      BY <2>1 DEF IterStep
    <3>2. QED
      BY <1>1, <1>2, <1>3, <2>1, <3>1 DEF Iterator
  <2>2. CASE it.cur = Null /\ it.prv = Null
    BY <1>1, <2>2 DEF IterStep, Iterator
  <2>3. CASE it.cur = Null /\ it.prv # Null
    BY <2>3 DEF IterStep
  <2>4. QED
    BY <2>1, <2>2, <2>3
<1>5. IterSearch(l, it) \in Iterator
  <2>1. CASE it.cur \in Linked(l)
    <3>1. IterSearch(l, it) = [it EXCEPT !.cur = l.nxt[it.cur], !.prv = it.cur]
      BY <1>1, <2>1 DEF IterSearch
    <3>2. QED
      BY <1>1, <1>2, <2>1, <3>1 DEF Iterator
  <2>2. CASE it.cur \notin Linked(l)
    BY <1>1, <1>3, <2>2 DEF IterSearch, Iterator
  <2>3. QED
    BY <2>1, <2>2
<1>6. ASSUME NEW n \in Nodes PROVE Before(l, n) \in Ref
  BY <1>1, <1>3 DEF Before, Ref
<1>7. ASSUME NEW n \in Nodes, NEW k, k = Appended(l, n) PROVE k \in List
  <2> DEFINE nxt == IF l.last = Null THEN l.nxt ELSE [l.nxt EXCEPT ![l.last] = n]
             initial == IF l.last = Null THEN n ELSE l.initial
  <2>1. k = [initial |-> initial, last |-> n, nxt |-> nxt, count |-> l.count + 1, version |-> l.version]
    BY <1>7 DEF Appended, List
  <2>2. n \in Ref /\ nxt \in Pointing /\ initial \in Ref
    BY <1>1, <1>3 DEF Pointing, Ref
  <2> HIDE DEF nxt, initial
  <2>3. QED
    BY <1>1, <2>1, <2>2 DEF List, Pointing
<1>8. it.cur # Null => Prv(l, it) \in Ref
  BY <1>2, <1>3, <1>6 DEF Prv
<1>9. ASSUME NEW del \in Nodes, NEW prv \in Ref
      PROVE  Unlinked(l, del, prv) \in List /\ IterBack(l, del, prv) \in Iterator
  <2> DEFINE first == IF prv = Null THEN l.nxt[del] ELSE l.initial
             nxt == IF prv = Null THEN l.nxt ELSE [l.nxt EXCEPT ![prv] = l.nxt[del]]
             last == CASE first = Null -> Null
                       [] first # Null /\ del = l.last -> prv
                       [] OTHER -> l.last
  <2>1. Unlinked(l, del, prv) = [initial |-> first, nxt |-> nxt, last |-> last,
                                 count |-> l.count - 1, version |-> l.version + 1]
    BY DEF Unlinked
  <2>2. first \in Ref /\ nxt \in Pointing
    BY <1>1, <1>3 DEF Pointing
  <2>3. last \in Ref
    <3>1. CASE first = Null
      BY <1>3, <3>1
    <3>2. CASE first # Null /\ del = l.last
      BY <3>2
    <3>3. CASE first # Null /\ del # l.last
      BY <1>1, <3>3
    <3>4. QED
      BY <3>1, <3>2, <3>3
  <2> HIDE DEF first, nxt, last
  <2>4. Unlinked(l, del, prv) \in List
    BY <1>1, <2>1, <2>2, <2>3 DEF List, Pointing
  <2>5. prv # Null => Before(l, prv) \in Ref
    BY <1>3, <1>6
  <2>6. IterBack(l, del, prv) \in Iterator
    BY <1>1, <1>3, <2>5 DEF IterBack, Iterator
  <2>7. QED
    BY <2>4, <2>6
<1>10. QED
  BY <1>2, <1>4, <1>5, <1>6, <1>7, <1>8, <1>9

\* ll_iter_next with the list's version comes to the next node ahead.
LEMMA Stepped ==
    ASSUME NEW l \in List, NEW it \in Iterator, Fit(l, it),
           it.version = l.version, it.cur = Null => it.prv = Null,
           NEW j, j = IterStep(l, it)
    PROVE  /\ j \in Iterator /\ Fit(l, j) /\ j.version = l.version
           /\ j.cur \in Linked(l) \cup {Null}
           /\ Ahead(l, it) = WalkFrom(l.nxt, j.cur)
<1>1. /\ Linked(l) \subseteq Nodes /\ Null \notin Linked(l)
      /\ l.initial \in Linked(l) \cup {Null}
      /\ \A m \in Linked(l) : l.nxt[m] \in Linked(l) \cup {Null}
      /\ Linked(l) = WalkFrom(l.nxt, l.initial)
  BY ListParts DEF Linked
<1>2. j \in Iterator
  BY FunctionsTyped
<1>3. CASE it.cur # Null
  <2>1. it.cur \in Linked(l)
    BY <1>3 DEF Fit
  <2>2. j = [it EXCEPT !.prv = it.cur, !.cur = l.nxt[it.cur]]
    BY <1>3 DEF IterStep
  <2>3. j.cur = l.nxt[it.cur] /\ j.prv = it.cur /\ j.version = l.version
    BY <2>2 DEF Iterator
  <2>4. QED
    BY <1>1, <1>2, <2>1, <2>3 DEF Fit, Ahead
<1>4. CASE it.cur = Null
  <2>1. j = [it EXCEPT !.cur = l.initial]
    BY <1>4 DEF IterStep
  <2>2. j.cur = l.initial /\ j.prv = Null /\ j.version = l.version
    BY <1>4, <2>1 DEF Iterator
  <2>3. QED
    BY <1>1, <1>2, <1>4, <2>2 DEF Fit, Ahead
<1>5. QED
  BY <1>3, <1>4

\* The search for a new position comes there as well, and the iterator is as good as one
\* with the list's version once it has got that.
LEMMA IterSearched ==
    ASSUME NEW l \in List, NEW it \in Iterator, NEW j, j = IterSearch(l, it)
    PROVE  /\ j \in Iterator /\ Fit(l, [j EXCEPT !.version = l.version]) /\ j.version = it.version
           /\ Ahead(l, it) = WalkFrom(l.nxt, j.cur)
<1>1. /\ Linked(l) \subseteq Nodes /\ Null \notin Linked(l)
      /\ l.initial \in Linked(l) \cup {Null}
      /\ \A m \in Linked(l) : l.nxt[m] \in Linked(l) \cup {Null}
      /\ Linked(l) = WalkFrom(l.nxt, l.initial)
  BY ListParts DEF Linked
<1>2. j \in Iterator /\ [j EXCEPT !.version = l.version].cur = j.cur /\ [j EXCEPT !.version = l.version].prv = j.prv
  BY FunctionsTyped DEF Iterator
<1>3. CASE it.cur \in Linked(l)
  <2>1. j = [it EXCEPT !.cur = l.nxt[it.cur], !.prv = it.cur]
    BY <1>1, <1>3 DEF IterSearch
  <2>2. j.cur = l.nxt[it.cur] /\ j.prv = it.cur /\ j.version = it.version
    BY <2>1 DEF Iterator
  <2>3. QED
    BY <1>1, <1>2, <1>3, <2>2 DEF Fit, Ahead
<1>4. CASE it.cur \notin Linked(l)
  <2>1. j.cur = l.initial /\ j.prv = Null /\ j.version = it.version
    BY <1>1, <1>4 DEF IterSearch, Iterator
  <2>2. QED
    BY <1>1, <1>2, <1>4, <2>1 DEF Fit, Ahead
<1>5. QED
  BY <1>3, <1>4

\* A node that an iterator finds is taken out where the iterator says.
LEMMA Sought ==
    ASSUME NEW l \in List, NEW it \in Iterator, Fit(l, it), it.cur # Null, ~Gone(l, it)
    PROVE  it.cur \in Linked(l) /\ Preceding(l, Prv(l, it), it.cur)
<1>1. it.cur \in Linked(l)
  BY DEF Gone, Fit
<1>2. CASE it.version # l.version \/ it.prv = Null
  BY <1>1, <1>2, BeforeRight DEF Prv
<1>3. CASE ~(it.version # l.version \/ it.prv = Null)
  BY <1>3 DEF Prv, Fit, Preceding
<1>4. QED
  BY <1>1, <1>2, <1>3

\* ll_iter_remove takes the node out that the iterator stands on, and the iterator and all
\* others keep what is ahead of them but for that node.
TakenOut(l, it, del, k, j) ==
    /\ j \in Iterator /\ k \in List /\ Whole(k) /\ Linked(k) = Linked(l) \ {del}
    /\ k.version = l.version + 1 /\ j.version = k.version
    /\ Fit(k, j) /\ (j.cur = Null => j.prv = Null)
    /\ j.cur \in Linked(l) \cup {Null}
    /\ Ahead(l, it) \ {del} \subseteq Ahead(k, j)
    /\ \A i \in Iterator : Ahead(l, i) \cap (Linked(l) \ {del}) \subseteq Ahead(k, i)
    /\ \A m \in Nodes \ Linked(l) : k.nxt[m] = l.nxt[m]

LEMMA SteppedBack ==
    ASSUME NEW l \in List, Whole(l), NEW it \in Iterator, NEW del \in Linked(l), it.cur = del,
           NEW prv, Preceding(l, prv, del),
           NEW k, k = Unlinked(l, del, prv), NEW j, j = IterBack(k, del, prv)
    PROVE  TakenOut(l, it, del, k, j)
<1>1. /\ Linked(l) \subseteq Nodes /\ Null \notin Linked(l) /\ l.nxt \in Pointing
      /\ l.initial \in Linked(l) \cup {Null} /\ l.version \in Nat
      /\ \A m \in Linked(l) : l.nxt[m] \in Linked(l) \cup {Null}
      /\ \A m \in Nodes : l.nxt[m] \in Ref
  BY ListParts
<1>2. /\ k \in List /\ Whole(k) /\ Linked(k) = Linked(l) \ {del}
      /\ k.version = l.version + 1 /\ (prv = Null => k.initial = l.nxt[del])
      /\ \A m \in Nodes : k.nxt[m] = IF m = prv THEN l.nxt[del] ELSE l.nxt[m]
      /\ \A r \in Ref : WalkFrom(l.nxt, r) \ {del} \subseteq WalkFrom(k.nxt, r)
  BY UnlinkedWhole
<1>3. prv # Null => prv \in Linked(l) /\ prv # del /\ prv \in Linked(k) /\ l.nxt[prv] = del
  BY <1>1, <1>2, NoLoop DEF Preceding
<1>4. prv = Null => prv \notin Linked(k)
  BY <1>2, ListParts
<1>5. /\ j.cur = prv /\ j.version = k.version /\ (prv = Null => j.prv = Null)
      /\ (prv # Null => j.prv = Before(k, prv))
  BY <1>3, <1>4 DEF IterBack
<1>6. prv # Null => Preceding(k, Before(k, prv), prv)
  BY <1>2, <1>3, BeforeRight
<1>7. j \in Iterator
  <2>1. del \in Nodes /\ prv \in Ref
    BY <1>1, <1>3 DEF Ref
  <2>2. QED
    BY <1>2, <2>1, FunctionsTyped
<1>8. Fit(k, j)
  BY <1>3, <1>5, <1>6 DEF Fit, Preceding
<1>9. ASSUME NEW i \in Iterator, NEW n \in Ahead(l, i), n \in Linked(l), n # del PROVE n \in Ahead(k, i)
  <2>1. CASE i.cur \notin Linked(k)
    BY <1>2, <1>9, <2>1 DEF Ahead
  <2>2. CASE i.cur \in Linked(k)
    <3>1. i.cur \in Linked(l) /\ i.cur \in Nodes /\ i.cur # del
      BY <1>1, <1>2, <2>2
    <3>2. n \in WalkFrom(l.nxt, l.nxt[i.cur])
      BY <1>9, <3>1 DEF Ahead
    <3>3. n \in WalkFrom(k.nxt, k.nxt[i.cur])
      <4>1. CASE i.cur = prv
        <5>1. l.nxt[i.cur] = del /\ k.nxt[i.cur] = l.nxt[del]
          BY <1>1, <1>2, <1>3, <3>1, <4>1
        <5>2. WalkFrom(l.nxt, del) = {del} \cup WalkFrom(l.nxt, l.nxt[del])
          BY <1>1, WalkUnfolds
        <5>3. n \in WalkFrom(l.nxt, l.nxt[del])
          BY <1>9, <3>2, <5>1, <5>2
        <5>4. l.nxt[del] \in Ref
          BY <1>1
        <5>5. QED
          BY <1>2, <1>9, <5>1, <5>3, <5>4
      <4>2. CASE i.cur # prv
        <5>1. k.nxt[i.cur] = l.nxt[i.cur] /\ l.nxt[i.cur] \in Ref
          BY <1>1, <1>2, <3>1, <4>2
        <5>2. QED
          BY <1>2, <1>9, <3>2, <5>1
      <4>3. QED
        BY <4>1, <4>2
    <3>4. QED
      BY <2>2, <3>3 DEF Ahead
  <2>3. QED
    BY <2>1, <2>2
<1>10. ASSUME NEW n \in Ahead(l, it), n # del PROVE n \in Ahead(k, j)
  <2>1. Ahead(l, it) = WalkFrom(l.nxt, l.nxt[del]) /\ l.nxt[del] \in Ref
    BY <1>1 DEF Ahead
  <2>2. n \in WalkFrom(k.nxt, l.nxt[del])
    BY <1>2, <1>10, <2>1
  <2>3. CASE prv = Null
    <3>1. k.initial = l.nxt[del] /\ j.cur \notin Linked(k)
      BY <1>2, <1>4, <1>5, <2>3
    <3>2. QED
      BY <2>2, <3>1 DEF Ahead, Linked
  <2>4. CASE prv # Null
    <3>1. k.nxt[prv] = l.nxt[del] /\ j.cur = prv /\ prv \in Linked(k)
      BY <1>1, <1>2, <1>3, <1>5, <2>4
    <3>2. QED
      BY <2>2, <3>1 DEF Ahead
  <2>5. QED
    BY <2>3, <2>4
<1>11. \A m \in Nodes \ Linked(l) : k.nxt[m] = l.nxt[m]
  BY <1>1, <1>2, <1>3, NullAssumption
<1>12. (j.cur = Null => j.prv = Null) /\ j.cur \in Linked(l) \cup {Null}
  BY <1>3, <1>5
<1>13. QED
  BY <1>2, <1>5, <1>7, <1>8, <1>9, <1>10, <1>11, <1>12 DEF TakenOut

(***************************************************************************)
(* The calls.                                                               *)
(***************************************************************************)

\* What holds whatever the lock does.
Steady ==
    \A t \in Callers :
        /\ call[t].pc = "found" => mode[t] = "holdR"
        /\ call[t].pc = "unlink" => mode[t] = "holdW"
        /\ call[t].pc \in {"remove", "unlink"} => iter[t].cur # Null
        /\ call[t].pc \notin {"walk", "found", "remove", "unlink"} => iter[t].cur = Null
        /\ call[t].pc = "link" => call[t].node \in Nodes
        /\ call[t].pc # "idle" => call[t].ip \in Addresses

Row == Whole(vList) /\ Linked(vList) = members

\* The nodes that were never in the list.
Fresh == {n \in Nodes : n \notin Used \/ \E t \in Callers : call[t].pc = "link" /\ call[t].node = n}

Untouched ==
    /\ \A n \in Fresh : /\ n \notin members /\ vList.nxt[n] = Null
                        /\ \A t \in Callers : iter[t].cur # n /\ n \notin known[t]
    /\ \A t, u \in Callers : call[t].pc = "link" /\ call[u].pc = "link" /\ call[t].node = call[u].node => t = u
    /\ \A t \in Callers : call[t].pc = "link" => call[t].node \in Used

\* An iterator it, which a search has moved but not yet given the list's version.
PlacedAs(c, it) == IF c.pc = "found" THEN [it EXCEPT !.version = vList.version] ELSE it
Placed(t) == PlacedAs(call[t], iter[t])

Iterators ==
    \A t \in Callers :
        /\ iter[t].version <= vList.version /\ Fit(vList, Placed(t))
        /\ call[t].pc = "walk" /\ iter[t].version = vList.version /\ iter[t].cur = Null => iter[t].prv = Null
        /\ call[t].pc \in {"remove", "unlink"} => entry[iter[t].cur].age >= BanTime
        /\ call[t].pc = "unlink" => /\ iter[t].cur \in Linked(vList)
                                    /\ Preceding(vList, call[t].node, iter[t].cur)

\* The nodes that a walk is to come to.
ToComeAs(c, it) == IF c.pc = "found" THEN WalkFrom(vList.nxt, it.cur) ELSE Ahead(vList, it)
ToCome(t) == ToComeAs(call[t], iter[t])

Walking == {"walk", "found", "remove", "unlink"}

\* What a caller is to come to, as long as it is in time: it is in the list, and still to come
\* in a walk that has found nothing.
Watching ==
    \A t \in Callers : \A n \in known[t] :
        /\ call[t].pc # "idle" /\ entry[n].ip = call[t].ip
        /\ entry[n].age < BanTime =>
             /\ n \in members
             /\ ~call[t].result => call[t].pc \in Walking /\ n \in ToCome(t)

Kept == Row /\ Untouched /\ Iterators /\ Watching

BanIInv == BanTypeOK /\ Steady /\ (~mixed => Lock!Exclusive /\ Kept)

CallRec == [pc : {"idle", "walk", "found", "remove", "unlink", "insert", "link", "return"}, ip : Address,
            add : BOOLEAN, result : BOOLEAN, lag : 0..MaxLag, node : Ref]
EntryRec == [ip : Address, age : 0..(BanTime + MaxLag)]

LEMMA BanTyped ==
    ASSUME BanTypeOK
    PROVE  /\ vList \in List /\ vList.version \in Nat /\ members \in SUBSET Nodes
           /\ entry \in [Nodes -> EntryRec] /\ iter \in [Callers -> Iterator]
           /\ call \in [Callers -> CallRec] /\ known \in [Callers -> SUBSET Nodes]
           /\ \A n \in Nodes : entry[n].ip \in Address /\ entry[n].age \in Nat /\ entry[n] \in EntryRec
           /\ \A t \in Callers : /\ iter[t] \in Iterator /\ iter[t].cur \in Ref /\ iter[t].prv \in Ref
                                 /\ iter[t].version \in Nat /\ known[t] \subseteq Nodes
                                 /\ call[t] \in CallRec /\ call[t].lag \in Nat /\ call[t].result \in BOOLEAN
                                 /\ call[t].ip \in Address /\ call[t].node \in Ref
           /\ Used \subseteq Nodes /\ BanTime \in Nat /\ MaxLag \in Nat /\ BanTime > 0
           /\ Lock!TypeOK /\ mixed \in BOOLEAN
<1>1. /\ vList \in List /\ members \in SUBSET Nodes
      /\ entry \in [Nodes -> EntryRec] /\ iter \in [Callers -> Iterator]
      /\ call \in [Callers -> CallRec] /\ known \in [Callers -> SUBSET Nodes]
      /\ Lock!TypeOK /\ mixed \in BOOLEAN
  BY DEF BanTypeOK, EntryRec, CallRec
<1>2. vList.version \in Nat
  BY <1>1, ListParts
<1>3. BanTime \in Nat /\ MaxLag \in Nat /\ BanTime > 0
  BY BanTimeAssumption
<1>4. \A n \in Nodes : entry[n].ip \in Address /\ entry[n].age \in Nat /\ entry[n] \in EntryRec
  BY <1>1, <1>3 DEF EntryRec
<1>5. \A t \in Callers : /\ iter[t] \in Iterator /\ iter[t].cur \in Ref /\ iter[t].prv \in Ref
                         /\ iter[t].version \in Nat /\ known[t] \subseteq Nodes
  BY <1>1 DEF Iterator
<1>6. \A t \in Callers : /\ call[t] \in CallRec /\ call[t].lag \in Nat /\ call[t].result \in BOOLEAN
                         /\ call[t].ip \in Address /\ call[t].node \in Ref
  BY <1>1, <1>3 DEF CallRec
<1>7. QED
  BY <1>1, <1>2, <1>3, <1>4, <1>5, <1>6 DEF Used

LEMMA Beginning ==
    /\ EmptyList \in List /\ Whole(EmptyList) /\ Linked(EmptyList) = {} /\ EmptyList.version = 0
    /\ \A n \in Nodes : EmptyList.nxt[n] = Null
    /\ NoCall \in CallRec /\ NoCall.pc = "idle"
    /\ \A l \in List : NewIter(l) \in Iterator /\ NewIter(l).cur = Null /\ NewIter(l).prv = Null
                       /\ NewIter(l).version = l.version
<1>1. EmptyList \in List /\ EmptyList.initial = Null /\ EmptyList.last = Null /\ EmptyList.count = 0
      /\ EmptyList.version = 0 /\ \A n \in Nodes : EmptyList.nxt[n] = Null
  BY DEF EmptyList, List, Ref
<1>2. Linked(EmptyList) = {}
  BY <1>1, ListParts
<1>3. Cardinality({}) = 0
  BY FS_EmptySet
<1>4. Whole(EmptyList)
  BY <1>1, <1>2, <1>3 DEF Whole
<1>5. NoCall \in CallRec /\ NoCall.pc = "idle"
  BY BanTimeAssumption DEF NoCall, CallRec, Address, Ref
<1>6. ASSUME NEW l \in List
      PROVE  NewIter(l) \in Iterator /\ NewIter(l).cur = Null /\ NewIter(l).prv = Null /\ NewIter(l).version = l.version
  BY ListParts DEF NewIter, Iterator, Ref
<1>7. QED
  BY <1>1, <1>2, <1>4, <1>5, <1>6

(***************************************************************************)
(* The lock of the list: whoever has it keeps it until it gives it back.    *)
(***************************************************************************)

Locking(t) ==
    \/ Lock!LockRead(t) \/ Lock!LockWrite(t)
    \/ Lock!ForceRead(t) \/ Lock!ForceWrite(t) \/ Lock!Spurious(t)
Unlocking(t) == Lock!UnlockRead(t) \/ Lock!UnlockWrite(t)

LEMMA Signalled ==
    ASSUME NEW m \in [Callers -> Lock!Mode], Lock!SignalWriter(m)
    PROVE  /\ mode' \in [Callers -> Lock!Mode]
           /\ \A u \in Callers : m[u] \in {"holdR", "holdW"} => mode'[u] = m[u]
<1> DEFINE waiting == {u \in Callers : m[u] = "waitW"}
<1>1. CASE waiting = {}
  BY <1>1 DEF Lock!SignalWriter
<1>2. CASE waiting # {}
  <2>1. PICK u \in waiting : mode' = [m EXCEPT ![u] = "holdW"]
    BY <1>2 DEF Lock!SignalWriter
  <2>2. QED
    BY <2>1 DEF Lock!Mode
<1>3. QED
  BY <1>1, <1>2

LEMMA LockStep ==
    ASSUME Lock!TypeOK, NEW t \in Callers, Locking(t) \/ Unlocking(t)
    PROVE  /\ Lock!TypeOK'
           /\ Locking(t) => \A u \in Callers : mode[u] \in {"holdR", "holdW"} => mode'[u] = mode[u]
           /\ \A u \in Callers : u # t /\ mode[u] \in {"holdR", "holdW"} => mode'[u] = mode[u]
<1>1. mode \in [Callers -> Lock!Mode] /\ writelock \in Nat /\ readlock \in Nat
  BY DEF Lock!TypeOK
<1>2. CASE Lock!LockRead(t)
  BY <1>1, <1>2 DEF Lock!LockRead, Lock!TypeOK, Lock!Mode, Locking
<1>3. CASE Lock!LockWrite(t)
  BY <1>1, <1>3 DEF Lock!LockWrite, Lock!TypeOK, Lock!Mode, Locking
<1>4. CASE Lock!ForceRead(t)
  BY <1>1, <1>4 DEF Lock!ForceRead, Lock!TypeOK, Lock!Mode, Locking
<1>5. CASE Lock!ForceWrite(t)
  BY <1>1, <1>5 DEF Lock!ForceWrite, Lock!TypeOK, Lock!Mode, Locking
<1>6. CASE Lock!Spurious(t)
  BY <1>1, <1>6 DEF Lock!Spurious, Lock!TypeOK, Lock!Mode, Locking
<1> DEFINE m == [mode EXCEPT ![t] = "idle"]
<1>7. /\ m \in [Callers -> Lock!Mode]
      /\ \A u \in Callers : u # t => m[u] = mode[u]
  BY <1>1 DEF Lock!Mode
<1>8. /\ Lock!MinusOne(writelock) \in Nat /\ Lock!MinusOne(readlock) \in Nat
  BY <1>1 DEF Lock!MinusOne
<1>9. /\ Lock!WakeReaders(m) \in [Callers -> Lock!Mode]
      /\ \A u \in Callers : m[u] \in {"holdR", "holdW"} => Lock!WakeReaders(m)[u] = m[u]
  BY <1>7 DEF Lock!WakeReaders, Lock!Mode
<1>10. ASSUME Unlocking(t), ~Locking(t)
       PROVE  Lock!TypeOK' /\ \A u \in Callers : u # t /\ mode[u] \in {"holdR", "holdW"} => mode'[u] = mode[u]
  <2>1. UNCHANGED <<mayRead, orderly>> /\ writelock' \in Nat /\ readlock' \in Nat
    BY <1>1, <1>8, <1>10 DEF Unlocking, Lock!UnlockRead, Lock!UnlockWrite
  <2>2. \/ Lock!SignalWriter(m) \/ mode' = m \/ mode' = Lock!WakeReaders(m)
    BY <1>10 DEF Unlocking, Lock!UnlockRead, Lock!UnlockWrite
  <2> HIDE DEF m
  <2>3. /\ mode' \in [Callers -> Lock!Mode]
        /\ \A u \in Callers : m[u] \in {"holdR", "holdW"} => mode'[u] = m[u]
    BY <1>7, <1>9, <2>2, Signalled
  <2>4. QED
    BY <1>7, <2>1, <2>3 DEF Lock!TypeOK
<1>11. CASE Unlocking(t) /\ ~Locking(t)
  BY <1>10, <1>11
<1>12. QED
  BY <1>2, <1>3, <1>4, <1>5, <1>6, <1>11 DEF Locking

(***************************************************************************)
(* What holds whatever the lock does, step by step.                         *)
(***************************************************************************)

\* Steps of one call that change only that call, its iterator, and the lock.
LEMMA OthersSteady ==
    ASSUME BanTypeOK, Steady, NEW t \in Callers, NEW c \in CallRec, NEW it \in Iterator,
           call' = [call EXCEPT ![t] = c], iter' = [iter EXCEPT ![t] = it],
           Unlocking(t) \/ UNCHANGED <<mayRead, orderly, writelock, readlock, mode>>,
           c.pc \in {"found", "unlink"} => UNCHANGED mode,
           c.pc = "found" => mode[t] = "holdR",
           c.pc = "unlink" => mode[t] = "holdW",
           c.pc \in {"remove", "unlink"} => it.cur # Null,
           c.pc \notin {"walk", "found", "remove", "unlink"} => it.cur = Null,
           c.pc = "link" => c.node \in Nodes,
           c.pc # "idle" => c.ip \in Addresses
    PROVE  Steady' /\ call' \in [Callers -> CallRec] /\ iter' \in [Callers -> Iterator] /\ Lock!TypeOK'
<1>1. call \in [Callers -> CallRec] /\ iter \in [Callers -> Iterator] /\ Lock!TypeOK
  BY BanTyped
<1>2. call' \in [Callers -> CallRec] /\ iter' \in [Callers -> Iterator]
  BY <1>1
<1>3. /\ call'[t] = c /\ iter'[t] = it
      /\ \A u \in Callers : u # t => call'[u] = call[u] /\ iter'[u] = iter[u]
  BY <1>1
<1>4. /\ Lock!TypeOK'
      /\ \A u \in Callers : u # t /\ mode[u] \in {"holdR", "holdW"} => mode'[u] = mode[u]
  <2>1. CASE Unlocking(t)
    BY <1>1, <2>1, LockStep
  <2>2. CASE UNCHANGED <<mayRead, orderly, writelock, readlock, mode>>
    BY <1>1, <2>2 DEF Lock!TypeOK
  <2>3. QED
    BY <2>1, <2>2
<1>5. ASSUME NEW u \in Callers
      PROVE  /\ call'[u].pc = "found" => mode'[u] = "holdR"
             /\ call'[u].pc = "unlink" => mode'[u] = "holdW"
             /\ call'[u].pc \in {"remove", "unlink"} => iter'[u].cur # Null
             /\ call'[u].pc \notin {"walk", "found", "remove", "unlink"} => iter'[u].cur = Null
             /\ call'[u].pc = "link" => call'[u].node \in Nodes
             /\ call'[u].pc # "idle" => call'[u].ip \in Addresses
  <2>1. CASE u = t
    BY <1>3, <2>1
  <2>2. CASE u # t
    BY <1>3, <1>4, <2>2 DEF Steady
  <2>3. QED
    BY <2>1, <2>2
<1>6. QED
  BY <1>2, <1>4, <1>5 DEF Steady

\* What the loop does with the entry that the iterator has come to, or with the end.
LEMMA Looked ==
    ASSUME BanTypeOK, NEW c \in CallRec, NEW n \in Ref, NEW d, d = AfterNext(c, n)
    PROVE  /\ d \in CallRec /\ d.ip = c.ip /\ d.pc \in {"insert", "return", "remove", c.pc}
           /\ n = Null => d.pc \in {"insert", "return"} /\ d.result = c.result
           /\ n # Null =>
                 \/ d.pc = "remove" /\ ~InTime(n, c.lag) /\ d.result = c.result
                 \/ d.pc = c.pc /\ d.result = (c.result \/ entry[n].ip = c.ip)
<1>1. \/ n = Null /\ d = [c EXCEPT !.pc = "insert"]
      \/ n = Null /\ d = [c EXCEPT !.pc = "return"]
      \/ n # Null /\ ~InTime(n, c.lag) /\ d = [c EXCEPT !.pc = "remove"]
      \/ n # Null /\ InTime(n, c.lag) /\ d = [c EXCEPT !.result = c.result \/ entry[n].ip = c.ip]
  <2>1. CASE n = Null
    BY <2>1 DEF AfterNext
  <2>2. CASE n # Null /\ ~InTime(n, c.lag)
    BY <2>2 DEF AfterNext
  <2>3. CASE n # Null /\ InTime(n, c.lag)
    BY <2>3 DEF AfterNext
  <2>4. QED
    BY <2>1, <2>2, <2>3
<1>2. c.result \in BOOLEAN
  BY DEF CallRec
<1>3. QED
  BY <1>1, <1>2 DEF CallRec

\* Where BanNext leaves the iterator and the call.
NextIter(t) == IF call[t].pc = "found" THEN [iter[t] EXCEPT !.version = vList.version]
               ELSE IterStep(vList, iter[t])
NextCall(t) == AfterNext([call[t] EXCEPT !.pc = "walk"], NextIter(t).cur)

LEMMA NextParts ==
    ASSUME BanTypeOK, NEW t \in Callers, BanNext(t)
    PROVE  /\ call[t].pc = "found" \/ (call[t].pc = "walk" /\ iter[t].version = vList.version)
           /\ iter' = [iter EXCEPT ![t] = NextIter(t)] /\ call' = [call EXCEPT ![t] = NextCall(t)]
           /\ UNCHANGED <<vList, entry, known, members>>
           /\ NextIter(t) \in Iterator /\ NextCall(t) \in CallRec /\ NextCall(t).ip = call[t].ip
           /\ NextCall(t).pc \in {"walk", "remove", "insert", "return"}
           /\ NextIter(t).cur = Null => NextCall(t).pc \in {"insert", "return"} /\ NextCall(t).result = call[t].result
           /\ NextIter(t).cur # Null =>
                 \/ /\ NextCall(t).pc = "remove" /\ ~InTime(NextIter(t).cur, call[t].lag)
                    /\ NextCall(t).result = call[t].result
                 \/ /\ NextCall(t).pc = "walk"
                    /\ NextCall(t).result = (call[t].result \/ entry[NextIter(t).cur].ip = call[t].ip)
<1>1. /\ call[t].pc = "found" \/ (call[t].pc = "walk" /\ iter[t].version = vList.version)
      /\ iter' = [iter EXCEPT ![t] = NextIter(t)] /\ call' = [call EXCEPT ![t] = NextCall(t)]
      /\ UNCHANGED <<vList, entry, known, members>>
  BY DEF BanNext, NextIter, NextCall
<1>2. NextIter(t) \in Iterator
  BY BanTyped, FunctionsTyped DEF NextIter
<1> DEFINE c == [call[t] EXCEPT !.pc = "walk"]
<1>3. /\ c \in CallRec /\ c.pc = "walk" /\ c.ip = call[t].ip /\ c.result = call[t].result /\ c.lag = call[t].lag
  BY BanTyped DEF CallRec
<1>4. NextIter(t).cur \in Ref
  BY <1>2 DEF Iterator
<1>5. NextCall(t) = AfterNext(c, NextIter(t).cur)
  BY DEF NextCall
<1> HIDE DEF c
<1>6. QED
  BY <1>1, <1>2, <1>3, <1>4, <1>5, Looked

LockStill == UNCHANGED <<mayRead, orderly, writelock, readlock, mode>> /\ UNCHANGED mixed

\* Steps that leave everything but the lock alone.
LEMMA StepLock ==
    ASSUME BanTypeOK, Steady, NEW t \in Callers, BanLock(t) \/ BanForced(t)
    PROVE  BanTypeOK' /\ Steady' /\ Watched /\ UNCHANGED <<vList, entry, iter, call, known, members>>
<1>1. Watched /\ UNCHANGED <<vList, entry, iter, call, known, members>> /\ Locking(t)
  BY DEF BanLock, BanForced, callVars, Locking
<1>2. Lock!TypeOK' /\ \A u \in Callers : mode[u] \in {"holdR", "holdW"} => mode'[u] = mode[u]
  BY <1>1, BanTyped, LockStep
<1>3. mixed' \in BOOLEAN
  BY <1>1 DEF Watched, Lock!Exclusive, BanTypeOK
<1>4. BanTypeOK'
  BY <1>1, <1>2, <1>3 DEF BanTypeOK
<1>5. Steady'
  BY <1>1, <1>2 DEF Steady
<1>6. QED
  BY <1>1, <1>4, <1>5

\* What a step of a call must show: the types of what it changes, and where it leaves the call.
LEMMA TypedAfter ==
    ASSUME BanTypeOK, Steady, Steady' /\ call' \in [Callers -> CallRec] /\ iter' \in [Callers -> Iterator] /\ Lock!TypeOK',
           vList' \in List, entry' \in [Nodes -> EntryRec], known' \in [Callers -> SUBSET Nodes],
           members' \subseteq Nodes, Watched \/ UNCHANGED mixed
    PROVE  BanTypeOK' /\ Steady'
<1>1. mixed' \in BOOLEAN
  BY DEF Watched, BanTypeOK
<1>2. QED
  BY <1>1 DEF BanTypeOK, CallRec, EntryRec

LEMMA CallTyped ==
    ASSUME BanTypeOK, Steady, NEW t \in Callers, NEW ip \in Addresses, NEW add \in BOOLEAN, BanCall(t, ip, add)
    PROVE  BanTypeOK' /\ Steady' /\ LockStill
<1> DEFINE new == [NoCall EXCEPT !.pc = "walk", !.ip = ip, !.add = add]
<1>1. /\ call' = [call EXCEPT ![t] = new] /\ iter' = [iter EXCEPT ![t] = NewIter(vList)]
      /\ known' = [known EXCEPT ![t] = {n \in members : entry[n].ip = ip}]
      /\ UNCHANGED <<vList, entry, members>> /\ LockStill
  BY DEF BanCall, lockVars, LockStill
<1>2. new \in CallRec /\ new.pc = "walk" /\ new.ip = ip
  BY Beginning DEF NoCall, CallRec, Address
<1>3. vList \in List /\ entry \in [Nodes -> EntryRec] /\ known \in [Callers -> SUBSET Nodes] /\ members \in SUBSET Nodes
  BY BanTyped
<1>4. NewIter(vList) \in Iterator
  BY <1>3, Beginning
<1> HIDE DEF new
<1>5. Steady' /\ call' \in [Callers -> CallRec] /\ iter' \in [Callers -> Iterator] /\ Lock!TypeOK'
  BY <1>1, <1>2, <1>4, OthersSteady DEF LockStill
<1>6. known' \in [Callers -> SUBSET Nodes]
  BY <1>1, <1>3
<1>7. QED
  BY <1>1, <1>3, <1>5, <1>6, TypedAfter DEF LockStill

LEMMA SearchTyped ==
    ASSUME BanTypeOK, Steady, NEW t \in Callers, BanSearch(t)
    PROVE  BanTypeOK' /\ Steady' /\ LockStill
<1> DEFINE new == [call[t] EXCEPT !.pc = "found"]
<1>1. /\ call' = [call EXCEPT ![t] = new] /\ iter' = [iter EXCEPT ![t] = IterSearch(vList, iter[t])]
      /\ UNCHANGED <<vList, entry, known, members>> /\ LockStill /\ call[t].pc = "walk" /\ mode[t] = "holdR"
  BY DEF BanSearch, lockVars, LockStill, HasRead
<1>2. /\ vList \in List /\ entry \in [Nodes -> EntryRec] /\ known \in [Callers -> SUBSET Nodes]
      /\ members \in SUBSET Nodes /\ call[t] \in CallRec /\ iter[t] \in Iterator
  BY BanTyped
<1>3. new \in CallRec /\ new.pc = "found" /\ new.ip = call[t].ip
  BY <1>2 DEF CallRec
<1>4. IterSearch(vList, iter[t]) \in Iterator /\ call[t].ip \in Addresses
  BY <1>1, <1>2, FunctionsTyped DEF Steady
<1> HIDE DEF new
<1>5. Steady' /\ call' \in [Callers -> CallRec] /\ iter' \in [Callers -> Iterator] /\ Lock!TypeOK'
  BY <1>1, <1>3, <1>4, OthersSteady DEF LockStill
<1>6. QED
  BY <1>1, <1>2, <1>5, TypedAfter DEF LockStill

LEMMA NextTyped ==
    ASSUME BanTypeOK, Steady, NEW t \in Callers, BanNext(t)
    PROVE  BanTypeOK' /\ Steady' /\ Watched
<1>1. Unlocking(t) /\ Watched
  BY DEF BanNext, Unlocking
<1>2. /\ vList \in List /\ entry \in [Nodes -> EntryRec] /\ known \in [Callers -> SUBSET Nodes]
      /\ members \in SUBSET Nodes
  BY BanTyped
<1>3. /\ call[t].pc \in {"walk", "found"}
      /\ iter' = [iter EXCEPT ![t] = NextIter(t)] /\ call' = [call EXCEPT ![t] = NextCall(t)]
      /\ UNCHANGED <<vList, entry, known, members>>
      /\ NextIter(t) \in Iterator /\ NextCall(t) \in CallRec /\ NextCall(t).ip = call[t].ip
      /\ NextCall(t).pc \in {"walk", "remove", "insert", "return"}
      /\ NextIter(t).cur = Null => NextCall(t).pc \in {"insert", "return"}
      /\ NextIter(t).cur # Null => NextCall(t).pc \in {"remove", "walk"}
  BY NextParts
<1>4. call[t].ip \in Addresses
  BY <1>3 DEF Steady
<1>5. Steady' /\ call' \in [Callers -> CallRec] /\ iter' \in [Callers -> Iterator] /\ Lock!TypeOK'
  BY <1>1, <1>3, <1>4, OthersSteady
<1>6. QED
  BY <1>1, <1>2, <1>3, <1>5, TypedAfter

LEMMA SeekTyped ==
    ASSUME BanTypeOK, Steady, NEW t \in Callers, BanSeek(t)
    PROVE  BanTypeOK' /\ Steady' /\ LockStill
<1> DEFINE old == iter[t]
           new == [call[t] EXCEPT !.pc = "unlink", !.node = Prv(vList, iter[t])]
<1>1. /\ call' = [call EXCEPT ![t].pc = "unlink", ![t].node = Prv(vList, iter[t])] /\ UNCHANGED iter
      /\ UNCHANGED <<vList, entry, known, members>> /\ LockStill /\ call[t].pc = "remove" /\ mode[t] = "holdW"
  BY DEF BanSeek, lockVars, LockStill
<1>2. /\ vList \in List /\ entry \in [Nodes -> EntryRec] /\ known \in [Callers -> SUBSET Nodes]
      /\ members \in SUBSET Nodes /\ call[t] \in CallRec /\ old \in Iterator
      /\ call \in [Callers -> CallRec] /\ iter \in [Callers -> Iterator]
  BY BanTyped
<1>3. old.cur # Null /\ call[t].ip \in Addresses
  BY <1>1 DEF Steady
<1>4. Prv(vList, iter[t]) \in Ref
  BY <1>2, <1>3, FunctionsTyped
<1>5. new \in CallRec /\ new.pc = "unlink" /\ new.ip = call[t].ip
  BY <1>2, <1>4 DEF CallRec
<1>6. call' = [call EXCEPT ![t] = new] /\ iter' = [iter EXCEPT ![t] = old]
  BY <1>1, <1>2
<1> HIDE DEF old, new
<1>7. UNCHANGED <<mayRead, orderly, writelock, readlock, mode>> /\ UNCHANGED mode /\ mode[t] = "holdW"
  BY <1>1 DEF LockStill
<1>8. old \in Iterator
  BY <1>2
<1>9. Steady' /\ call' \in [Callers -> CallRec] /\ iter' \in [Callers -> Iterator] /\ Lock!TypeOK'
  BY <1>3, <1>5, <1>6, <1>7, <1>8, OthersSteady
<1>10. QED
  BY <1>1, <1>2, <1>9, TypedAfter DEF LockStill

LEMMA GoneTyped ==
    ASSUME BanTypeOK, Steady, NEW t \in Callers, BanGone(t)
    PROVE  BanTypeOK' /\ Steady' /\ Watched
<1> DEFINE old == iter[t]
           new == [call[t] EXCEPT !.pc = "walk"]
<1>1. /\ call' = [call EXCEPT ![t].pc = "walk"] /\ UNCHANGED iter /\ call[t].pc = "remove"
      /\ UNCHANGED <<vList, entry, known, members>> /\ Watched /\ Unlocking(t)
  BY DEF BanGone, HasWritten, Unlocking
<1>2. /\ vList \in List /\ entry \in [Nodes -> EntryRec] /\ known \in [Callers -> SUBSET Nodes]
      /\ members \in SUBSET Nodes /\ call[t] \in CallRec /\ old \in Iterator
      /\ call \in [Callers -> CallRec] /\ iter \in [Callers -> Iterator]
  BY BanTyped
<1>3. new \in CallRec /\ new.pc = "walk" /\ new.ip = call[t].ip /\ call[t].ip \in Addresses
  BY <1>1, <1>2 DEF CallRec, Steady
<1>4. call' = [call EXCEPT ![t] = new] /\ iter' = [iter EXCEPT ![t] = old]
  BY <1>1, <1>2
<1> HIDE DEF old, new
<1>5. Steady' /\ call' \in [Callers -> CallRec] /\ iter' \in [Callers -> Iterator] /\ Lock!TypeOK'
  BY <1>1, <1>2, <1>3, <1>4, OthersSteady, ZenonT(60)
<1>6. QED
  BY <1>1, <1>2, <1>5, TypedAfter

LEMMA UnlinkTyped ==
    ASSUME BanTypeOK, Steady, NEW t \in Callers, BanUnlink(t)
    PROVE  BanTypeOK' /\ Steady' /\ Watched
<1> DEFINE new == [call[t] EXCEPT !.pc = "walk", !.node = Null]
           back == IterBack(vList', iter[t].cur, call[t].node)
<1>1. /\ call' = [call EXCEPT ![t].pc = "walk", ![t].node = Null] /\ iter' = [iter EXCEPT ![t] = back]
      /\ vList' = Unlinked(vList, iter[t].cur, call[t].node) /\ members' = members \ {iter[t].cur}
      /\ UNCHANGED <<entry, known>> /\ Watched /\ Unlocking(t) /\ call[t].pc = "unlink"
  BY DEF BanUnlink, HasWritten, Unlocking
<1>2. /\ vList \in List /\ entry \in [Nodes -> EntryRec] /\ known \in [Callers -> SUBSET Nodes]
      /\ members \in SUBSET Nodes /\ call[t] \in CallRec /\ iter[t] \in Iterator /\ call[t].node \in Ref
      /\ call \in [Callers -> CallRec] /\ iter[t].cur \in Ref
  BY BanTyped
<1>3. iter[t].cur \in Nodes /\ call[t].ip \in Addresses
  BY <1>1, <1>2 DEF Steady, Ref
<1>4. vList' \in List
  BY <1>1, <1>2, <1>3, FunctionsTyped
<1>5. back \in Iterator
  BY <1>2, <1>3, <1>4, FunctionsTyped
<1>6. new \in CallRec /\ new.pc = "walk" /\ new.ip = call[t].ip
  BY <1>2 DEF CallRec, Ref
<1>7. call' = [call EXCEPT ![t] = new]
  BY <1>1, <1>2
<1> HIDE DEF new, back
<1>8. Steady' /\ call' \in [Callers -> CallRec] /\ iter' \in [Callers -> Iterator] /\ Lock!TypeOK'
  BY <1>1, <1>3, <1>5, <1>6, <1>7, OthersSteady
<1>9. QED
  BY <1>1, <1>2, <1>4, <1>8, TypedAfter

LEMMA NewEntryTyped ==
    ASSUME BanTypeOK, Steady, NEW t \in Callers, NEW n \in Nodes, BanNewEntry(t, n)
    PROVE  BanTypeOK' /\ Steady' /\ LockStill
<1> DEFINE old == iter[t]
           new == [call[t] EXCEPT !.pc = "link", !.node = n]
           fresh == [ip |-> call[t].ip, age |-> 0]
<1>1. /\ call' = [call EXCEPT ![t].pc = "link", ![t].node = n] /\ UNCHANGED iter /\ call[t].pc = "insert"
      /\ entry' = [entry EXCEPT ![n] = fresh] /\ UNCHANGED <<vList, known, members>> /\ LockStill
  BY DEF BanNewEntry, lockVars, LockStill
<1>2. /\ vList \in List /\ entry \in [Nodes -> EntryRec] /\ known \in [Callers -> SUBSET Nodes]
      /\ members \in SUBSET Nodes /\ call[t] \in CallRec /\ old \in Iterator
      /\ call \in [Callers -> CallRec] /\ iter \in [Callers -> Iterator] /\ call[t].ip \in Address
      /\ BanTime \in Nat /\ MaxLag \in Nat
  BY BanTyped
<1>3. new \in CallRec /\ new.pc = "link" /\ new.node = n /\ new.ip = call[t].ip /\ call[t].ip \in Addresses /\ old.cur = Null
  BY <1>1, <1>2 DEF CallRec, Steady, Ref
<1>4. call' = [call EXCEPT ![t] = new] /\ iter' = [iter EXCEPT ![t] = old]
  BY <1>1, <1>2
<1>5. fresh \in EntryRec
  BY <1>2 DEF EntryRec
<1> HIDE DEF old, new, fresh
<1>6. entry' \in [Nodes -> EntryRec]
  BY <1>1, <1>2, <1>5
<1>7. UNCHANGED <<mayRead, orderly, writelock, readlock, mode>> /\ old \in Iterator
  BY <1>1, <1>2 DEF LockStill
<1>8. Steady' /\ call' \in [Callers -> CallRec] /\ iter' \in [Callers -> Iterator] /\ Lock!TypeOK'
  BY <1>3, <1>4, <1>7, OthersSteady
<1>9. QED
  BY <1>1, <1>2, <1>6, <1>8, TypedAfter DEF LockStill

LEMMA LinkTyped ==
    ASSUME BanTypeOK, Steady, NEW t \in Callers, BanLink(t)
    PROVE  BanTypeOK' /\ Steady' /\ Watched
<1>1. /\ call' = [call EXCEPT ![t] = NoCall] /\ iter' = [iter EXCEPT ![t] = NewIter(EmptyList)]
      /\ known' = [known EXCEPT ![t] = {}] /\ UNCHANGED entry /\ call[t].pc = "link"
      /\ vList' = Inserted(vList, iter[t], call[t].node) /\ members' = members \cup {call[t].node}
      /\ Watched /\ Unlocking(t)
  BY DEF BanLink, Returned, HasWritten, Unlocking
<1>2. /\ vList \in List /\ entry \in [Nodes -> EntryRec] /\ known \in [Callers -> SUBSET Nodes]
      /\ members \in SUBSET Nodes /\ call[t].node \in Ref /\ iter[t] \in Iterator
  BY BanTyped
<1>3. vList' = Appended(vList, call[t].node) /\ call[t].node \in Nodes
  BY <1>1 DEF Inserted, Steady
<1>4. NewIter(EmptyList) \in Iterator /\ NewIter(EmptyList).cur = Null /\ NoCall \in CallRec /\ NoCall.pc = "idle"
  BY Beginning
<1>5. Steady' /\ call' \in [Callers -> CallRec] /\ iter' \in [Callers -> Iterator] /\ Lock!TypeOK'
  BY <1>1, <1>4, OthersSteady
<1>6. known' \in [Callers -> SUBSET Nodes]
  BY <1>1, <1>2
<1>7. vList' \in List /\ members' \subseteq Nodes
  BY <1>1, <1>2, <1>3, FunctionsTyped
<1>8. QED
  BY <1>1, <1>2, <1>5, <1>6, <1>7, TypedAfter

LEMMA ReturnTyped ==
    ASSUME BanTypeOK, Steady, NEW t \in Callers, BanReturn(t)
    PROVE  BanTypeOK' /\ Steady' /\ LockStill
<1>1. /\ call' = [call EXCEPT ![t] = NoCall] /\ iter' = [iter EXCEPT ![t] = NewIter(EmptyList)]
      /\ known' = [known EXCEPT ![t] = {}] /\ UNCHANGED <<vList, entry, members>> /\ LockStill
  BY DEF BanReturn, Returned, lockVars, LockStill
<1>2. /\ vList \in List /\ entry \in [Nodes -> EntryRec] /\ known \in [Callers -> SUBSET Nodes]
      /\ members \in SUBSET Nodes
  BY BanTyped
<1>3. NewIter(EmptyList) \in Iterator /\ NewIter(EmptyList).cur = Null /\ NoCall \in CallRec /\ NoCall.pc = "idle"
  BY Beginning
<1>4. UNCHANGED <<mayRead, orderly, writelock, readlock, mode>>
  BY <1>1 DEF LockStill
<1>5. Steady' /\ call' \in [Callers -> CallRec] /\ iter' \in [Callers -> Iterator] /\ Lock!TypeOK'
  BY <1>1, <1>3, <1>4, OthersSteady
<1>6. known' \in [Callers -> SUBSET Nodes]
  BY <1>1, <1>2
<1>7. QED
  BY <1>1, <1>2, <1>5, <1>6, TypedAfter DEF LockStill

\* Time goes on: entries get older, calls later, and nothing else.
LEMMA Ticked ==
    ASSUME BanTypeOK, BanTick
    PROVE  /\ entry' \in [Nodes -> EntryRec] /\ call' \in [Callers -> CallRec]
           /\ \A n \in Nodes : /\ entry'[n].ip = entry[n].ip /\ entry[n].age \in Nat /\ entry'[n].age \in Nat
                               /\ entry'[n].age >= entry[n].age
           /\ \A t \in Callers : /\ call'[t].pc = call[t].pc /\ call'[t].ip = call[t].ip
                                 /\ call'[t].result = call[t].result /\ call'[t].node = call[t].node
           /\ UNCHANGED <<vList, iter, known, members>> /\ LockStill
<1>1. /\ \A t \in Callers : call[t].pc # "idle" => call[t].lag < MaxLag
      /\ entry' = [n \in Nodes |-> IF n \in Used /\ InTime(n, MaxLag) THEN [entry[n] EXCEPT !.age = @ + 1]
                                   ELSE entry[n]]
      /\ call' = [t \in Callers |-> IF call[t].pc = "idle" THEN call[t] ELSE [call[t] EXCEPT !.lag = @ + 1]]
      /\ UNCHANGED <<vList, iter, known, members>> /\ LockStill
  BY DEF BanTick, lockVars, LockStill
<1>2. entry \in [Nodes -> EntryRec] /\ call \in [Callers -> CallRec] /\ BanTime \in Nat /\ MaxLag \in Nat
  BY BanTyped
<1>3. ASSUME NEW n \in Nodes
      PROVE  /\ entry'[n] \in EntryRec /\ entry'[n].ip = entry[n].ip
             /\ entry[n].age \in Nat /\ entry'[n].age \in Nat /\ entry'[n].age >= entry[n].age
  <2>1. entry[n] \in EntryRec /\ entry[n].age \in Nat
    BY <1>2 DEF EntryRec
  <2>2. CASE n \in Used /\ InTime(n, MaxLag)
    <3>1. entry'[n] = [entry[n] EXCEPT !.age = @ + 1]
      BY <1>1, <2>2
    <3>2. entry[n].age < BanTime + MaxLag
      BY <2>2 DEF InTime
    <3>3. entry[n].age + 1 \in 0..(BanTime + MaxLag)
      BY <1>2, <2>1, <3>2
    <3>4. entry'[n] \in EntryRec /\ entry'[n].ip = entry[n].ip /\ entry'[n].age = entry[n].age + 1
      BY <2>1, <3>1, <3>3 DEF EntryRec
    <3>5. QED
      BY <2>1, <3>4
  <2>3. CASE ~(n \in Used /\ InTime(n, MaxLag))
    <3>1. entry'[n] = entry[n]
      BY <1>1, <2>3
    <3>2. QED
      BY <2>1, <3>1
  <2>4. QED
    BY <2>2, <2>3
<1>4. ASSUME NEW t \in Callers
      PROVE  /\ call'[t] \in CallRec /\ call'[t].pc = call[t].pc /\ call'[t].ip = call[t].ip
             /\ call'[t].result = call[t].result /\ call'[t].node = call[t].node
  <2>1. call[t] \in CallRec /\ call[t].lag \in Nat
    BY <1>2 DEF CallRec
  <2>2. CASE call[t].pc = "idle"
    BY <1>1, <2>1, <2>2
  <2>3. CASE call[t].pc # "idle"
    <3>1. call'[t] = [call[t] EXCEPT !.lag = @ + 1] /\ call[t].lag < MaxLag
      BY <1>1, <2>3
    <3>2. call[t].lag + 1 \in 0..MaxLag
      BY <1>2, <2>1, <3>1
    <3>3. QED
      BY <2>1, <3>1, <3>2 DEF CallRec
  <2>4. QED
    BY <2>2, <2>3
<1>5. entry' \in [Nodes -> EntryRec] /\ call' \in [Callers -> CallRec]
  BY <1>1, <1>3, <1>4
<1>6. QED
  BY <1>1, <1>3, <1>4, <1>5

LEMMA TickTyped ==
    ASSUME BanTypeOK, Steady, BanTick
    PROVE  BanTypeOK' /\ Steady' /\ LockStill
<1>1. /\ entry' \in [Nodes -> EntryRec] /\ call' \in [Callers -> CallRec]
      /\ \A t \in Callers : /\ call'[t].pc = call[t].pc /\ call'[t].ip = call[t].ip /\ call'[t].node = call[t].node
      /\ UNCHANGED <<vList, iter, known, members>> /\ LockStill
  BY Ticked
<1>2. Steady'
  BY <1>1 DEF Steady, LockStill
<1>3. Lock!TypeOK'
  BY <1>1, BanTyped DEF LockStill, Lock!TypeOK
<1>4. QED
  BY <1>1, <1>2, <1>3, BanTyped, TypedAfter DEF LockStill

\* While somebody has the list for writing, nobody else has it.
LEMMA Alone ==
    ASSUME Lock!TypeOK, Lock!Exclusive, NEW t \in Callers, mode[t] = "holdW"
    PROVE  \A u \in Callers : u # t => mode[u] \notin {"holdR", "holdW"}
BY DEF Lock!Exclusive, Lock!Holders, Lock!In

\* As long as nothing is mixed, the lock excludes: that is what mixed records.
LEMMA Unmixed ==
    ASSUME mixed \in BOOLEAN, LockStill \/ Watched, ~mixed => Lock!Exclusive, ~mixed'
    PROVE  ~mixed /\ Lock!Exclusive'
<1>1. CASE LockStill
  BY <1>1 DEF LockStill, Lock!Exclusive, Lock!Holders, Lock!In
<1>2. CASE Watched
  BY <1>2 DEF Watched
<1>3. QED
  BY <1>1, <1>2

(***************************************************************************)
(* What holds as long as nothing is mixed, step by step.                    *)
(***************************************************************************)

\* A call begins.
LEMMA StepCall ==
    ASSUME BanTypeOK, Steady, Kept, NEW t \in Callers, NEW ip \in Addresses, NEW add \in BOOLEAN, BanCall(t, ip, add)
    PROVE  Kept'
<1> DEFINE new == [NoCall EXCEPT !.pc = "walk", !.ip = ip, !.add = add]
<1>1. /\ call[t].pc = "idle" /\ call' = [call EXCEPT ![t] = new] /\ iter' = [iter EXCEPT ![t] = NewIter(vList)]
      /\ known' = [known EXCEPT ![t] = {n \in members : entry[n].ip = ip}]
      /\ UNCHANGED <<vList, entry, members>>
  BY DEF BanCall
<1>2. /\ vList \in List /\ vList.version \in Nat /\ members \in SUBSET Nodes
      /\ entry \in [Nodes -> EntryRec] /\ iter \in [Callers -> Iterator]
      /\ call \in [Callers -> CallRec] /\ known \in [Callers -> SUBSET Nodes]
  BY BanTyped
<1>3. new \in CallRec /\ new.pc = "walk" /\ new.ip = ip /\ new.result = FALSE
  BY Beginning DEF NoCall, CallRec, Address
<1>4. /\ NewIter(vList) \in Iterator /\ NewIter(vList).cur = Null /\ NewIter(vList).prv = Null
      /\ NewIter(vList).version = vList.version
  BY <1>2, Beginning
<1> HIDE DEF new
<1>5. /\ \A u \in Callers : u # t => call'[u] = call[u] /\ iter'[u] = iter[u] /\ known'[u] = known[u]
      /\ call'[t] = new /\ iter'[t] = NewIter(vList) /\ known'[t] = {n \in members : entry[n].ip = ip}
  BY <1>1, <1>2
<1>6. Row'
  BY <1>1 DEF Kept, Row
<1>7. Untouched'
  <2>1. Used' = Used
    BY <1>1 DEF Used
  <2>2. Fresh' = Fresh
    BY <1>1, <1>3, <1>5, <2>1 DEF Fresh
  <2>3. \A n \in Fresh : n # Null
    BY NullAssumption DEF Fresh
  <2>4. ASSUME NEW n \in Fresh, NEW u \in Callers PROVE iter'[u].cur # n /\ n \notin known'[u]
    BY <1>4, <1>5, <2>3, <2>4 DEF Kept, Untouched
  <2>5. ASSUME NEW u \in Callers, call'[u].pc = "link" PROVE call'[u] = call[u]
    BY <1>3, <1>5, <2>5
  <2>6. QED
    BY <1>1, <2>1, <2>2, <2>4, <2>5 DEF Kept, Untouched
<1>8. Iterators'
  <2>1. \A u \in Callers : u # t => Placed(u)' = Placed(u)
    BY <1>1, <1>5 DEF Placed, PlacedAs
  <2>2. Placed(t)' = NewIter(vList)
    BY <1>3, <1>5 DEF Placed, PlacedAs
  <2>3. QED
    BY <1>1, <1>2, <1>3, <1>4, <1>5, <2>1, <2>2 DEF Kept, Iterators, Fit
<1>9. Watching'
  <2>1. SUFFICES ASSUME NEW u \in Callers, NEW n \in known'[u]
                 PROVE  /\ call'[u].pc # "idle" /\ entry[n].ip = call'[u].ip
                        /\ entry[n].age < BanTime =>
                             /\ n \in members
                             /\ ~call'[u].result => call'[u].pc \in Walking /\ n \in ToCome(u)'
    BY <1>1 DEF Watching
  <2>2. CASE u = t
    <3>1. n \in members /\ entry[n].ip = ip
      BY <1>5, <2>1, <2>2
    <3>2. Null \notin Linked(vList) /\ Linked(vList) = members
      BY <1>2, ListParts DEF Kept, Row
    <3>3. n \in Ahead(vList, iter'[u])
      BY <1>4, <1>5, <2>2, <3>1, <3>2 DEF Ahead
    <3>4. QED
      BY <1>1, <1>3, <1>5, <2>2, <3>1, <3>3 DEF ToCome, ToComeAs, Walking
  <2>3. CASE u # t
    <3>1. call'[u] = call[u] /\ ToCome(u)' = ToCome(u) /\ n \in known[u]
      BY <1>1, <1>5, <2>1, <2>3 DEF ToCome, ToComeAs
    <3>2. QED
      BY <3>1 DEF Kept, Watching
  <2>4. QED
    BY <2>2, <2>3
<1>10. QED
  BY <1>6, <1>7, <1>8, <1>9 DEF Kept

\* Where a step of a walk, which changes neither the list nor the entries, may lead.
Onward(t, c, it) ==
    /\ call[t].pc \in Walking /\ c.pc # "link" /\ c.pc # "idle" /\ c.ip = call[t].ip
    /\ it.version <= vList.version /\ Fit(vList, PlacedAs(c, it))
    /\ it.cur = iter[t].cur \/ it.cur \in Linked(vList) \cup {Null}
    /\ c.pc = "walk" /\ it.version = vList.version /\ it.cur = Null => it.prv = Null
    /\ c.pc \in {"remove", "unlink"} => entry[it.cur].age >= BanTime
    /\ c.pc = "unlink" => it.cur \in Linked(vList) /\ Preceding(vList, c.node, it.cur)
    /\ call[t].result => c.result
    /\ \A n \in members : entry[n].age < BanTime /\ entry[n].ip = c.ip /\ ~c.result /\ n \in ToCome(t)
                             => c.pc \in Walking /\ n \in ToComeAs(c, it)

LEMMA Walked ==
    ASSUME BanTypeOK, Steady, Kept, NEW t \in Callers, NEW c \in CallRec, NEW it \in Iterator,
           call' = [call EXCEPT ![t] = c], iter' = [iter EXCEPT ![t] = it],
           UNCHANGED <<vList, entry, known, members>>, Onward(t, c, it)
    PROVE  Kept'
<1>1. /\ call \in [Callers -> CallRec] /\ iter \in [Callers -> Iterator] /\ Linked(vList) = members
  BY BanTyped DEF Kept, Row
<1>2. /\ call'[t] = c /\ iter'[t] = it
      /\ \A u \in Callers : u # t => call'[u] = call[u] /\ iter'[u] = iter[u]
  BY <1>1
<1>3. /\ \A u \in Callers : u # t => Placed(u)' = Placed(u) /\ ToCome(u)' = ToCome(u)
      /\ Placed(t)' = PlacedAs(c, it) /\ ToCome(t)' = ToComeAs(c, it)
  BY <1>2 DEF Placed, PlacedAs, ToCome, ToComeAs
<1>4. Row'
  BY DEF Kept, Row
<1>5. Untouched'
  <2>1. Used' = Used
    BY DEF Used
  <2>2. \A u \in Callers : call'[u].pc = "link" <=> call[u].pc = "link" /\ u # t
    BY <1>2 DEF Walking, Onward
  <2>3. Fresh' = Fresh
    BY <1>2, <2>1, <2>2 DEF Fresh, Walking, Onward
  <2>4. ASSUME NEW n \in Fresh, NEW u \in Callers PROVE iter'[u].cur # n
    <3>1. n # Null /\ n \notin members /\ \A v \in Callers : iter[v].cur # n
      BY NullAssumption DEF Kept, Untouched, Fresh
    <3>2. QED
      BY <1>1, <1>2, <3>1 DEF Onward
  <2>5. ASSUME NEW u \in Callers, call'[u].pc = "link" PROVE call'[u] = call[u]
    BY <1>2, <2>2, <2>5
  <2>6. QED
    BY <2>1, <2>3, <2>4, <2>5 DEF Kept, Untouched
<1>6. Iterators'
  <2>1. SUFFICES ASSUME NEW u \in Callers
                 PROVE  /\ iter'[u].version <= vList.version /\ Fit(vList, Placed(u)')
                        /\ call'[u].pc = "walk" /\ iter'[u].version = vList.version /\ iter'[u].cur = Null
                              => iter'[u].prv = Null
                        /\ call'[u].pc \in {"remove", "unlink"} => entry[iter'[u].cur].age >= BanTime
                        /\ call'[u].pc = "unlink" => /\ iter'[u].cur \in Linked(vList)
                                                     /\ Preceding(vList, call'[u].node, iter'[u].cur)
    BY DEF Iterators
  <2>2. CASE u = t
    BY <1>2, <1>3, <2>2 DEF Onward
  <2>3. CASE u # t
    BY <1>2, <1>3, <2>3 DEF Kept, Iterators
  <2>4. QED
    BY <2>2, <2>3
<1>7. Watching'
  <2>1. SUFFICES ASSUME NEW u \in Callers, NEW n \in known[u]
                 PROVE  /\ call'[u].pc # "idle" /\ entry[n].ip = call'[u].ip
                        /\ entry[n].age < BanTime =>
                             /\ n \in members
                             /\ ~call'[u].result => call'[u].pc \in Walking /\ n \in ToCome(u)'
    BY DEF Watching
  <2>2. /\ call[u].pc # "idle" /\ entry[n].ip = call[u].ip
        /\ entry[n].age < BanTime =>
             /\ n \in members
             /\ ~call[u].result => call[u].pc \in Walking /\ n \in ToCome(u)
    BY <2>1 DEF Kept, Watching
  <2>3. CASE u = t
    BY <1>2, <1>3, <2>2, <2>3 DEF Onward, Walking
  <2>4. CASE u # t
    BY <1>2, <1>3, <2>2, <2>4
  <2>5. QED
    BY <2>3, <2>4
<1>8. QED
  BY <1>4, <1>5, <1>6, <1>7 DEF Kept

\* A walk whose list has changed finds its place.
LEMMA StepSearch ==
    ASSUME BanTypeOK, Steady, Kept, NEW t \in Callers, BanSearch(t)
    PROVE  Kept'
<1> DEFINE it == IterSearch(vList, iter[t])
           c == [call[t] EXCEPT !.pc = "found"]
<1>1. /\ call' = [call EXCEPT ![t] = c] /\ iter' = [iter EXCEPT ![t] = it] /\ call[t].pc = "walk"
      /\ UNCHANGED <<vList, entry, known, members>>
  BY DEF BanSearch
<1>2. vList \in List /\ iter[t] \in Iterator /\ call[t] \in CallRec
  BY BanTyped
<1>3. c \in CallRec /\ c.pc = "found" /\ c.ip = call[t].ip /\ c.result = call[t].result
  BY <1>2 DEF CallRec
<1>4. /\ it \in Iterator /\ Fit(vList, [it EXCEPT !.version = vList.version]) /\ it.version = iter[t].version
      /\ Ahead(vList, iter[t]) = WalkFrom(vList.nxt, it.cur)
  BY <1>2, IterSearched
<1>5. iter[t].version <= vList.version
  BY DEF Kept, Iterators
<1>6. it.cur \in Linked(vList) \cup {Null}
  BY <1>4 DEF Fit, Iterator
<1>7. ToCome(t) = Ahead(vList, iter[t])
  BY <1>1 DEF ToCome, ToComeAs
<1> HIDE DEF it, c
<1>8. ToComeAs(c, it) = ToCome(t) /\ Fit(vList, PlacedAs(c, it))
  BY <1>3, <1>4, <1>7 DEF ToComeAs, PlacedAs
<1>9. Onward(t, c, it)
  BY <1>1, <1>3, <1>4, <1>5, <1>6, <1>8 DEF Onward, Walking
<1>10. QED
  BY <1>1, <1>3, <1>4, <1>9, Walked

\* The walk goes on: what it passes is out of time, or of another address, or the result.
LEMMA StepNext ==
    ASSUME BanTypeOK, Steady, Kept, NEW t \in Callers, BanNext(t)
    PROVE  Kept'
<1> DEFINE it == NextIter(t)
           c == NextCall(t)
<1>1. /\ call[t].pc = "found" \/ (call[t].pc = "walk" /\ iter[t].version = vList.version)
      /\ iter' = [iter EXCEPT ![t] = it] /\ call' = [call EXCEPT ![t] = c]
      /\ UNCHANGED <<vList, entry, known, members>>
      /\ it \in Iterator /\ c \in CallRec /\ c.ip = call[t].ip
      /\ c.pc \in {"walk", "remove", "insert", "return"}
      /\ it.cur = Null => c.pc \in {"insert", "return"} /\ c.result = call[t].result
      /\ it.cur # Null =>
            \/ c.pc = "remove" /\ ~InTime(it.cur, call[t].lag) /\ c.result = call[t].result
            \/ c.pc = "walk" /\ c.result = (call[t].result \/ entry[it.cur].ip = call[t].ip)
  BY NextParts
<1>2. /\ vList \in List /\ vList.version \in Nat /\ vList.nxt \in Pointing /\ Linked(vList) = members
      /\ members \subseteq Nodes /\ Null \notin members
      /\ iter[t] \in Iterator /\ call[t].lag \in Nat /\ call[t].result \in BOOLEAN
      /\ BanTime \in Nat /\ \A n \in Nodes : entry[n].age \in Nat
  BY BanTyped, ListParts DEF Kept, Row
<1>3. Fit(vList, it) /\ it.version = vList.version /\ it.cur \in members \cup {Null}
      /\ ToCome(t) = WalkFrom(vList.nxt, it.cur)
  <2>1. CASE call[t].pc = "found"
    <3>1. it = [iter[t] EXCEPT !.version = vList.version] /\ Placed(t) = it
      BY <2>1 DEF NextIter, Placed, PlacedAs
    <3>2. it.cur = iter[t].cur /\ it.version = vList.version /\ it.cur \in Ref
      BY <1>2, <3>1 DEF Iterator
    <3>3. Fit(vList, it)
      BY <3>1 DEF Kept, Iterators
    <3>4. QED
      BY <1>2, <2>1, <3>2, <3>3 DEF ToCome, ToComeAs, Fit
  <2>2. CASE call[t].pc = "walk"
    <3>1. /\ it = IterStep(vList, iter[t]) /\ Placed(t) = iter[t] /\ ToCome(t) = Ahead(vList, iter[t])
          /\ iter[t].version = vList.version
      BY <1>1, <2>2 DEF NextIter, Placed, PlacedAs, ToCome, ToComeAs
    <3>2. Fit(vList, iter[t]) /\ (iter[t].cur = Null => iter[t].prv = Null)
      BY <2>2, <3>1 DEF Kept, Iterators
    <3>3. QED
      BY <1>2, <3>1, <3>2, Stepped
  <2>3. QED
    BY <1>1, <2>1, <2>2
<1> HIDE DEF it, c
<1>4. c.pc = "remove" => it.cur # Null /\ entry[it.cur].age >= BanTime
  <2>1. SUFFICES ASSUME c.pc = "remove" PROVE it.cur # Null /\ entry[it.cur].age >= BanTime
    OBVIOUS
  <2>2. it.cur # Null /\ ~InTime(it.cur, call[t].lag)
    BY <1>1, <2>1
  <2>3. entry[it.cur].age \in Nat
    BY <1>2, <1>3, <2>2
  <2>4. QED
    BY <1>2, <2>2, <2>3 DEF InTime
<1>5. ASSUME NEW n \in members, entry[n].age < BanTime, entry[n].ip = c.ip, ~c.result, n \in ToCome(t)
      PROVE  c.pc \in Walking /\ n \in Ahead(vList, it)
  <2>1. it.cur # Null
    BY <1>2, <1>3, <1>5, WalkFromNull
  <2>2. it.cur \in members /\ it.cur \in Nodes
    BY <1>2, <1>3, <2>1
  <2>3. n # it.cur
    <3>1. CASE c.pc = "remove"
      BY <1>2, <1>4, <1>5, <2>2, <3>1
    <3>2. CASE c.pc # "remove"
      BY <1>1, <1>5, <2>1, <3>2
    <3>3. QED
      BY <3>1, <3>2
  <2>4. n \in WalkFrom(vList.nxt, vList.nxt[it.cur])
    BY <1>2, <1>3, <1>5, <2>2, <2>3, WalkUnfolds
  <2>5. QED
    BY <1>1, <1>2, <2>1, <2>2, <2>4 DEF Ahead, Walking
<1>6. it.version <= vList.version /\ c.pc # "found" /\ c.pc # "unlink" /\ c.pc # "link" /\ c.pc # "idle"
      /\ (c.pc = "walk" => it.cur # Null) /\ (call[t].result => c.result) /\ call[t].pc \in Walking
  BY <1>1, <1>2, <1>3 DEF Walking
<1>7. ToComeAs(c, it) = Ahead(vList, it) /\ PlacedAs(c, it) = it
  BY <1>6 DEF ToComeAs, PlacedAs
<1>8. Onward(t, c, it)
  BY <1>1, <1>2, <1>3, <1>4, <1>5, <1>6, <1>7 DEF Onward
<1>9. QED
  BY <1>1, <1>8, Walked

\* The node before the one to remove is found.
LEMMA StepSeek ==
    ASSUME BanTypeOK, Steady, Kept, NEW t \in Callers, BanSeek(t)
    PROVE  Kept'
<1> DEFINE it == iter[t]
           c == [call[t] EXCEPT !.pc = "unlink", !.node = Prv(vList, it)]
<1>1. /\ call' = [call EXCEPT ![t].pc = "unlink", ![t].node = Prv(vList, it)] /\ UNCHANGED iter
      /\ UNCHANGED <<vList, entry, known, members>> /\ call[t].pc = "remove" /\ ~Gone(vList, it)
  BY DEF BanSeek
<1>2. /\ vList \in List /\ it \in Iterator /\ call[t] \in CallRec
      /\ call \in [Callers -> CallRec] /\ iter \in [Callers -> Iterator]
  BY BanTyped
<1>3. /\ it.cur # Null /\ Fit(vList, it) /\ it.version <= vList.version /\ entry[it.cur].age >= BanTime
      /\ ToCome(t) = Ahead(vList, it)
  BY <1>1 DEF Steady, Kept, Iterators, Placed, PlacedAs, ToCome, ToComeAs
<1>4. it.cur \in Linked(vList) /\ Preceding(vList, Prv(vList, it), it.cur)
  BY <1>1, <1>2, <1>3, Sought
<1>5. Prv(vList, it) \in Ref
  BY <1>2, <1>3, FunctionsTyped
<1>6. c \in CallRec /\ c.pc = "unlink" /\ c.node = Prv(vList, it) /\ c.ip = call[t].ip /\ c.result = call[t].result
  BY <1>2, <1>5 DEF CallRec
<1>7. call' = [call EXCEPT ![t] = c] /\ iter' = [iter EXCEPT ![t] = it]
  BY <1>1, <1>2
<1>8. iter[t].cur = it.cur
  OBVIOUS
<1> HIDE DEF it, c
<1>9. ToComeAs(c, it) = Ahead(vList, it) /\ PlacedAs(c, it) = it
  BY <1>6 DEF ToComeAs, PlacedAs
<1>10. UNCHANGED <<vList, entry, known, members>> /\ call[t].pc = "remove"
  BY <1>1
<1>11. Onward(t, c, it)
  BY <1>3, <1>4, <1>6, <1>8, <1>9, <1>10 DEF Onward, Walking
<1>12. QED
  BY <1>2, <1>6, <1>7, <1>10, <1>11, Walked

\* Somebody else has removed the node.
LEMMA StepGone ==
    ASSUME BanTypeOK, Steady, Kept, NEW t \in Callers, BanGone(t)
    PROVE  Kept'
<1> DEFINE it == iter[t]
           c == [call[t] EXCEPT !.pc = "walk"]
<1>1. /\ call' = [call EXCEPT ![t].pc = "walk"] /\ UNCHANGED iter
      /\ UNCHANGED <<vList, entry, known, members>> /\ call[t].pc = "remove"
  BY DEF BanGone
<1>2. /\ it \in Iterator /\ call[t] \in CallRec
      /\ call \in [Callers -> CallRec] /\ iter \in [Callers -> Iterator]
  BY BanTyped
<1>3. /\ it.cur # Null /\ Fit(vList, it) /\ it.version <= vList.version
      /\ ToCome(t) = Ahead(vList, it)
  BY <1>1 DEF Steady, Kept, Iterators, Placed, PlacedAs, ToCome, ToComeAs
<1>4. c \in CallRec /\ c.pc = "walk" /\ c.ip = call[t].ip /\ c.result = call[t].result
  BY <1>2 DEF CallRec
<1>5. call' = [call EXCEPT ![t] = c] /\ iter' = [iter EXCEPT ![t] = it]
  BY <1>1, <1>2
<1>6. iter[t].cur = it.cur
  OBVIOUS
<1> HIDE DEF it, c
<1>7. ToComeAs(c, it) = Ahead(vList, it) /\ PlacedAs(c, it) = it
  BY <1>4 DEF ToComeAs, PlacedAs
<1>8. UNCHANGED <<vList, entry, known, members>> /\ call[t].pc = "remove"
  BY <1>1
<1>9. Onward(t, c, it)
  BY <1>3, <1>4, <1>6, <1>7, <1>8 DEF Onward, Walking
<1>10. QED
  BY <1>2, <1>4, <1>5, <1>8, <1>9, Walked

\* An entry out of time is taken out: nobody else waits for it, and everybody keeps the
\* others ahead.
LEMMA StepUnlink ==
    ASSUME BanTypeOK, Steady, Kept, Lock!Exclusive, NEW t \in Callers, BanUnlink(t)
    PROVE  Kept'
<1> DEFINE old == iter[t]
           del == old.cur
           prv == call[t].node
           it == IterBack(vList', del, prv)
           new == [call[t] EXCEPT !.pc = "walk", !.node = Null]
<1>1. /\ call[t].pc = "unlink" /\ call' = [call EXCEPT ![t].pc = "walk", ![t].node = Null]
      /\ iter' = [iter EXCEPT ![t] = it]
      /\ vList' = Unlinked(vList, del, prv) /\ members' = members \ {del}
      /\ UNCHANGED <<entry, known>> /\ mode[t] = "holdW"
  BY DEF BanUnlink, HasWritten
<1>2. /\ vList \in List /\ vList.version \in Nat /\ members \in SUBSET Nodes
      /\ entry \in [Nodes -> EntryRec] /\ iter \in [Callers -> Iterator]
      /\ call \in [Callers -> CallRec] /\ known \in [Callers -> SUBSET Nodes]
      /\ call[t] \in CallRec /\ old \in Iterator /\ BanTime \in Nat
      /\ \A n \in Nodes : entry[n].age \in Nat
      /\ \A u \in Callers : iter[u] \in Iterator /\ iter[u].version \in Nat
      /\ Lock!TypeOK
  BY BanTyped
<1>3. /\ Linked(vList) = members /\ Whole(vList) /\ del \in members /\ del # Null
      /\ Preceding(vList, prv, del) /\ entry[del].age >= BanTime
  BY <1>1 DEF Kept, Row, Iterators, Steady
<1>4. del \in Nodes /\ entry[del].age \in Nat
  BY <1>2, <1>3
<1>5. old.cur = del /\ it = IterBack(vList', del, prv)
  OBVIOUS
<1> HIDE DEF it, del, prv, old
<1>6. old = iter[t]
  BY DEF old
<1>7. /\ it \in Iterator /\ vList' \in List /\ Whole(vList') /\ Linked(vList') = members \ {del}
      /\ vList'.version = vList.version + 1 /\ it.version = vList'.version
      /\ Fit(vList', it) /\ (it.cur = Null => it.prv = Null)
      /\ it.cur \in members \cup {Null}
      /\ Ahead(vList, old) \ {del} \subseteq Ahead(vList', it)
      /\ \A i \in Iterator : Ahead(vList, i) \cap (members \ {del}) \subseteq Ahead(vList', i)
      /\ \A m \in Nodes \ members : vList'.nxt[m] = vList.nxt[m]
  <2>1. vList \in List /\ Whole(vList) /\ old \in Iterator /\ del \in Linked(vList) /\ Preceding(vList, prv, del)
        /\ vList' = Unlinked(vList, del, prv)
    BY <1>1, <1>2, <1>3
  <2>2. TakenOut(vList, old, del, vList', it)
    BY <1>5, <2>1, SteppedBack
  <2>3. QED
    BY <1>3, <2>2 DEF TakenOut
<1>8. new \in CallRec /\ new.pc = "walk" /\ new.ip = call[t].ip /\ new.result = call[t].result
  BY <1>2 DEF CallRec, Ref
<1>9. call' = [call EXCEPT ![t] = new]
  BY <1>1, <1>2
<1> HIDE DEF new
<1>10. /\ \A u \in Callers : u # t => call'[u] = call[u] /\ iter'[u] = iter[u]
       /\ call'[t] = new /\ iter'[t] = it
  BY <1>1, <1>2, <1>9
<1>11. \A u \in Callers : u # t => call[u].pc \notin {"found", "unlink"}
  BY <1>1, <1>2, Alone DEF Steady
<1>12. Row'
  BY <1>1, <1>7 DEF Row
<1>13. Untouched'
  <2>1. Used' = Used
    BY <1>1 DEF Used
  <2>2. \A u \in Callers : call'[u].pc = "link" <=> call[u].pc = "link" /\ u # t
    BY <1>1, <1>8, <1>10
  <2>3. Fresh' = Fresh
    BY <1>1, <1>10, <2>1, <2>2, ZenonT(60) DEF Fresh
  <2>4. ASSUME NEW n \in Fresh
        PROVE  /\ n \notin members' /\ vList'.nxt[n] = Null
               /\ \A u \in Callers : iter'[u].cur # n /\ n \notin known[u]
    <3>1. n # Null /\ n \in Nodes /\ n \notin members /\ vList.nxt[n] = Null
          /\ \A u \in Callers : iter[u].cur # n /\ n \notin known[u]
      BY NullAssumption DEF Kept, Untouched, Fresh
    <3>2. QED
      BY <1>1, <1>7, <1>10, <3>1
  <2>5. ASSUME NEW u \in Callers, call'[u].pc = "link" PROVE call'[u] = call[u]
    BY <1>10, <2>2, <2>5
  <2>6. /\ \A u, v \in Callers : call'[u].pc = "link" /\ call'[v].pc = "link" /\ call'[u].node = call'[v].node => u = v
        /\ \A u \in Callers : call'[u].pc = "link" => call'[u].node \in Used'
    BY <2>1, <2>5 DEF Kept, Untouched
  <2>7. QED
    BY <1>1, <2>3, <2>4, <2>6 DEF Untouched
<1>14. Iterators'
  <2>1. SUFFICES ASSUME NEW u \in Callers
                 PROVE  /\ iter'[u].version <= vList'.version /\ Fit(vList', Placed(u)')
                        /\ call'[u].pc = "walk" /\ iter'[u].version = vList'.version /\ iter'[u].cur = Null
                              => iter'[u].prv = Null
                        /\ call'[u].pc \in {"remove", "unlink"} => entry[iter'[u].cur].age >= BanTime
                        /\ call'[u].pc = "unlink" => /\ iter'[u].cur \in Linked(vList')
                                                     /\ Preceding(vList', call'[u].node, iter'[u].cur)
    BY <1>1 DEF Iterators
  <2>2. CASE u = t
    <3>1. Placed(u)' = it
      BY <1>8, <1>10, <2>2 DEF Placed, PlacedAs
    <3>2. it.version <= vList'.version
      BY <1>2, <1>7
    <3>3. QED
      BY <1>7, <1>8, <1>10, <2>2, <3>1, <3>2
  <2>3. CASE u # t
    <3>1. /\ iter[u].version <= vList.version
          /\ call[u].pc \in {"remove", "unlink"} => entry[iter[u].cur].age >= BanTime
      BY DEF Kept, Iterators
    <3>2. iter[u].version <= vList'.version /\ iter[u].version # vList'.version
      BY <1>2, <1>7, <3>1
    <3>3. Placed(u)' = iter[u] /\ Fit(vList', iter[u])
      BY <1>10, <1>11, <2>3, <3>2 DEF Placed, PlacedAs, Fit
    <3>4. QED
      BY <1>10, <1>11, <2>3, <3>1, <3>2, <3>3
  <2>4. QED
    BY <2>2, <2>3
<1>15. Watching'
  <2>1. SUFFICES ASSUME NEW u \in Callers, NEW n \in known[u]
                 PROVE  /\ call'[u].pc # "idle" /\ entry[n].ip = call'[u].ip
                        /\ entry[n].age < BanTime =>
                             /\ n \in members'
                             /\ ~call'[u].result => call'[u].pc \in Walking /\ n \in ToCome(u)'
    BY <1>1 DEF Watching
  <2>2. /\ call[u].pc # "idle" /\ entry[n].ip = call[u].ip
        /\ entry[n].age < BanTime =>
             /\ n \in members
             /\ ~call[u].result => call[u].pc \in Walking /\ n \in ToCome(u)
    BY <2>1 DEF Kept, Watching
  <2>3. entry[n].age < BanTime => n # del
    BY <1>2, <1>3, <1>4
  <2>4. CASE u = t
    <3>1. ToCome(u) = Ahead(vList, old) /\ ToCome(u)' = Ahead(vList', it)
      BY <1>1, <1>8, <1>10, <2>4 DEF ToCome, ToComeAs, old
    <3>2. ~call[t].result /\ entry[n].age < BanTime => n \in Ahead(vList', it)
      BY <1>7, <2>2, <2>3, <2>4, <3>1
    <3>3. QED
      BY <1>1, <1>8, <1>10, <2>2, <2>3, <2>4, <3>1, <3>2 DEF Walking
  <2>5. CASE u # t
    <3>1. ToCome(u) = Ahead(vList, iter[u]) /\ ToCome(u)' = Ahead(vList', iter[u])
      BY <1>10, <1>11, <2>5 DEF ToCome, ToComeAs
    <3>2. ~call[u].result /\ entry[n].age < BanTime => n \in Ahead(vList', iter[u])
      BY <1>2, <1>7, <2>2, <2>3, <3>1
    <3>3. QED
      BY <1>1, <1>10, <2>2, <2>3, <2>5, <3>1, <3>2
  <2>6. QED
    BY <2>4, <2>5
<1>16. QED
  BY <1>12, <1>13, <1>14, <1>15 DEF Kept

\* A new entry, not in the list yet.
LEMMA StepNewEntry ==
    ASSUME BanTypeOK, Steady, Kept, NEW t \in Callers, NEW n \in Nodes, BanNewEntry(t, n)
    PROVE  Kept'
<1> DEFINE new == [call[t] EXCEPT !.pc = "link", !.node = n]
           fresh == [ip |-> call[t].ip, age |-> 0]
<1>1. /\ call[t].pc = "insert" /\ n \notin Used /\ call' = [call EXCEPT ![t].pc = "link", ![t].node = n]
      /\ entry' = [entry EXCEPT ![n] = fresh]
      /\ UNCHANGED <<vList, iter, known, members>>
  BY DEF BanNewEntry
<1>2. /\ vList \in List /\ members \in SUBSET Nodes
      /\ entry \in [Nodes -> EntryRec] /\ iter \in [Callers -> Iterator]
      /\ call \in [Callers -> CallRec] /\ known \in [Callers -> SUBSET Nodes]
      /\ call[t] \in CallRec /\ BanTime \in Nat /\ MaxLag \in Nat /\ call[t].ip \in Address
      /\ \A u \in Callers : iter[u].cur \in Ref
  BY BanTyped
<1>3. new \in CallRec /\ new.pc = "link" /\ new.node = n /\ new.ip = call[t].ip /\ new.result = call[t].result
  BY <1>2 DEF CallRec, Ref
<1>4. call' = [call EXCEPT ![t] = new]
  BY <1>1, <1>2
<1>5. fresh \in EntryRec /\ fresh.ip = call[t].ip
  BY <1>2 DEF EntryRec
<1>6. n \in Fresh
  BY <1>1 DEF Fresh
<1> HIDE DEF new, fresh
<1>7. /\ \A u \in Callers : u # t => call'[u] = call[u]
      /\ call'[t] = new
      /\ \A m \in Nodes : m # n => entry'[m] = entry[m]
      /\ entry'[n] = fresh
  BY <1>1, <1>2, <1>4
<1>8. /\ n \notin members /\ \A u \in Callers : iter[u].cur # n /\ n \notin known[u]
      /\ call[t].ip \in Addresses /\ call[t].ip # Null
  BY <1>1, <1>6, AddressesAssumption DEF Steady, Kept, Untouched, Iterators
<1>10. Row'
  BY <1>1 DEF Kept, Row
<1>11. Untouched'
  <2>1. Used' = Used \cup {n}
    BY <1>5, <1>7, <1>8 DEF Used
  <2>2. \A u \in Callers : call'[u].pc = "link" => (u = t /\ call'[u].node = n) \/ (u # t /\ call'[u] = call[u])
    BY <1>3, <1>7
  <2>3. Fresh' \subseteq Fresh
    BY <1>6, <2>1, <2>2 DEF Fresh
  <2>4. \A u \in Callers : call[u].pc = "link" => call[u].node # n
    BY <1>1 DEF Kept, Untouched
  <2>5. \A u, v \in Callers : call'[u].pc = "link" /\ call'[v].pc = "link" /\ call'[u].node = call'[v].node => u = v
    BY <2>2, <2>4 DEF Kept, Untouched
  <2>6. \A u \in Callers : call'[u].pc = "link" => call'[u].node \in Used'
    BY <2>1, <2>2 DEF Kept, Untouched
  <2>7. \A m \in Fresh' : /\ m \notin members' /\ vList'.nxt[m] = Null
                          /\ \A u \in Callers : iter'[u].cur # m /\ m \notin known'[u]
    BY <1>1, <2>3 DEF Kept, Untouched
  <2>8. QED
    BY <2>5, <2>6, <2>7 DEF Untouched
<1>12. /\ \A u \in Callers : Placed(u)' = Placed(u) /\ ToCome(u)' = ToCome(u)
       /\ UNCHANGED <<known, members>>
  BY <1>1, <1>3, <1>7 DEF Placed, PlacedAs, ToCome, ToComeAs
<1>13. Iterators'
  <2>1. SUFFICES ASSUME NEW u \in Callers
                 PROVE  /\ iter[u].version <= vList.version /\ Fit(vList, Placed(u))
                        /\ call'[u].pc = "walk" /\ iter[u].version = vList.version /\ iter[u].cur = Null
                              => iter[u].prv = Null
                        /\ call'[u].pc \in {"remove", "unlink"} => entry'[iter[u].cur].age >= BanTime
                        /\ call'[u].pc = "unlink" => /\ iter[u].cur \in Linked(vList)
                                                     /\ Preceding(vList, call'[u].node, iter[u].cur)
    BY <1>1, <1>12 DEF Iterators
  <2>2. iter[u].cur # Null => iter[u].cur \in Nodes /\ entry'[iter[u].cur] = entry[iter[u].cur]
    BY <1>2, <1>7, <1>8 DEF Ref
  <2>3. CASE u = t
    BY <1>3, <1>7, <2>3 DEF Kept, Iterators
  <2>4. CASE u # t
    BY <1>7, <2>2, <2>4 DEF Steady, Kept, Iterators
  <2>5. QED
    BY <2>3, <2>4
<1>14. Watching'
  <2>1. SUFFICES ASSUME NEW u \in Callers, NEW m \in known[u]
                 PROVE  /\ call'[u].pc # "idle" /\ entry'[m].ip = call'[u].ip
                        /\ entry'[m].age < BanTime =>
                             /\ m \in members
                             /\ ~call'[u].result => call'[u].pc \in Walking /\ m \in ToCome(u)
    BY <1>12 DEF Watching
  <2>2. m \in Nodes /\ entry'[m] = entry[m]
    BY <1>2, <1>7, <1>8, <2>1
  <2>3. CASE u = t
    BY <1>1, <1>3, <1>7, <2>1, <2>2, <2>3 DEF Kept, Watching, Walking
  <2>4. CASE u # t
    BY <1>7, <2>1, <2>2, <2>4 DEF Kept, Watching
  <2>5. QED
    BY <2>3, <2>4
<1>15. QED
  BY <1>10, <1>11, <1>13, <1>14 DEF Kept

\* The new entry becomes the last one of the list; nobody's version tells.
LEMMA StepLink ==
    ASSUME BanTypeOK, Steady, Kept, Lock!Exclusive, NEW t \in Callers, BanLink(t)
    PROVE  Kept'
<1> DEFINE n == call[t].node
<1>1. /\ call[t].pc = "link" /\ vList' = Inserted(vList, iter[t], n) /\ members' = members \cup {n}
      /\ call' = [call EXCEPT ![t] = NoCall] /\ iter' = [iter EXCEPT ![t] = NewIter(EmptyList)]
      /\ known' = [known EXCEPT ![t] = {}] /\ UNCHANGED entry /\ mode[t] = "holdW"
  BY DEF BanLink, Returned, HasWritten
<1>2. /\ vList \in List /\ vList.version \in Nat /\ members \in SUBSET Nodes
      /\ entry \in [Nodes -> EntryRec] /\ iter \in [Callers -> Iterator]
      /\ call \in [Callers -> CallRec] /\ known \in [Callers -> SUBSET Nodes]
      /\ Used \subseteq Nodes
      /\ \A u \in Callers : iter[u].cur \in Ref /\ iter[u].prv \in Ref
      /\ Lock!TypeOK
  BY BanTyped
<1>3. Linked(vList) = members /\ Whole(vList) /\ iter[t].cur = Null /\ n \in Used
  BY <1>1 DEF Steady, Kept, Row, Untouched
<1>4. n \in Nodes /\ n \in Fresh
  BY <1>1, <1>2, <1>3 DEF Fresh
<1>5. /\ n \notin members /\ vList.nxt[n] = Null /\ \A u \in Callers : iter[u].cur # n
  BY <1>4 DEF Kept, Untouched
<1>6. vList' = Appended(vList, n)
  BY <1>1, <1>3 DEF Inserted
<1> HIDE DEF n
<1>7. /\ vList' \in List /\ Whole(vList') /\ Linked(vList') = members \cup {n} /\ vList'.version = vList.version
      /\ \A m \in Nodes : m # vList.last => vList'.nxt[m] = vList.nxt[m]
      /\ \A r \in Ref : WalkFrom(vList.nxt, r) \subseteq WalkFrom(vList'.nxt, r)
  <2>1. vList \in List /\ Whole(vList) /\ n \in Nodes /\ n \notin Linked(vList) /\ vList.nxt[n] = Null
    BY <1>2, <1>3, <1>4, <1>5
  <2>2. Linked(vList') = Linked(vList) \cup {n} /\ vList' \in List /\ Whole(vList')
    BY <1>6, <2>1, AppendedWhole
  <2>3. /\ vList'.version = vList.version
        /\ \A m \in Nodes : m # vList.last => vList'.nxt[m] = vList.nxt[m]
        /\ \A r \in Ref : WalkFrom(vList.nxt, r) \subseteq WalkFrom(vList'.nxt, r)
    BY <1>6, <2>1, AppendedWhole
  <2>4. QED
    BY <1>3, <2>2, <2>3
<1>8. members # {} => vList.last \in members /\ vList.nxt[vList.last] = Null
  BY <1>3 DEF Whole
<1>9. /\ NewIter(EmptyList) \in Iterator /\ NewIter(EmptyList).cur = Null /\ NewIter(EmptyList).version = 0
      /\ NoCall \in CallRec /\ NoCall.pc = "idle"
  BY Beginning
<1>10. /\ \A u \in Callers : u # t => call'[u] = call[u] /\ iter'[u] = iter[u] /\ known'[u] = known[u]
       /\ call'[t] = NoCall /\ iter'[t] = NewIter(EmptyList) /\ known'[t] = {}
  BY <1>1, <1>2
<1>11. \A u \in Callers : u # t => /\ call[u].pc \notin {"found", "unlink"}
                               /\ Placed(u) = iter[u] /\ Placed(u)' = iter[u]
                               /\ ToCome(u) = Ahead(vList, iter[u]) /\ ToCome(u)' = Ahead(vList', iter[u])
  <2>1. \A u \in Callers : u # t => call[u].pc \notin {"found", "unlink"}
    BY <1>1, <1>2, Alone DEF Steady
  <2>2. QED
    BY <1>10, <2>1 DEF Placed, PlacedAs, ToCome, ToComeAs
<1>12. Row'
  BY <1>1, <1>7 DEF Row
<1>13. Untouched'
  <2>1. Used' = Used
    BY <1>1 DEF Used
  <2>2. \A u \in Callers : call'[u].pc = "link" => u # t /\ call'[u] = call[u]
    BY <1>9, <1>10
  <2>3. Fresh' \subseteq Fresh
    BY <2>1, <2>2 DEF Fresh
  <2>4. n \notin Fresh'
    <3>1. \A u \in Callers : call'[u].pc = "link" => call'[u].node # n
      BY <1>1, <2>2 DEF Kept, Untouched, n
    <3>2. QED
      BY <1>3, <2>1, <3>1 DEF Fresh
  <2>5. ASSUME NEW m \in Fresh'
        PROVE  /\ m \notin members' /\ vList'.nxt[m] = Null
               /\ \A u \in Callers : iter'[u].cur # m /\ m \notin known'[u]
    <3>1. m \in Nodes /\ m # n /\ m \in Fresh
      BY <2>3, <2>4, <2>5 DEF Fresh
    <3>2. m \notin members /\ vList.nxt[m] = Null /\ \A u \in Callers : iter[u].cur # m /\ m \notin known[u]
      BY <3>1 DEF Kept, Untouched
    <3>3. m # vList.last /\ m # Null
      <4>1. vList.last = Null <=> members = {}
        BY <1>3 DEF Whole
      <4>2. QED
        BY <1>8, <3>1, <3>2, <4>1, NullAssumption
    <3>4. QED
      BY <1>1, <1>7, <1>9, <1>10, <3>1, <3>2, <3>3
  <2>6. QED
    BY <2>1, <2>2, <2>5 DEF Kept, Untouched
<1>14. Iterators'
  <2>1. SUFFICES ASSUME NEW u \in Callers
                 PROVE  /\ iter'[u].version <= vList'.version /\ Fit(vList', Placed(u)')
                        /\ call'[u].pc = "walk" /\ iter'[u].version = vList'.version /\ iter'[u].cur = Null
                              => iter'[u].prv = Null
                        /\ call'[u].pc \in {"remove", "unlink"} => entry[iter'[u].cur].age >= BanTime
                        /\ call'[u].pc = "unlink" => /\ iter'[u].cur \in Linked(vList')
                                                     /\ Preceding(vList', call'[u].node, iter'[u].cur)
    BY <1>1 DEF Iterators
  <2>2. CASE u = t
    <3>1. Placed(u)' = NewIter(EmptyList)
      BY <1>9, <1>10, <2>2 DEF Placed, PlacedAs
    <3>2. QED
      BY <1>2, <1>7, <1>9, <1>10, <2>2, <3>1 DEF Fit
  <2>3. CASE u # t
    <3>1. Fit(vList, iter[u]) => Fit(vList', iter[u])
      <4>1. SUFFICES ASSUME Fit(vList, iter[u]), iter[u].version = vList'.version, iter[u].cur # Null
                     PROVE  /\ iter[u].cur \in Linked(vList')
                            /\ iter[u].prv # Null => iter[u].prv \in Linked(vList') /\ vList'.nxt[iter[u].prv] = iter[u].cur
        BY DEF Fit
      <4>2. /\ iter[u].cur \in members
            /\ iter[u].prv # Null => iter[u].prv \in members /\ vList.nxt[iter[u].prv] = iter[u].cur
        BY <1>3, <1>7, <4>1 DEF Fit
      <4>3. iter[u].prv # Null => iter[u].prv # vList.last /\ iter[u].prv \in Nodes
        BY <1>2, <1>8, <4>1, <4>2
      <4>4. QED
        BY <1>7, <4>2, <4>3
    <3>2. QED
      BY <1>7, <1>10, <1>11, <2>3, <3>1 DEF Kept, Iterators
  <2>4. QED
    BY <2>2, <2>3
<1>15. Watching'
  <2>1. SUFFICES ASSUME NEW u \in Callers, u # t, NEW m \in known[u]
                 PROVE  /\ call[u].pc # "idle" /\ entry[m].ip = call[u].ip
                        /\ entry[m].age < BanTime =>
                             /\ m \in members'
                             /\ ~call[u].result => call[u].pc \in Walking /\ m \in Ahead(vList', iter[u])
    BY <1>1, <1>10, <1>11 DEF Watching
  <2>2. /\ call[u].pc # "idle" /\ entry[m].ip = call[u].ip
        /\ entry[m].age < BanTime =>
             /\ m \in members
             /\ ~call[u].result => call[u].pc \in Walking /\ m \in Ahead(vList, iter[u])
    BY <1>11, <2>1 DEF Kept, Watching
  <2>3. ASSUME m \in Ahead(vList, iter[u]), m \in members PROVE m \in Ahead(vList', iter[u])
    <3>1. CASE iter[u].cur \notin members
      BY <1>5, <1>7, <2>3, <3>1 DEF Ahead
    <3>2. CASE iter[u].cur \in members
      <4>1. m \in WalkFrom(vList.nxt, vList.nxt[iter[u].cur])
        BY <1>3, <2>3, <3>2 DEF Ahead
      <4>2. vList.nxt \in Pointing /\ iter[u].cur \in Nodes /\ vList.nxt[iter[u].cur] \in Ref
        BY <1>2, <3>2, ListParts
      <4>3. iter[u].cur # vList.last
        BY <1>8, <3>2, <4>1, <4>2, WalkFromNull
      <4>4. m \in WalkFrom(vList'.nxt, vList'.nxt[iter[u].cur])
        BY <1>7, <4>1, <4>2, <4>3
      <4>5. QED
        BY <1>7, <3>2, <4>4 DEF Ahead
    <3>3. QED
      BY <3>1, <3>2
  <2>4. QED
    BY <1>1, <2>2, <2>3
<1>16. QED
  BY <1>12, <1>13, <1>14, <1>15 DEF Kept

LEMMA StepReturn ==
    ASSUME BanTypeOK, Steady, Kept, NEW t \in Callers, BanReturn(t)
    PROVE  Kept'
<1>1. /\ call[t].pc \in {"insert", "return"}
      /\ call' = [call EXCEPT ![t] = NoCall] /\ iter' = [iter EXCEPT ![t] = NewIter(EmptyList)]
      /\ known' = [known EXCEPT ![t] = {}] /\ UNCHANGED <<vList, entry, members>>
  BY DEF BanReturn, Returned
<1>2. /\ vList \in List /\ vList.version \in Nat /\ members \in SUBSET Nodes
      /\ entry \in [Nodes -> EntryRec] /\ iter \in [Callers -> Iterator]
      /\ call \in [Callers -> CallRec] /\ known \in [Callers -> SUBSET Nodes]
  BY BanTyped
<1>3. /\ NewIter(EmptyList) \in Iterator /\ NewIter(EmptyList).cur = Null /\ NewIter(EmptyList).version = 0
      /\ NoCall \in CallRec /\ NoCall.pc = "idle"
  BY Beginning
<1>4. /\ \A u \in Callers : u # t => call'[u] = call[u] /\ iter'[u] = iter[u] /\ known'[u] = known[u]
      /\ call'[t] = NoCall /\ iter'[t] = NewIter(EmptyList) /\ known'[t] = {}
  BY <1>1, <1>2
<1>5. /\ \A u \in Callers : u # t => Placed(u)' = Placed(u) /\ ToCome(u)' = ToCome(u)
      /\ Placed(t)' = NewIter(EmptyList)
  BY <1>1, <1>3, <1>4 DEF Placed, PlacedAs, ToCome, ToComeAs
<1>6. Row'
  BY <1>1 DEF Kept, Row
<1>7. Untouched'
  <2>1. Used' = Used
    BY <1>1 DEF Used
  <2>2. \A u \in Callers : call'[u].pc = "link" => call'[u] = call[u]
    BY <1>3, <1>4
  <2>3. Fresh' \subseteq Fresh
    BY <2>1, <2>2 DEF Fresh
  <2>4. \A m \in Fresh' : m # Null
    BY NullAssumption DEF Fresh
  <2>5. \A m \in Fresh' : \A u \in Callers : iter'[u].cur # m /\ m \notin known'[u]
    BY <1>3, <1>4, <2>3, <2>4 DEF Kept, Untouched
  <2>6. QED
    BY <1>1, <2>1, <2>2, <2>3, <2>5 DEF Kept, Untouched
<1>8. Iterators'
  BY <1>1, <1>2, <1>3, <1>4, <1>5 DEF Kept, Iterators, Fit
<1>9. Watching'
  BY <1>1, <1>4, <1>5 DEF Kept, Watching
<1>10. QED
  BY <1>6, <1>7, <1>8, <1>9 DEF Kept

\* Entries only get older.
LEMMA StepBanTick ==
    ASSUME BanTypeOK, Steady, Kept, BanTick
    PROVE  Kept'
<1>1. /\ \A n \in Nodes : /\ entry'[n].ip = entry[n].ip /\ entry[n].age \in Nat /\ entry'[n].age \in Nat
                          /\ entry'[n].age >= entry[n].age
      /\ \A t \in Callers : /\ call'[t].pc = call[t].pc /\ call'[t].ip = call[t].ip
                            /\ call'[t].result = call[t].result /\ call'[t].node = call[t].node
      /\ UNCHANGED <<vList, iter, known, members>>
  BY Ticked
<1>2. /\ known \in [Callers -> SUBSET Nodes] /\ BanTime \in Nat /\ \A u \in Callers : iter[u].cur \in Ref
  BY BanTyped
<1>3. \A u \in Callers : Placed(u)' = Placed(u) /\ ToCome(u)' = ToCome(u)
  BY <1>1 DEF Placed, PlacedAs, ToCome, ToComeAs
<1>4. Row'
  BY <1>1 DEF Kept, Row
<1>5. Untouched'
  <2>1. Used' = Used
    BY <1>1 DEF Used
  <2>2. Fresh' = Fresh
    BY <1>1, <2>1 DEF Fresh
  <2>3. QED
    BY <1>1, <2>1, <2>2 DEF Kept, Untouched
<1>6. Iterators'
  <2>1. SUFFICES ASSUME NEW t \in Callers, call[t].pc \in {"remove", "unlink"}
                 PROVE  entry'[iter[t].cur].age >= BanTime
    BY <1>1, <1>3 DEF Kept, Iterators
  <2>2. iter[t].cur \in Nodes /\ entry[iter[t].cur].age >= BanTime
    BY <1>2, <2>1 DEF Steady, Kept, Iterators, Ref
  <2>3. QED
    BY <1>1, <1>2, <2>2
<1>7. Watching'
  <2>1. SUFFICES ASSUME NEW t \in Callers, NEW n \in known[t]
                 PROVE  /\ call[t].pc # "idle" /\ entry'[n].ip = call[t].ip
                        /\ entry'[n].age < BanTime =>
                             /\ n \in members
                             /\ ~call[t].result => call[t].pc \in Walking /\ n \in ToCome(t)
    BY <1>1, <1>3 DEF Watching
  <2>2. n \in Nodes
    BY <1>2, <2>1
  <2>3. entry'[n].age < BanTime => entry[n].age < BanTime
    BY <1>1, <1>2, <2>2
  <2>4. QED
    BY <1>1, <2>1, <2>2, <2>3 DEF Kept, Watching
<1>8. QED
  BY <1>4, <1>5, <1>6, <1>7 DEF Kept

LEMMA BanInitIInv == BanInit => BanIInv
<1> SUFFICES ASSUME BanInit PROVE BanIInv
  OBVIOUS
<1>1. /\ vList \in List /\ Whole(vList) /\ Linked(vList) = {} /\ vList.version = 0 /\ members = {}
      /\ \A n \in Nodes : vList.nxt[n] = Null
      /\ \A t \in Callers : /\ iter[t] \in Iterator /\ iter[t].cur = Null /\ iter[t].version = 0
                            /\ call[t] = NoCall /\ call[t].pc = "idle" /\ known[t] = {}
  BY Beginning DEF BanInit
<1>2. entry \in [Nodes -> EntryRec]
  BY BanTimeAssumption DEF BanInit, EntryRec, Address
<1>3. call \in [Callers -> CallRec] /\ iter \in [Callers -> Iterator] /\ known \in [Callers -> SUBSET Nodes]
  BY Beginning DEF BanInit
<1>4. Lock!TypeOK /\ Lock!Exclusive /\ mixed \in BOOLEAN
  BY DEF BanInit, Lock!Init, Lock!TypeOK, Lock!Mode, Lock!Exclusive, Lock!Holders, Lock!In
<1>5. BanTypeOK
  BY <1>1, <1>2, <1>3, <1>4 DEF BanTypeOK, EntryRec, CallRec
<1>6. Row /\ Untouched
  BY <1>1, NullAssumption DEF Row, Untouched, Fresh
<1>7. Iterators
  BY <1>1 DEF Iterators, Fit, Placed, PlacedAs
<1>8. Watching /\ Steady
  BY <1>1 DEF Watching, Steady
<1>9. QED
  BY <1>4, <1>5, <1>6, <1>7, <1>8 DEF BanIInv, Kept

\* Steps that change nothing but the lock.
LEMMA StepStill ==
    ASSUME BanTypeOK, Steady, Kept, UNCHANGED <<vList, entry, iter, call, known, members>>
    PROVE  Kept'
<1>1. Row' /\ Untouched'
  BY DEF Kept, Row, Untouched, Fresh, Used
<1>2. Iterators' /\ Watching'
  BY DEF Kept, Iterators, Watching, Placed, PlacedAs, ToCome, ToComeAs
<1>3. QED
  BY <1>1, <1>2 DEF Kept

LEMMA BanStepIInv == BanIInv /\ [BanNextState]_banVars => BanIInv'
<1> SUFFICES ASSUME BanIInv, [BanNextState]_banVars PROVE BanIInv'
  OBVIOUS
<1>1. BanTypeOK /\ Steady /\ (~mixed => Lock!Exclusive /\ Kept) /\ mixed \in BOOLEAN
  BY BanTyped DEF BanIInv
<1>2. ASSUME BanTypeOK' /\ Steady', LockStill \/ Watched, Lock!Exclusive /\ Kept => Kept'
      PROVE  BanIInv'
  BY <1>1, <1>2, Unmixed DEF BanIInv
<1>3. ASSUME NEW t \in Callers, NEW ip \in Addresses, NEW add \in BOOLEAN, BanCall(t, ip, add) PROVE BanIInv'
  BY <1>1, <1>2, <1>3, CallTyped, StepCall
<1>4. ASSUME NEW t \in Callers, BanLock(t) \/ BanForced(t) PROVE BanIInv'
  BY <1>1, <1>2, <1>4, StepLock, StepStill
<1>5. ASSUME NEW t \in Callers, BanSearch(t) PROVE BanIInv'
  BY <1>1, <1>2, <1>5, SearchTyped, StepSearch
<1>6. ASSUME NEW t \in Callers, BanNext(t) PROVE BanIInv'
  BY <1>1, <1>2, <1>6, NextTyped, StepNext
<1>7. ASSUME NEW t \in Callers, BanSeek(t) PROVE BanIInv'
  BY <1>1, <1>2, <1>7, SeekTyped, StepSeek
<1>8. ASSUME NEW t \in Callers, BanGone(t) PROVE BanIInv'
  BY <1>1, <1>2, <1>8, GoneTyped, StepGone
<1>9. ASSUME NEW t \in Callers, BanUnlink(t) PROVE BanIInv'
  BY <1>1, <1>2, <1>9, UnlinkTyped, StepUnlink
<1>10. ASSUME NEW t \in Callers, BanReturn(t) PROVE BanIInv'
  BY <1>1, <1>2, <1>10, ReturnTyped, StepReturn
<1>11. ASSUME NEW t \in Callers, BanLink(t) PROVE BanIInv'
  BY <1>1, <1>2, <1>11, LinkTyped, StepLink
<1>12. ASSUME NEW t \in Callers, NEW n \in Nodes, BanNewEntry(t, n) PROVE BanIInv'
  BY <1>1, <1>2, <1>12, NewEntryTyped, StepNewEntry
<1>13. ASSUME BanTick PROVE BanIInv'
  BY <1>1, <1>2, <1>13, TickTyped, StepBanTick
<1>14. ASSUME UNCHANGED banVars PROVE BanIInv'
  <2>1. UNCHANGED <<vList, entry, iter, call, known, members>>
        /\ UNCHANGED <<mayRead, orderly, writelock, readlock, mode, mixed>>
    BY <1>14 DEF banVars, callVars, lockVars
  <2>2. LockStill
    BY <2>1 DEF LockStill
  <2>3. BanTypeOK'
    BY <1>1, <2>1 DEF BanTypeOK, Lock!TypeOK
  <2>4. Steady'
    BY <1>1, <2>1 DEF Steady
  <2>5. Lock!Exclusive /\ Kept => Kept'
    BY <1>1, <2>1, StepStill
  <2>6. QED
    BY <1>2, <2>2, <2>3, <2>4, <2>5
<1>15. ASSUME NEW t \in Callers, BanStep(t) PROVE BanIInv'
  BY <1>3, <1>4, <1>5, <1>6, <1>7, <1>8, <1>9, <1>10, <1>11, <1>12, <1>15 DEF BanStep
<1>16. QED
  BY <1>13, <1>14, <1>15 DEF BanNextState

LEMMA BanInvariant == BanSpec => []BanIInv
BY BanInitIInv, BanStepIInv, PTL DEF BanSpec

(***************************************************************************)
(* Theorems.                                                                *)
(***************************************************************************)

\* The list, the iterators, the calls and the lock have their types, whoever is let in beside
\* whom.
THEOREM BanTypeCorrect == BanSpec => []BanTypeOK
<1>1. BanIInv => BanTypeOK
  BY DEF BanIInv
<1>2. QED
  BY <1>1, BanInvariant, PTL

\* As long as the lock has let nobody in beside a writer, the list of failed logins is what
\* was added to it and not removed, in one piece, with its last node and its count, however
\* many iterators step on it and remove from it in turn.
THEOREM ListStaysIntact == BanSpec => []ListIntact
<1>1. BanIInv => ListIntact
  BY DEF BanIInv, Kept, Row, Whole, ListIntact
<1>2. QED
  BY <1>1, BanInvariant, PTL

\* So long too, no walk passes an entry for its address that is in time, though the list
\* changes between the steps of the walk and other walks take nodes out of it.
THEOREM WalkOverlooksNothing == BanSpec => []NoneOverlooked
<1>1. BanIInv => NoneOverlooked
  <2>1. SUFFICES ASSUME BanIInv, ~mixed,
                        NEW t \in Callers, call[t].pc \in {"insert", "link", "return"}, ~call[t].result,
                        NEW n \in known[t]
                 PROVE  ~InTime(n, 0)
    BY DEF NoneOverlooked
  <2>2. ~(entry[n].age < BanTime)
    BY <2>1 DEF BanIInv, Kept, Watching, Walking
  <2>3. BanTime + 0 = BanTime
    BY BanTimeAssumption
  <2>4. QED
    BY <2>2, <2>3 DEF InTime
<1>2. QED
  BY <1>1, BanInvariant, PTL
=============================================================================
