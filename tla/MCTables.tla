------------------------------ MODULE MCTables ------------------------------
(* Three tables that threads share: the failed logins, the cache of control words  *)
(* and the slots of a reader's rate limiter.  They have nothing to do with each    *)
(* other: a behaviour works on one, and the others stay as they were initialised.  *)
EXTENDS Failban, CwCache, RateLimit, TLC

VARIABLE table

BanStill == UNCHANGED banVars
CacheStill == UNCHANGED cwCacheVars
RateStill == UNCHANGED rateVars

Init ==
    /\ BanInit /\ CacheInit /\ RateInit
    /\ table \in {"twins", "failban", "crowd", "forced", "cache", "ratelimit"}
    /\ orderly <=> table # "forced"
    /\ table # "cache" => ~signed
    /\ table # "ratelimit" => ~cooldown

\* The calls under way after a step.
Inside == {t \in Callers : call'[t].pc # "idle"}

\* Two calls at a time, of which one may add an entry while time passes, or both if they
\* begin with an empty list; or three, or two that are let in by force, of which only one
\* that is alone may add an entry.  No call begins when there have been as many removals
\* as there are nodes.
BanBound ==
    LET adding == {t \in Inside : call'[t].add}
        begins(t) == call[t].pc = "idle"
    IN  /\ table # "crowd" => Cardinality(Inside) <= 2
        /\ table = "failban" => Cardinality(adding) <= 1
        /\ table = "twins" => \A t \in adding : begins(t) => vList = EmptyList
        /\ table \in {"crowd", "forced"} =>
                /\ \A t \in Callers : call'[t].lag = 0
                /\ adding = {} \/ Cardinality(Inside) = 1
        /\ \A t \in Inside : begins(t) => vList.version < Cardinality(Nodes)

Next ==
    \/ /\ table \in {"failban", "twins", "crowd", "forced"}
       /\ BanNextState /\ BanBound
       /\ CacheStill /\ RateStill /\ UNCHANGED table
    \/ table = "cache" /\ CacheNext /\ BanStill /\ RateStill /\ UNCHANGED table
    \/ table = "ratelimit" /\ RateNext /\ BanStill /\ CacheStill /\ UNCHANGED table

Spec == Init /\ [][Next]_<<banVars, cwCacheVars, rateVars, table>>

\* The variables of the failed logins, of the cache and of the rate limiter have their types.
TypeOK == BanTypeOK /\ CacheTypeOK /\ RateTypeOK

\* The configuration takes Nodes, Words and Services from the same model values, and
\* Addresses and Hashes, so that there are fewer permutations to try.
Symmetry == Permutations(Nodes) \cup Permutations(Callers) \cup Permutations(Addresses)
=============================================================================
