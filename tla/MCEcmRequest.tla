---------------------------- MODULE MCEcmRequest ----------------------------
(***************************************************************************)
(* Instances of EcmRequest for TLC.                                         *)
(***************************************************************************)
EXTENDS EcmRequest, TLC

Local == {"ACTIVE", "LOCAL"}
Remote == {"ACTIVE"}
Fallback == {"ACTIVE", "FALLBACK"}
Unused == {"LOCAL"}   \* matched, but not selected by the load balancer

Plain == {[rc |-> "FOUND", cw |-> c] : c \in CWs} \cup {[rc |-> "NOTFOUND", cw |-> NoCw]}
Bad == Plain \cup {[rc |-> "BADECM", cw |-> NoCw]}
Prompt == Plain \cup {[rc |-> "INVALID", cw |-> NoCw]}

Request(kinds, p, d, v, r) ==
    [status |-> kinds, prefer |-> p, double |-> d, verdicts |-> v, reliable |-> r]

\* One reader of each stage; two of a stage before a fallback; a bad checksum
\* that races the fallback timer; a double check that a bad checksum may spoil.
SafetySetups ==
    {Request(<<Local, Remote, Fallback>>, TRUE, FALSE, Plain, FALSE),
     Request(<<Remote, Fallback, Remote>>, FALSE, FALSE, Plain, FALSE),
     Request(<<Remote, Unused, Fallback>>, FALSE, FALSE, Bad, FALSE),
     Request(<<Remote, Remote, Unused>>, FALSE, TRUE, Bad, FALSE)}

\* Readers that may say nothing, and readers that all answer.
FairSetups ==
    {Request(<<Local, Unused, Fallback>>, TRUE, FALSE, Bad, FALSE),
     Request(<<Remote, Remote, Unused>>, FALSE, TRUE, Plain, FALSE),
     Request(<<Local, Remote, Fallback>>, TRUE, FALSE, Prompt, TRUE),
     Request(<<Remote, Fallback, Remote>>, FALSE, FALSE, Prompt, TRUE)}

\* Two readers of the same stage.
SpreadSetups == {Request(<<Remote, Remote>>, FALSE, FALSE, Bad, FALSE)}

\* Control words differ only in being equal or not.
Symmetry == Permutations(CWs)
=============================================================================
