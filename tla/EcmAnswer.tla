------------------------------ MODULE EcmAnswer ------------------------------
(***************************************************************************)
(* What OSCam promises the client about one ECM, whatever readers, stages   *)
(* and timers do behind it.  It is told one thing: a control word only if   *)
(* readers supplied it (two different readers under double_check), and "not *)
(* found" only if every reader still active has answered, none with a word. *)
(* A timeout promises nothing about the readers.                            *)
(***************************************************************************)
EXTENDS Naturals, Sequences

CONSTANTS Readers, CWs, NoCw

VARIABLES
    need,      \* how many readers must agree on a control word
    offers,    \* the control word each reader has supplied so far, or NoCw
    replied,   \* the readers that have answered, with a control word or without
    active,    \* the readers whose answers count
    answers    \* what the client was told

absVars == <<need, offers, replied, active, answers>>

AbsTypeOK ==
    /\ need \in {1, 2}
    /\ offers \in [Readers -> CWs \cup {NoCw}]
    /\ replied \subseteq Readers /\ active \subseteq Readers
    /\ answers \in Seq([rc : {"FOUND", "NOTFOUND", "TIMEOUT"}, cw : CWs \cup {NoCw}])

AbsInit ==
    /\ need \in {1, 2}
    /\ offers = [i \in Readers |-> NoCw]
    /\ replied = {}
    /\ active \subseteq Readers
    /\ answers = <<>>

\* Reader i alone is withdrawn, or is let in again.
Regroup(i) == active' \ {i} = active \ {i} /\ active' \subseteq Readers

\* A control word that was supplied is never taken back.
Reply(i, c) ==
    /\ offers[i] = NoCw \/ c = NoCw
    /\ offers' = IF c = NoCw THEN offers ELSE [offers EXCEPT ![i] = c]
    /\ replied' = replied \cup {i}
    /\ Regroup(i)
    /\ UNCHANGED <<need, answers>>

Withdraw(i) ==
    /\ Regroup(i)
    /\ UNCHANGED <<need, offers, replied, answers>>

Tell(a) ==
    /\ answers = <<>>
    /\ answers' = <<a>>
    /\ UNCHANGED <<need, offers, replied, active>>

\* As many readers as are needed have supplied c.
Supplied(c) ==
    \E i, j \in Readers : offers[i] = c /\ offers[j] = c /\ (need = 2 => i # j)

\* No active reader has supplied a control word, or still may.
NothingToCome == \A i \in active : i \in replied /\ offers[i] = NoCw

TellFound(c) ==
    /\ Supplied(c)
    /\ Tell([rc |-> "FOUND", cw |-> c])

TellNotFound ==
    /\ NothingToCome
    /\ Tell([rc |-> "NOTFOUND", cw |-> NoCw])

TellTimeout == Tell([rc |-> "TIMEOUT", cw |-> NoCw])

AnyAnswer == (\E c \in CWs : TellFound(c)) \/ TellNotFound \/ TellTimeout

AbsNext ==
    \/ \E i \in Readers : Withdraw(i) \/ \E c \in CWs \cup {NoCw} : Reply(i, c)
    \/ AnyAnswer

AbsSafety == AbsInit /\ [][AbsNext]_absVars

AbsSpec == AbsSafety /\ WF_absVars(AnyAnswer)
=============================================================================
