---------------------------- MODULE MCProvision ----------------------------
(***************************************************************************)
(* Two terminals and two targets, one of which needs a Dockerfile of its     *)
(* own, on the free plan.  A session says what is there and how many of each *)
(* command and event there are; those of MCSessions differ in which commands *)
(* meet.                                                                     *)
(***************************************************************************)
EXTENDS Provision, TLC

CONSTANTS t1, t2
BothTargets == <<"juice-shop", "vulnerableapp">>
OneTarget == <<"vulnerableapp">>

NoUses == [kind \in Commands \union {"faults", "visits", "weakenings", "pulls"} |-> 0]
NewOrg(uses) == [new |-> TRUE, uses |-> uses @@ NoUses]
OldOrg(uses) == [new |-> FALSE, uses |-> uses @@ NoUses]
NoSession == OldOrg(NoUses)

MCSessions == { NewOrg([org |-> 1, faults |-> 1]),
                NewOrg([org |-> 1, private |-> 1, visits |-> 1]),
                NewOrg([wizard |-> 1]),
                NewOrg([org |-> 1, upgrade |-> 1]),
                OldOrg([private |-> 1, launch |-> 1, visits |-> 1, faults |-> 1]),
                OldOrg([org |-> 1, launch |-> 1, faults |-> 1]),
                OldOrg([doctor |-> 1, faults |-> 1, pulls |-> 1]),
                OldOrg([launch |-> 2, weakenings |-> 1]),
                OldOrg([launch |-> 1, doctor |-> 1, faults |-> 1]),
                OldOrg([org |-> 1, upgrade |-> 1]),
                OldOrg([upgrade |-> 2, faults |-> 1]) }

WizardSessions == {NewOrg([wizard |-> 1, faults |-> 1])}

TerminalSymmetry == Permutations(Terminals)
=============================================================================
