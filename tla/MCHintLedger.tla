---------------------------- MODULE MCHintLedger ----------------------------
(***************************************************************************)
(* Instances of HintLedger: two tabs after two hints at a price of one      *)
(* point, at most one point in each source, one or two organizer requests.  *)
(***************************************************************************)
EXTENDS HintLedger, TLC

MCSymmetry == Permutations(Requests) \union Permutations(Operations)

Selling == [price |-> 1, paused |-> FALSE, endsAt |-> 1, hints |-> TRUE, live |-> Sources]
Ending == [Selling EXCEPT !.endsAt = 0]

ScorePatches == {[price |-> 0], [paused |-> TRUE], [live |-> {"app"}]}
\* An end of 1 is not passed while MaxTime is 1; an end of 0 is.
WindowPatches == {[paused |-> TRUE], [paused |-> FALSE], [endsAt |-> 0]}

NoOperation == [kind \in Kinds |-> 0]
OneWrite == [NoOperation EXCEPT !["settings"] = 1]
OneReset == [NoOperation EXCEPT !["reset"] = 1]
WriteAndReset == [OneReset EXCEPT !["settings"] = 1]
WriteAndDelete == [OneWrite EXCEPT !["delete"] = 1]
TwoDeletes == [NoOperation EXCEPT !["delete"] = 2]
MasterAndReset == [OneReset EXCEPT !["master"] = 1]
=============================================================================
