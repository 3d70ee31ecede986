----------------------------- MODULE MCDemoSeed -----------------------------
(***************************************************************************)
(* A fixture of two contestants and two challenges beside two players and a  *)
(* challenge of the organizers'; two organizers.  A day says which           *)
(* categories there are and what happens.                                    *)
(***************************************************************************)
EXTENDS DemoSeed, TLC

CONSTANTS d1, d2, neo, trin, ann, bob, chalA, chalB, own
MCDemoSolves == (neo :> {chalA, chalB}) @@ (trin :> {chalA})
MCFoldOf == ("AI" :> "ai") @@ ("Ai" :> "ai") @@ ("web" :> "web") @@ ("misc" :> "misc")

NoDay == [kind \in {"seed", "clear", "reset", "faults", "solves", "edits", "moves"} |-> 0]
Day(categories, allowed) == [list |-> categories, own |-> categories[1], on |-> {ann}, uses |-> allowed @@ NoDay]

IdleDay == Day(<<"web">>, NoDay)
MCDays == { Day(<<"web">>, [seed |-> 2, faults |-> 1, solves |-> 1]),
            Day(<<"web", "Ai">>, [seed |-> 2, clear |-> 1, faults |-> 1]),
            Day(<<"web">>, [seed |-> 1, clear |-> 2, faults |-> 1]),
            Day(<<"web", "Ai">>, [seed |-> 1, clear |-> 1, solves |-> 1, moves |-> 1]),
            Day(<<"web">>, [seed |-> 1, reset |-> 1, solves |-> 1, faults |-> 1]),
            Day(<<"web">>, [seed |-> 1, edits |-> 1, solves |-> 1]),
            Day(<<"web">>, [seed |-> 1, solves |-> 2]) }

SolveDays == {Day(<<"Ai">>, [seed |-> 2, solves |-> 1])}
MoveDays == {Day(<<"web">>, [seed |-> 2, clear |-> 1, moves |-> 1])}
ListDays == {Day(<<"web">>, [seed |-> 1, edits |-> 1])}

DeskSymmetry == Permutations(Desks)
=============================================================================
