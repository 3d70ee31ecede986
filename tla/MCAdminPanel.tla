---------------------------- MODULE MCAdminPanel ----------------------------
(***************************************************************************)
(* A list of two or three items and room for two new ones.  A visit says     *)
(* what the organizer does, how many requests fail or lose their reply, and  *)
(* how often another organizer writes.                                       *)
(***************************************************************************)
EXTENDS AdminPanel, TLC

MCIds == <<"a", "b", "c", "y", "z">>
MCFresh == <<"y", "z">>
TwoItems == ("a" :> [text |-> "old", order |-> 1]) @@ ("b" :> [text |-> "old", order |-> 2])
ThreeItems == TwoItems @@ ("c" :> [text |-> "old", order |-> 3])

NoVisit == [kind \in {"faults", "reloads", "imports", "moves", "opens", "edits",
                      "saves", "deletes", "tries", "others"} |-> 0]
Visit2(allowed) == [start |-> TwoItems, allow |-> allowed @@ NoVisit]
Visit3(allowed) == [start |-> ThreeItems, allow |-> allowed @@ NoVisit]

MCVisits == { Visit2([opens |-> 2, edits |-> 2, saves |-> 1, deletes |-> 1, tries |-> 1]),
              Visit2([opens |-> 1, edits |-> 1, saves |-> 1, deletes |-> 1, tries |-> 1,
                      reloads |-> 1, others |-> 1]),
              Visit2([opens |-> 1, edits |-> 1, saves |-> 2, faults |-> 1, moves |-> 1]),
              Visit3([moves |-> 1, faults |-> 2, reloads |-> 1]),
              Visit3([moves |-> 2, deletes |-> 1, tries |-> 2, faults |-> 1]),
              Visit2([imports |-> 1, opens |-> 1, edits |-> 1, saves |-> 1, faults |-> 1]) }

DragVisits == {Visit2([opens |-> 1, edits |-> 1, saves |-> 1, moves |-> 1])}
SharedVisits == {Visit2([others |-> 1, moves |-> 1])}
TwinVisits == {Visit2([opens |-> 1, edits |-> 1, saves |-> 2, faults |-> 1])}
=============================================================================
