----------------------------- MODULE MCGraders -----------------------------
(***************************************************************************)
(* Two teammates and a two-step story, two requests in flight.  Each        *)
(* behaviour has one of a few allowances: two answers racing under changed  *)
(* settings, edits and deletes, resets of a contestant and of the event,    *)
(* and moves between teams.                                                 *)
(***************************************************************************)
EXTENDS Graders, TLC
CONSTANTS s1, s2, alice, bob, x, y, right, wrong, reds, blues

First  == [points |-> 1, shown |-> TRUE, mode |-> "flag"]
Second == [points |-> 2, shown |-> TRUE, mode |-> "both"]
Buried == [points |-> 2, shown |-> FALSE, mode |-> "event"]
MCRecords    == {First, Second, Buried}
MCCatalogues == {[i \in Items |-> IF i = x THEN First ELSE Second]}
MCChain == <<x, y>>

MCLaunch   == [open |-> TRUE, cooldown |-> 1, cap |-> 1]
MCSettings == {[open |-> FALSE, cooldown |-> 1, cap |-> 1], [open |-> TRUE, cooldown |-> 2, cap |-> 1]}
MCBaked    == [open |-> TRUE, cooldown |-> 1, cap |-> 1]

MCRosters  == {[l \in Logins |-> [slug |-> reds, since |-> 0]]}

Sub(l, i, f) == [login |-> l, item |-> i, form |-> f, dry |-> FALSE, event |-> FALSE]
Signed(l, i) == [Sub(l, i, wrong) EXCEPT !.event = TRUE]
Previewed(l, i, f) == [Sub(l, i, f) EXCEPT !.dry = TRUE]

Allow(subs, q, f, s, e, r, w, m) ==
    [subs |-> subs, requests |-> q, faults |-> f, saves |-> s, edits |-> e, resets |-> r,
     wipes |-> w, moves |-> m]
MCAllowances ==
    { \* one contestant's tabs race on an item while the settings change
      Allow({Sub(alice, x, f) : f \in Forms}, 3, 0, 1, 0, 0, 0, 0),
      \* an item is edited or deleted; previews, signed events and a fault
      Allow({Sub(alice, y, right), Signed(alice, y), Previewed(alice, y, right),
             Signed(alice, x), Previewed(alice, x, wrong)}, 2, 1, 0, 1, 0, 0, 0),
      \* a contestant's reset and the master reset
      Allow({Sub(alice, x, right), Sub(alice, y, right)}, 2, 0, 0, 0, 1, 1, 0),
      Allow({Sub(alice, x, right), Sub(bob, y, right), Sub(alice, y, right)}, 3, 0, 0, 0, 1, 0, 0),
      \* the master reset fails and is run again
      Allow({Sub(alice, x, right), Sub(bob, x, right)}, 2, 1, 0, 0, 0, 1, 0),
      \* the story, and a move between teams
      Allow({Sub(alice, x, right), Sub(bob, y, right), Sub(bob, x, right)}, 3, 0, 0, 0, 0, 0, 1) }
MCSymmetry == Permutations(Slots)
=============================================================================
