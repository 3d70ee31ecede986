----------------------------- MODULE MCAiEvent -----------------------------
(***************************************************************************)
(* A skew of two seconds and a request stamped that far ahead, so that the   *)
(* first and the last second of its window both occur; two requests and two  *)
(* launches at a time.                                                       *)
(***************************************************************************)
EXTENDS AiEvent, TLC
CONSTANTS s1, s2, n1, n2, k0, k1, k2

Allow(q, f, l, r, w, t) ==
    [requests |-> q, faults |-> f, launches |-> l, resets |-> r, wipes |-> w, toggles |-> t, flags |-> 1]
MCAllowances == { Allow(3, 1, 0, 1, 0, 0),   \* a captured request, a reset, a fault
                  Allow(3, 0, 0, 1, 0, 2),   \* the event closes and opens again
                  Allow(2, 0, 1, 0, 1, 1),   \* a master reset or an archive import
                  Allow(2, 0, 0, 1, 1, 0),   \* a reset amid one
                  Allow(0, 0, 3, 0, 1, 0) }  \* launches that race to mint a key
MCSymmetry == Permutations(Slots) \union Permutations(Launchers) \union Permutations(Candidates)
=============================================================================
