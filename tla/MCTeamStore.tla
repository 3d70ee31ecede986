---------------------------- MODULE MCTeamStore ----------------------------
(***************************************************************************)
(* Three players on at most two teams, two requests in flight: enough for   *)
(* two joins of a last slot, a join racing a disband and a recreate, two    *)
(* regenerations, and a move that empties a team.                           *)
(***************************************************************************)
EXTENDS TeamStore, TLC

MCSymmetry == Permutations(Players) \union Permutations(Slugs)
              \union Permutations(Codes) \union Permutations(Slots)
=============================================================================
