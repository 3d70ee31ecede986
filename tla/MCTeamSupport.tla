--------------------------- MODULE MCTeamSupport ---------------------------
(***************************************************************************)
(* Three players on at most two teams, two requests in flight beside the    *)
(* organizer's pipeline: enough for a captain's regenerate to run between a *)
(* disband's read and its writes, and for a contestant to join a team       *)
(* between a delete's read and its writes.                                  *)
(***************************************************************************)
EXTENDS TeamSupport, TLC

MCSymmetry == Permutations(Players) \union Permutations(Slugs)
              \union Permutations(Codes) \union Permutations(Slots)
=============================================================================
