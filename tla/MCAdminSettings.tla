-------------------------- MODULE MCAdminSettings --------------------------
(***************************************************************************)
(* Two organizers toggling the freeze, moving both bounds of the window and *)
(* resetting, on a new event or on one whose freeze was set by hand (or by  *)
(* a build older than the pause log) and so has no recorded start.          *)
(***************************************************************************)
EXTENDS AdminSettings, TLC

MCPatches ==
    { [NoPatch EXCEPT !.paused = "set"],
      [NoPatch EXCEPT !.paused = "clear"],
      [NoPatch EXCEPT !.startsAt = 2],
      [NoPatch EXCEPT !.endsAt = 1],
      [NoPatch EXCEPT !.endsAt = NoTime, !.paused = "clear"],
      [NoPatch EXCEPT !.startsAt = 0, !.endsAt = 3] }

MCInitialSettings == {NewEvent, [NewEvent EXCEPT !.paused = TRUE]}

MCSymmetry == Permutations(Admins)
=============================================================================
