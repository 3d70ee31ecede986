--------------------------- MODULE ScoringPolicy ---------------------------
(***************************************************************************)
(* When does a score count?  The event's settings hold a scheduled scoring *)
(* window, a manual freeze with the log of the freezes that ended, and the *)
(* epoch of the last master reset.  The three services carry the same      *)
(* functions over them (scorer/src/store.js, sync/src/redis.js and         *)
(* apps/web/src/lib/schedule-window.ts); the scorer judges every score     *)
(* with them AT the time of its GitHub comment, not on arrival (ADR 67).   *)
(*                                                                         *)
(* Instants are natural numbers.  NoTime stands for an absent bound; a     *)
(* bound that does not parse is read the same way by every reader.         *)
(***************************************************************************)
EXTENDS Integers, Sequences

NoTime == -1

Instant == Nat
Stamp == Instant \union {NoTime}

\* One entry of ctf:admin:pauses, a freeze that ended: from <= t < to.
Interval == [from : Instant, to : Instant]

\* What readScoringPolicy returns: the settings hash fields and the log,
\* newest interval first.
Policy == [paused : BOOLEAN, pausedSince : Stamp, startsAt : Stamp,
           endsAt : Stamp, resetAt : Stamp, pauses : Seq(Interval)]

OutsideWindow(t, startsAt, endsAt) ==
    \/ startsAt # NoTime /\ t < startsAt
    \/ endsAt # NoTime /\ t > endsAt

\* The scoring window needs a start: without one the event is not launched.
OutsideScoringWindow(t, startsAt, endsAt) ==
    startsAt = NoTime \/ OutsideWindow(t, startsAt, endsAt)

\* Defect: the open freeze reaches back before its start.
CoversThePast(t, s) == s.paused

\* The freeze still open covers t.  Its start may be unknown (a flag set by
\* hand): then it covers every instant.
InOpenFreeze(t, s) == s.paused /\ (s.pausedSince = NoTime \/ t >= s.pausedSince)

InLoggedFreeze(t, s) ==
    \E i \in DOMAIN s.pauses : s.pauses[i].from <= t /\ t < s.pauses[i].to

\* Defect: the log of ended freezes is not consulted.
OpenFreezeOnly(t, s) == InOpenFreeze(t, s)

PausedAt(t, s) == InOpenFreeze(t, s) \/ InLoggedFreeze(t, s)

(***************************************************************************)
(* The scorer's verdict on a score posted at t.  The refusals that are     *)
(* final for t come first; a freeze of unknown start is the one "retry".   *)
(***************************************************************************)
Refusals == {"pre-reset", "outside-window", "paused"}
Verdicts == Refusals \union {"retry", "record"}

JudgeScoreTime(t, s) ==
    IF s.resetAt # NoTime /\ t < s.resetAt THEN "pre-reset"
    ELSE IF OutsideScoringWindow(t, s.startsAt, s.endsAt) THEN "outside-window"
    ELSE IF s.paused /\ s.pausedSince = NoTime THEN "retry"
    ELSE IF PausedAt(t, s) THEN "paused"
    ELSE "record"

\* The time a score is judged at and its solve recorded with: a time too far
\* ahead of the scorer's clock is clock skew and becomes the scorer's now.
ScoreTime(at, clock, maxSkew) == IF at > clock + maxSkew THEN clock ELSE at
=============================================================================
