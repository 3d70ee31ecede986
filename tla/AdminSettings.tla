--------------------------- MODULE AdminSettings ---------------------------
(***************************************************************************)
(* The event settings every reader judges scores by, as                     *)
(* apps/web/src/lib/admin-store.ts writes them: settings patches            *)
(* (updateAdminSettings) and the master reset (resetEvent).  Each write is  *)
(* one Lua script, but the time it carries is taken before the script is    *)
(* sent, with the round trip that opens the score-lowering bracket between  *)
(* the two, and several organizers work at once.  So a request is two or    *)
(* three steps here and the clock may move, and other writes may land,      *)
(* between them.                                                            *)
(*                                                                          *)
(* frozenAt and openAt are history: the instants at which scoring was, from *)
(* the first moment of the instant to the last, frozen by a freeze of known *)
(* start, or not frozen.  They are what the pause log has to remember.      *)
(***************************************************************************)
EXTENDS ScoringPolicy

CONSTANTS
    Admins,        \* organizers with a request in flight at most one each
    Patches,       \* the settings patches they send
    InitialSettings, \* the settings a run may start from
    PauseLogCap,   \* PAUSE_LOG_CAP, 200 in the code
    MaxTime,       \* bound of the model: the last instant
    MaxWrites      \* bound of the model: requests sent

\* A patch leaves a field alone (Keep), clears it (NoTime) or sets it.
Keep == -2
Patch == [paused : {"keep", "set", "clear"},
          startsAt : Stamp \union {Keep}, endsAt : Stamp \union {Keep}]

ASSUME AdminAssumption ==
    /\ PauseLogCap \in Nat \ {0}
    /\ MaxTime \in Nat
    /\ MaxWrites \in Nat
    /\ Patches \subseteq Patch
    /\ InitialSettings \subseteq Policy
    /\ \A s \in InitialSettings :
          /\ s.startsAt # NoTime /\ s.endsAt # NoTime => s.startsAt < s.endsAt
          /\ s.pausedSince = NoTime \/ (s.pausedSince = 0 /\ s.paused)
          /\ s.pauses = <<>>

VARIABLES
    now,        \* the clock
    settings,   \* ctf:admin:settings and ctf:admin:pauses
    request,    \* the request each organizer has in flight
    writes,     \* requests sent so far (bounded by MaxWrites)
    steady,     \* how the freeze stood since this instant began
    frozenAt, openAt

adminVars == <<now, settings, request, writes, steady, frozenAt, openAt>>

\* The settings of a new deployment: nothing stored.
NewEvent == [paused |-> FALSE, pausedSince |-> NoTime, startsAt |-> NoTime,
             endsAt |-> NoTime, resetAt |-> NoTime, pauses |-> <<>>]

NoPatch == [paused |-> "keep", startsAt |-> Keep, endsAt |-> Keep]
Idle == [op |-> "none", patch |-> NoPatch, at |-> NoTime]

\* "update" and "reset" carry their time and wait for their script to run;
\* "wipe" is a reset about to delete the event's keys, "wiped" one that has.
Request == [op : {"none", "update", "wipe", "wiped", "reset"},
            patch : Patch, at : Stamp]

AdminTypeOK ==
    /\ now \in Instant
    /\ settings \in Policy
    /\ request \in [Admins -> Request]
    /\ writes \in Nat
    /\ steady \in {"frozen", "open", "mixed"}
    /\ frozenAt \subseteq Instant
    /\ openAt \subseteq Instant

(***************************************************************************)
(* The update script.                                                       *)
(***************************************************************************)
\* Defect: a field the patch leaves alone is written as absent from it.
Unmerged(new, stored) == new

Resulting(new, stored) == IF new = Keep THEN stored ELSE new

\* Defect: the window is checked within the patch, not on what it leaves.
PatchRefused(p, s) == p.startsAt >= 0 /\ p.endsAt >= 0 /\ p.endsAt <= p.startsAt

\* A patch that touches a bound is refused when the bounds it leaves behind
\* describe a window that never opens.
WindowRefused(p, s) ==
    LET start == Resulting(p.startsAt, s.startsAt)
        end   == Resulting(p.endsAt, s.endsAt)
    IN  /\ p.startsAt # Keep \/ p.endsAt # Keep
        /\ start # NoTime
        /\ end # NoTime
        /\ end <= start

LTrim(log, n) == IF Len(log) > n THEN SubSeq(log, 1, n) ELSE log

LoggedFreeze(s, at) ==
    IF s.pausedSince = NoTime THEN s.pauses
    ELSE LTrim(<<[from |-> s.pausedSince, to |-> at]>> \o s.pauses, PauseLogCap)

\* Defect: freezing what is frozen moves the freeze's start.
PausingAgain(p, s) == p.paused = "set"

Pausing(p, s)  == p.paused = "set" /\ ~s.paused
Resuming(p, s) == p.paused = "clear" /\ s.paused

UpdateScript(p, at, s) ==
    [paused      |-> p.paused = "set" \/ (s.paused /\ p.paused # "clear"),
     pausedSince |-> IF Pausing(p, s) THEN at
                     ELSE IF Resuming(p, s) THEN NoTime ELSE s.pausedSince,
     startsAt    |-> Resulting(p.startsAt, s.startsAt),
     endsAt      |-> Resulting(p.endsAt, s.endsAt),
     resetAt     |-> s.resetAt,
     pauses      |-> IF Resuming(p, s) THEN LoggedFreeze(s, at) ELSE s.pauses]

\* Defect: the reset freezes without a start of its own.
UnstampedReset(at, s) ==
    [paused |-> TRUE, pausedSince |-> s.pausedSince, startsAt |-> NoTime,
     endsAt |-> s.endsAt, resetAt |-> at, pauses |-> <<>>]

\* The reset freezes the event from the reset instant, moves the epoch, takes
\* the launch back and starts a fresh pause log.
ResetScript(at, s) ==
    [paused |-> TRUE, pausedSince |-> at, startsAt |-> NoTime,
     endsAt |-> s.endsAt, resetAt |-> at, pauses |-> <<>>]

(***************************************************************************)
(* The requests.                                                            *)
(***************************************************************************)
\* A patch that carries both bounds in the wrong order is refused before
\* anything is sent; otherwise the write's time is taken now.
SendUpdate(a, p) ==
    /\ request[a] = Idle
    /\ writes < MaxWrites
    /\ ~(p.startsAt >= 0 /\ p.endsAt >= 0 /\ p.endsAt <= p.startsAt)
    /\ request' = [request EXCEPT ![a] = [op |-> "update", patch |-> p, at |-> now]]
    /\ writes' = writes + 1
    /\ steady' = IF p.paused = "keep" THEN steady ELSE "mixed"
    /\ UNCHANGED <<now, settings, frozenAt, openAt>>

\* The script runs: it refuses the window, writing nothing, or writes all.
LandUpdate(a) ==
    LET r == request[a] IN
    /\ r.op = "update"
    /\ settings' = IF WindowRefused(r.patch, settings) THEN settings
                   ELSE UpdateScript(r.patch, r.at, settings)
    /\ request' = [request EXCEPT ![a] = Idle]
    /\ steady' = IF r.patch.paused = "keep" THEN steady ELSE "mixed"
    /\ UNCHANGED <<now, writes, frozenAt, openAt>>

SendReset(a) ==
    /\ request[a] = Idle
    /\ writes < MaxWrites
    /\ request' = [request EXCEPT ![a] = [Idle EXCEPT !.op = "wipe"]]
    /\ writes' = writes + 1
    /\ UNCHANGED <<now, settings, steady, frozenAt, openAt>>

\* The event's keys are deleted, prefix by prefix (RESET_PREFIXES): the
\* modules that keep those keys say what goes.
WipeEvent(a) ==
    /\ request[a].op = "wipe"
    /\ request' = [request EXCEPT ![a].op = "wiped"]
    /\ UNCHANGED <<now, settings, writes, steady, frozenAt, openAt>>

\* Every prefix is deleted: the reset takes its time and sends its script.
StampReset(a) ==
    /\ request[a].op = "wiped"
    /\ request' = [request EXCEPT ![a].op = "reset", ![a].at = now]
    /\ steady' = "mixed"
    /\ UNCHANGED <<now, settings, writes, frozenAt, openAt>>

\* The event begins again: the history before the epoch no longer matters.
LandReset(a) ==
    LET at == request[a].at IN
    /\ request[a].op = "reset"
    /\ settings' = ResetScript(at, settings)
    /\ request' = [request EXCEPT ![a] = Idle]
    /\ steady' = "mixed"
    /\ frozenAt' = {t \in frozenAt : t >= at}
    /\ openAt' = {t \in openAt : t < at}
    /\ UNCHANGED <<now, writes>>

\* A write that never reaches Redis (the bracket, a delete or the script
\* failed): the request answers an error and whatever it deleted stays deleted.
LoseWrite(a) ==
    /\ request[a] # Idle
    /\ request' = [request EXCEPT ![a] = Idle]
    /\ UNCHANGED <<now, settings, writes, steady, frozenAt, openAt>>

AdminStep(a) ==
    \/ \E p \in Patches : SendUpdate(a, p)
    \/ LandUpdate(a)
    \/ SendReset(a)
    \/ WipeEvent(a)
    \/ StampReset(a)
    \/ LandReset(a)
    \/ LoseWrite(a)

(***************************************************************************)
(* Time.  A request that can end or start a freeze at an instant already    *)
(* stamped leaves the instants it waits through undecided.                  *)
(***************************************************************************)
ResumePending == \E a \in Admins : request[a].op = "update" /\ request[a].patch.paused = "clear"
FreezePending == \E a \in Admins : \/ request[a].op = "update" /\ request[a].patch.paused = "set"
                                   \/ request[a].op = "reset"

SteadyNow == IF settings.paused /\ settings.pausedSince # NoTime /\ ~ResumePending THEN "frozen"
             ELSE IF ~settings.paused /\ ~FreezePending THEN "open"
             ELSE "mixed"

Tick ==
    /\ now < MaxTime
    /\ now' = now + 1
    /\ frozenAt' = IF steady = "frozen" THEN frozenAt \union {now} ELSE frozenAt
    /\ openAt' = IF steady = "open" THEN openAt \union {now} ELSE openAt
    /\ steady' = SteadyNow
    /\ UNCHANGED <<settings, request, writes>>

AdminInit ==
    /\ now = 0
    /\ settings \in InitialSettings
    /\ request = [a \in Admins |-> Idle]
    /\ writes = 0
    /\ steady = "mixed"
    /\ frozenAt = {}
    /\ openAt = {}

AdminNext == Tick \/ \E a \in Admins : AdminStep(a)

AdminSpec == AdminInit /\ [][AdminNext]_adminVars

(***************************************************************************)
(* Properties.                                                              *)
(***************************************************************************)
\* Whatever two organizers save at once, one moving the start and the other
\* the end, the stored bounds never describe a window that cannot open
\* (the check is made by UPDATE_SCRIPT on the resulting bounds).
WindowCanOpen ==
    settings.startsAt # NoTime /\ settings.endsAt # NoTime
        => settings.startsAt < settings.endsAt

\* A score posted while scoring was frozen is still refused however much later
\* it is read, after any number of resumes, freezes and resets: pausedSince
\* and the pause log together cover every instant of every freeze whose start
\* is known, as long as the capped log has not had to drop an interval.
FreezeIsRemembered ==
    Len(settings.pauses) < PauseLogCap
        => \A t \in frozenAt : PausedAt(t, settings)

\* A score posted while scoring was open is never refused as frozen later: the
\* intervals on the log and the open freeze cover no instant at which scoring
\* was open and no freeze was on its way.
OpenIsRemembered == \A t \in openAt : ~PausedAt(t, settings)
=============================================================================
