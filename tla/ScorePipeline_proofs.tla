------------------------ MODULE ScorePipeline_proofs ------------------------
(***************************************************************************)
(* AdminSettings, for any number of organizers, patches and log entries: the *)
(* settings keep their types, the stored window can open, and the freeze and *)
(* the pause log remember exactly the instants they must.  ScorePipeline,    *)
(* for any comments, targets, page size, dedupe cap, faults and crashes: no  *)
(* score is lost between GitHub and the board, in the process or across a    *)
(* restart, a solve keeps its first time, drops are counted, and the freeze  *)
(* is honoured however late a score is judged.                               *)
(***************************************************************************)
EXTENDS ScorePipeline, FiniteSetTheorems, TLAPS

-----------------------------------------------------------------------------
(* AdminSettings *)

(***************************************************************************)
(* The log.                                                                 *)
(***************************************************************************)
\* Trimming a log keeps a prefix of it, and all of it when it fits.
LEMMA LTrimFacts ==
    ASSUME NEW log \in Seq(Interval), NEW n \in Nat
    PROVE  /\ LTrim(log, n) \in Seq(Interval)
           /\ Len(LTrim(log, n)) <= n
           /\ Len(log) <= n => LTrim(log, n) = log
           /\ \A i \in DOMAIN LTrim(log, n) : i \in DOMAIN log /\ LTrim(log, n)[i] = log[i]
<1>1. CASE Len(log) > n
  <2>1. LTrim(log, n) = SubSeq(log, 1, n) BY <1>1 DEF LTrim
  <2>2. QED BY <1>1, <2>1
<1>2. CASE ~(Len(log) > n) BY <1>2 DEF LTrim
<1>3. QED BY <1>1, <1>2

\* Ending a freeze puts its interval on the log, before what was there.
LEMMA LoggedFreezeFacts ==
    ASSUME NEW s \in Policy, NEW at \in Instant, s.pausedSince # NoTime
    PROVE  LET log   == LoggedFreeze(s, at)
               entry == [from |-> s.pausedSince, to |-> at]
           IN  /\ log \in Seq(Interval)
               /\ \A i \in DOMAIN log : log[i] = entry \/ \E j \in DOMAIN s.pauses : log[i] = s.pauses[j]
               /\ Len(log) < PauseLogCap
                    => /\ Len(s.pauses) < PauseLogCap
                       /\ \E i \in DOMAIN log : log[i] = entry
                       /\ \A j \in DOMAIN s.pauses : \E i \in DOMAIN log : log[i] = s.pauses[j]
<1> DEFINE entry == [from |-> s.pausedSince, to |-> at]
           full  == <<entry>> \o s.pauses
           log   == LoggedFreeze(s, at)
<1>0. PauseLogCap \in Nat \ {0} BY AdminAssumption
<1>1. entry \in Interval /\ s.pauses \in Seq(Interval)
  BY DEF Interval, Policy, Stamp, Instant
<1>2. /\ full \in Seq(Interval)
      /\ Len(full) = Len(s.pauses) + 1
      /\ full[1] = entry
      /\ \A i \in 2..Len(full) : full[i] = s.pauses[i - 1]
  BY <1>1
<1>3. log = LTrim(full, PauseLogCap) BY DEF LoggedFreeze
<1> HIDE DEF entry, full, log
<1>4. /\ log \in Seq(Interval)
      /\ Len(log) <= PauseLogCap
      /\ Len(full) <= PauseLogCap => log = full
      /\ \A i \in DOMAIN log : i \in DOMAIN full /\ log[i] = full[i]
  BY <1>0, <1>2, <1>3, LTrimFacts
<1>5. \A i \in DOMAIN log : log[i] = entry \/ \E j \in DOMAIN s.pauses : log[i] = s.pauses[j]
  BY <1>1, <1>2, <1>4
<1>6. ASSUME Len(log) < PauseLogCap
      PROVE  log = full /\ Len(s.pauses) < PauseLogCap
  <2>1. CASE Len(full) <= PauseLogCap BY <2>1, <1>0, <1>1, <1>2, <1>4, <1>6
  <2>2. CASE Len(full) > PauseLogCap
    <3>1. log = SubSeq(full, 1, PauseLogCap) BY <2>2, <1>3 DEF LTrim
    <3>2. Len(log) = PauseLogCap BY <3>1, <2>2, <1>0, <1>2
    <3>3. QED BY <3>2, <1>6, <1>0
  <2>3. QED BY <2>1, <2>2, <1>0, <1>1, <1>2
<1>7. ASSUME Len(log) < PauseLogCap
      PROVE  /\ \E i \in DOMAIN log : log[i] = entry
             /\ \A j \in DOMAIN s.pauses : \E i \in DOMAIN log : log[i] = s.pauses[j]
  <2>1. log = full BY <1>6, <1>7
  <2>2. 1 \in DOMAIN full BY <1>1, <1>2
  <2>3. \A j \in DOMAIN s.pauses : j + 1 \in DOMAIN full /\ full[j + 1] = s.pauses[j]
    BY <1>1, <1>2
  <2>4. QED BY <2>1, <2>2, <2>3, <1>2
<1>8. QED BY <1>4, <1>5, <1>6, <1>7 DEF entry, log

(***************************************************************************)
(* The inductive invariant.  Beyond the properties it says which requests   *)
(* may still move the edge of a freeze: a resume in flight is stamped after *)
(* every instant remembered as frozen, a freeze in flight after every       *)
(* instant remembered as open, and no instant is taken for frozen or open   *)
(* from first to last while one is in flight.                               *)
(***************************************************************************)
Resumes(a) == request[a].op = "update" /\ request[a].patch.paused = "clear"
Freezes(a) == \/ request[a].op = "update" /\ request[a].patch.paused = "set"
              \/ request[a].op = "reset"

RequestsStamped == \A a \in Admins :
    request[a].op \in {"update", "reset"} => request[a].at \in Instant /\ request[a].at <= now

PastOnly == /\ \A t \in frozenAt \union openAt : t < now
            /\ settings.pausedSince <= now
            /\ \A i \in DOMAIN settings.pauses : settings.pauses[i].to <= now

Remembered(t, s) == \/ s.paused /\ s.pausedSince # NoTime /\ s.pausedSince <= t
                    \/ InLoggedFreeze(t, s)

FreezeKept == Len(settings.pauses) < PauseLogCap
                => \A t \in frozenAt : Remembered(t, settings)

EdgesAhead == \A a \in Admins :
    /\ Resumes(a) => \A t \in frozenAt : t < request[a].at
    /\ Freezes(a) => \A t \in openAt : t < request[a].at

SteadyIsTrue ==
    /\ steady = "frozen" => settings.paused /\ settings.pausedSince # NoTime /\ \A a \in Admins : ~Resumes(a)
    /\ steady = "open" => ~settings.paused /\ \A a \in Admins : ~Freezes(a)

AdminInv == /\ AdminTypeOK
            /\ WindowCanOpen
            /\ RequestsStamped
            /\ PastOnly
            /\ FreezeKept
            /\ OpenIsRemembered
            /\ EdgesAhead
            /\ SteadyIsTrue

(***************************************************************************)
(* What the update script does to the settings, patch by patch.             *)
(***************************************************************************)
\* The script keeps the types, and refuses the windows it must.
LEMMA UpdateScriptFacts ==
    ASSUME NEW s \in Policy, NEW p \in Patch, NEW at \in Instant,
           s.startsAt # NoTime /\ s.endsAt # NoTime => s.startsAt < s.endsAt,
           ~WindowRefused(p, s)
    PROVE  LET u == UpdateScript(p, at, s)
           IN  /\ u \in Policy
               /\ u.startsAt # NoTime /\ u.endsAt # NoTime => u.startsAt < u.endsAt
<1> DEFINE u == UpdateScript(p, at, s)
<1>1. /\ s.pausedSince \in Stamp /\ s.resetAt \in Stamp /\ s.startsAt \in Stamp /\ s.endsAt \in Stamp
      /\ s.paused \in BOOLEAN /\ s.pauses \in Seq(Interval)
  BY DEF Policy
<1>2. /\ Resulting(p.startsAt, s.startsAt) \in Stamp
      /\ Resulting(p.endsAt, s.endsAt) \in Stamp
  BY <1>1 DEF Resulting, Patch
<1>3. LoggedFreeze(s, at) \in Seq(Interval)
  BY <1>1, LoggedFreezeFacts DEF LoggedFreeze
<1>4. u \in Policy
  <2>2. (IF Pausing(p, s) THEN at ELSE IF Resuming(p, s) THEN NoTime ELSE s.pausedSince) \in Stamp
    BY <1>1 DEF Stamp
  <2>3. (IF Resuming(p, s) THEN LoggedFreeze(s, at) ELSE s.pauses) \in Seq(Interval)
    BY <1>1, <1>3
  <2>4. ((p.paused = "set") \/ (s.paused /\ p.paused # "clear")) \in BOOLEAN
    OBVIOUS
  <2>5. QED BY <1>1, <1>2, <2>2, <2>3, <2>4 DEF Policy, UpdateScript
<1>5. u.startsAt = Resulting(p.startsAt, s.startsAt) /\ u.endsAt = Resulting(p.endsAt, s.endsAt)
  BY DEF UpdateScript, Policy
<1>6. u.startsAt # NoTime /\ u.endsAt # NoTime => u.startsAt < u.endsAt
  <2> HIDE DEF u
  <2>1. CASE p.startsAt = Keep /\ p.endsAt = Keep
    BY <2>1, <1>5 DEF Resulting
  <2>2. CASE p.startsAt # Keep \/ p.endsAt # Keep
    BY <2>2, <1>2, <1>5 DEF WindowRefused, Stamp, Instant, NoTime
  <2>3. QED BY <2>1, <2>2
<1>7. QED BY <1>4, <1>6 DEF u

\* A script that does not end a freeze leaves the log alone, and one that
\* starts none moves no start.
LEMMA UpdateScriptCases ==
    ASSUME NEW s \in Policy, NEW p \in Patch, NEW at \in Instant
    PROVE  LET u == UpdateScript(p, at, s)
           IN  /\ u.paused = ((p.paused = "set") \/ (s.paused /\ p.paused # "clear"))
               /\ Pausing(p, s) => u.pausedSince = at /\ u.pauses = s.pauses
               /\ Resuming(p, s) => u.pausedSince = NoTime /\ u.pauses = LoggedFreeze(s, at)
               /\ ~Pausing(p, s) /\ ~Resuming(p, s)
                    => u.pausedSince = s.pausedSince /\ u.pauses = s.pauses /\ u.paused = s.paused
BY DEF UpdateScript, Policy, Pausing, Resuming, Patch

(***************************************************************************)
(* The invariant holds at the start and through every step.                 *)
(***************************************************************************)
LEMMA AdminInitInv == AdminInit => AdminInv
<1> SUFFICES ASSUME AdminInit PROVE AdminInv
  OBVIOUS
<1> USE AdminAssumption DEF AdminInit
<1>1. settings \in Policy /\ settings.pauses = <<>> /\ settings.pausedSince <= 0
  BY DEF NoTime
<1>2. request \in [Admins -> Request]
  BY DEF Idle, NoPatch, Request, Patch, Stamp, Instant, NoTime, Keep
<1>3. AdminTypeOK BY <1>1, <1>2 DEF AdminTypeOK, Instant
<1>4. WindowCanOpen BY DEF WindowCanOpen
<1>5. \A a \in Admins : request[a].op = "none" BY DEF Idle
<1>6. RequestsStamped /\ EdgesAhead
  BY <1>5 DEF RequestsStamped, EdgesAhead, Resumes, Freezes
<1>7. PastOnly /\ FreezeKept /\ OpenIsRemembered /\ SteadyIsTrue
  BY <1>1 DEF PastOnly, FreezeKept, OpenIsRemembered, SteadyIsTrue
<1>8. QED BY <1>3, <1>4, <1>6, <1>7 DEF AdminInv

\* A step that leaves the clock, the settings and the history alone, sends or
\* drops requests only, and lets no instant be taken for frozen or open while
\* a request that says otherwise is in flight.
LEMMA RequestStep ==
    ASSUME AdminInv, NEW a \in Admins, NEW r \in Request,
           request' = [request EXCEPT ![a] = r],
           UNCHANGED <<now, settings, frozenAt, openAt>>,
           writes' \in Nat,
           r.op \in {"update", "reset"} => r.at = now,
           steady' = steady \/ steady' = "mixed",
           steady' = "mixed" \/ r.op \in {"none", "wipe", "wiped"}
             \/ (r.op = "update" /\ r.patch.paused = "keep")
    PROVE  AdminInv'
<1> USE DEF AdminInv
<1>1. \A b \in Admins : request'[b] = IF b = a THEN r ELSE request[b]
  BY DEF AdminTypeOK
<1>2. AdminTypeOK' BY DEF AdminTypeOK
<1>3. WindowCanOpen' /\ PastOnly' /\ FreezeKept' /\ OpenIsRemembered'
  BY DEF WindowCanOpen, PastOnly, FreezeKept, OpenIsRemembered, Remembered, PausedAt,
         InOpenFreeze, InLoggedFreeze
<1>4. RequestsStamped' BY <1>1 DEF RequestsStamped, AdminTypeOK, Instant
<1>5. EdgesAhead'
  <2>1. \A t \in frozenAt \union openAt : t < now BY DEF PastOnly
  <2>2. \A b \in Admins : b # a => (Resumes(b)' <=> Resumes(b)) /\ (Freezes(b)' <=> Freezes(b))
    BY <1>1 DEF Resumes, Freezes
  <2>3. Resumes(a)' \/ Freezes(a)' => request'[a].at = now
    BY <1>1 DEF Resumes, Freezes
  <2>4. QED BY <1>1, <2>1, <2>2, <2>3 DEF EdgesAhead
<1>6. SteadyIsTrue'
  <2>1. CASE steady' = "mixed" BY <2>1 DEF SteadyIsTrue
  <2>2. CASE steady' # "mixed"
    <3>1. \A b \in Admins : (Resumes(b)' => Resumes(b)) /\ (Freezes(b)' => Freezes(b))
      BY <2>2, <1>1 DEF Resumes, Freezes
    <3>2. QED BY <2>2, <3>1 DEF SteadyIsTrue
  <2>3. QED BY <2>1, <2>2
<1>7. QED BY <1>2, <1>3, <1>4, <1>5, <1>6

\* The update script runs: a freeze it starts begins after every instant
\* remembered as open, and the interval it logs covers every instant
\* remembered as frozen that the open freeze covered.
LEMMA LandUpdateInv ==
    ASSUME AdminInv, NEW a \in Admins, LandUpdate(a)
    PROVE  AdminInv'
<1> DEFINE r == request[a]
           p == r.patch
           s == settings
<1> USE DEF AdminInv, LandUpdate
<1>1. /\ r \in Request /\ r.op = "update" /\ p \in Patch /\ s \in Policy
      /\ r.at \in Instant /\ r.at <= now /\ now \in Instant
  BY DEF AdminTypeOK, RequestsStamped, Request
<1>2. Idle \in Request
  BY DEF Idle, NoPatch, Request, Patch, Stamp, Instant, NoTime, Keep
<1>3. \A b \in Admins : request'[b] = IF b = a THEN Idle ELSE request[b]
  BY DEF AdminTypeOK
<1>4. \A b \in Admins : (Resumes(b)' => Resumes(b)) /\ (Freezes(b)' => Freezes(b))
                        /\ (Resumes(b)' \/ Freezes(b)' => request'[b] = request[b])
  BY <1>3 DEF Resumes, Freezes, Idle
<1>5. CASE WindowRefused(p, s)
  <2>1. settings' = settings BY <1>5
  <2>2. AdminTypeOK' BY <1>2, <2>1 DEF AdminTypeOK
  <2>3. WindowCanOpen' /\ PastOnly' /\ FreezeKept' /\ OpenIsRemembered'
    BY <2>1 DEF WindowCanOpen, PastOnly, FreezeKept, OpenIsRemembered, Remembered, PausedAt,
                InOpenFreeze, InLoggedFreeze
  <2>4. RequestsStamped' BY <1>3 DEF RequestsStamped, Idle
  <2>5. EdgesAhead' /\ SteadyIsTrue' BY <1>4, <2>1 DEF EdgesAhead, SteadyIsTrue
  <2>6. QED BY <2>2, <2>3, <2>4, <2>5
<1>6. CASE ~WindowRefused(p, s)
  <2> DEFINE u == UpdateScript(p, r.at, s)
  <2>1. settings' = u BY <1>6
  <2>2. u \in Policy /\ (u.startsAt # NoTime /\ u.endsAt # NoTime => u.startsAt < u.endsAt)
    BY <1>1, <1>6, UpdateScriptFacts DEF WindowCanOpen
  <2>3. /\ u.paused = ((p.paused = "set") \/ (s.paused /\ p.paused # "clear"))
        /\ Pausing(p, s) => u.pausedSince = r.at /\ u.pauses = s.pauses
        /\ Resuming(p, s) => u.pausedSince = NoTime /\ u.pauses = LoggedFreeze(s, r.at)
        /\ ~Pausing(p, s) /\ ~Resuming(p, s)
             => u.pausedSince = s.pausedSince /\ u.pauses = s.pauses /\ u.paused = s.paused
    BY <1>1, UpdateScriptCases
  <2> HIDE DEF u
  <2>4. AdminTypeOK' BY <1>2, <2>1, <2>2 DEF AdminTypeOK
  <2>5. WindowCanOpen' BY <2>1, <2>2 DEF WindowCanOpen
  <2>6. RequestsStamped' BY <1>3 DEF RequestsStamped, Idle
  <2>7. EdgesAhead' BY <1>4 DEF EdgesAhead
  <2>8. SteadyIsTrue'
    <3>1. CASE p.paused = "keep"
      <4>1. u.pausedSince = s.pausedSince /\ u.paused = s.paused /\ steady' = steady
        BY <2>3, <3>1 DEF Pausing, Resuming
      <4>2. QED BY <1>4, <2>1, <4>1 DEF SteadyIsTrue
    <3>2. CASE p.paused # "keep" BY <3>2 DEF SteadyIsTrue
    <3>3. QED BY <3>1, <3>2
  <2>9. CASE ~Resuming(p, s)
    <3>1. u.pauses = s.pauses BY <2>3, <2>9
    <3>2. PastOnly'
      BY <1>1, <2>1, <2>3, <2>9, <3>1 DEF PastOnly
    <3>3. s.paused => u.paused /\ u.pausedSince = s.pausedSince
      <4>1. SUFFICES ASSUME s.paused PROVE u.paused /\ u.pausedSince = s.pausedSince
        OBVIOUS
      <4>2. ~Pausing(p, s) BY <4>1 DEF Pausing
      <4>3. QED BY <2>3, <2>9, <4>1, <4>2
    <3>4. FreezeKept'
      BY <2>1, <3>1, <3>3 DEF FreezeKept, Remembered, InLoggedFreeze
    <3>5. OpenIsRemembered'
      <4>1. Freezes(a) \/ (u.pausedSince = s.pausedSince /\ u.paused = s.paused)
        BY <1>1, <2>3, <2>9 DEF Freezes, Pausing
      <4>2. CASE u.pausedSince = s.pausedSince /\ u.paused = s.paused
        BY <2>1, <3>1, <4>2 DEF OpenIsRemembered, PausedAt, InOpenFreeze, InLoggedFreeze
      <4>3. CASE Pausing(p, s)
        <5>1. \A t \in openAt : t < r.at /\ t \in Instant
          BY <1>1, <4>3 DEF EdgesAhead, Freezes, Pausing, AdminTypeOK
        <5>2. u.pausedSince = r.at /\ u.pausedSince # NoTime
          BY <1>1, <2>3, <4>3 DEF NoTime, Instant
        <5>3. QED BY <1>1, <2>1, <3>1, <5>1, <5>2
                  DEF OpenIsRemembered, PausedAt, InOpenFreeze, InLoggedFreeze, Instant
      <4>4. QED BY <4>1, <4>2, <4>3, <2>3, <2>9
    <3>6. QED BY <2>4, <2>5, <2>6, <2>7, <2>8, <3>2, <3>4, <3>5
  <2>10. CASE Resuming(p, s)
    <3>1. /\ s.paused /\ ~u.paused /\ u.pausedSince = NoTime
          /\ u.pauses = LoggedFreeze(s, r.at) /\ Resumes(a)
      BY <1>1, <2>3, <2>10 DEF Resuming, Resumes
    <3>2. CASE s.pausedSince = NoTime
      <4>1. u.pauses = s.pauses BY <3>1, <3>2 DEF LoggedFreeze
      <4>2. PastOnly' BY <2>1, <3>1, <3>2, <4>1 DEF PastOnly
      <4>3. FreezeKept'
        BY <2>1, <3>1, <3>2, <4>1 DEF FreezeKept, Remembered, InLoggedFreeze
      <4>4. OpenIsRemembered'
        BY <2>1, <3>1, <4>1 DEF OpenIsRemembered, PausedAt, InOpenFreeze, InLoggedFreeze
      <4>5. QED BY <2>4, <2>5, <2>6, <2>7, <2>8, <4>2, <4>3, <4>4
    <3>3. CASE s.pausedSince # NoTime
      <4> DEFINE entry == [from |-> s.pausedSince, to |-> r.at]
      <4>1. /\ u.pauses \in Seq(Interval)
            /\ \A i \in DOMAIN u.pauses :
                  u.pauses[i] = entry \/ \E j \in DOMAIN s.pauses : u.pauses[i] = s.pauses[j]
            /\ Len(u.pauses) < PauseLogCap
                 => /\ Len(s.pauses) < PauseLogCap
                    /\ \E i \in DOMAIN u.pauses : u.pauses[i] = entry
                    /\ \A j \in DOMAIN s.pauses : \E i \in DOMAIN u.pauses : u.pauses[i] = s.pauses[j]
        BY <1>1, <3>1, <3>3, LoggedFreezeFacts
      <4>2. entry.from = s.pausedSince /\ entry.to = r.at OBVIOUS
      <4> HIDE DEF entry
      <4>3. PastOnly'
        <5>1. u.pausedSince <= now BY <1>1, <3>1 DEF NoTime, Instant
        <5>2. \A i \in DOMAIN u.pauses : u.pauses[i].to <= now
          BY <1>1, <4>1, <4>2 DEF PastOnly
        <5>3. QED BY <2>1, <5>1, <5>2 DEF PastOnly
      <4>4. FreezeKept'
        <5>1. SUFFICES ASSUME Len(u.pauses) < PauseLogCap, NEW t \in frozenAt
                       PROVE  InLoggedFreeze(t, u)
          BY <2>1 DEF FreezeKept, Remembered
        <5>2. Remembered(t, s) BY <4>1, <5>1 DEF FreezeKept
        <5>3. t < r.at BY <3>1 DEF EdgesAhead
        <5>4. QED BY <4>1, <4>2, <5>1, <5>2, <5>3 DEF Remembered, InLoggedFreeze
      <4>5. OpenIsRemembered'
        <5>1. SUFFICES ASSUME NEW t \in openAt PROVE ~PausedAt(t, u)
          BY <2>1 DEF OpenIsRemembered
        <5>2. ~PausedAt(t, s) BY DEF OpenIsRemembered
        <5>3. ~(t >= s.pausedSince) BY <3>1, <5>2 DEF PausedAt, InOpenFreeze
        <5>4. QED BY <3>1, <4>1, <4>2, <5>2, <5>3 DEF PausedAt, InOpenFreeze, InLoggedFreeze
      <4>6. QED BY <2>4, <2>5, <2>6, <2>7, <2>8, <4>3, <4>4, <4>5
    <3>4. QED BY <3>2, <3>3
  <2>11. QED BY <2>9, <2>10
<1>7. QED BY <1>5, <1>6

\* The reset freezes from its own instant, behind which no instant stays
\* remembered as frozen, and after which none stays remembered as open.
LEMMA LandResetInv ==
    ASSUME AdminInv, NEW a \in Admins, LandReset(a)
    PROVE  AdminInv'
<1> DEFINE at == request[a].at
<1> USE DEF AdminInv, LandReset
<1>1. at \in Instant /\ at <= now /\ settings \in Policy /\ at # NoTime
  BY DEF AdminTypeOK, RequestsStamped, Instant, NoTime
<1>2. Idle \in Request
  BY DEF Idle, NoPatch, Request, Patch, Stamp, Instant, NoTime, Keep
<1>3. \A b \in Admins : request'[b] = IF b = a THEN Idle ELSE request[b]
  BY DEF AdminTypeOK
<1>4. \A b \in Admins : (Resumes(b)' => Resumes(b)) /\ (Freezes(b)' => Freezes(b))
                        /\ (Resumes(b)' \/ Freezes(b)' => request'[b] = request[b])
  BY <1>3 DEF Resumes, Freezes, Idle
<1>5. /\ settings' \in Policy /\ settings'.startsAt = NoTime
      /\ settings'.paused /\ settings'.pausedSince = at /\ settings'.pauses = <<>>
  BY <1>1 DEF ResetScript, Policy, Stamp
<1>6. AdminTypeOK' BY <1>2, <1>5 DEF AdminTypeOK
<1>7. WindowCanOpen' BY <1>5 DEF WindowCanOpen
<1>8. RequestsStamped' BY <1>3 DEF RequestsStamped, Idle
<1>9. PastOnly' BY <1>1, <1>5 DEF PastOnly
<1>10. FreezeKept' BY <1>1, <1>5 DEF FreezeKept, Remembered
<1>11. OpenIsRemembered'
  <2>1. SUFFICES ASSUME NEW t \in openAt' PROVE ~PausedAt(t, settings')
    BY DEF OpenIsRemembered
  <2>2. t < at /\ t \in Instant BY DEF AdminTypeOK
  <2>3. ~InLoggedFreeze(t, settings') BY <1>5 DEF InLoggedFreeze
  <2>4. ~InOpenFreeze(t, settings') BY <1>1, <1>5, <2>2 DEF InOpenFreeze, Instant
  <2>5. QED BY <2>3, <2>4 DEF PausedAt
<1>12. EdgesAhead' BY <1>4 DEF EdgesAhead
<1>13. SteadyIsTrue' BY DEF SteadyIsTrue
<1>14. QED BY <1>6, <1>7, <1>8, <1>9, <1>10, <1>11, <1>12, <1>13

\* The two ends of a logged freeze are instants.
LEMMA PausesAreStamped ==
  ASSUME NEW s \in Policy, NEW i \in DOMAIN s.pauses
  PROVE  s.pauses[i].from \in Instant /\ s.pauses[i].to \in Instant
<1>1. s.pauses \in Seq(Interval) BY DEF Policy
<1>2. s.pauses[i] \in Interval BY <1>1
<1>3. QED BY <1>2 DEF Interval

\* The clock moves: an instant through which scoring was frozen is covered by
\* the open freeze, one through which it was open is covered by nothing.
LEMMA TickInv == AdminInv /\ Tick => AdminInv'
<1> SUFFICES ASSUME AdminInv, Tick PROVE AdminInv'
  OBVIOUS
<1> USE DEF AdminInv, Tick
<1>1. now \in Instant /\ now' = now + 1 /\ now < now' /\ settings \in Policy
  BY DEF AdminTypeOK, Instant
<1>2. AdminTypeOK'
  <2>1. frozenAt' \subseteq Instant /\ openAt' \subseteq Instant /\ now' \in Instant
    BY <1>1 DEF AdminTypeOK, Instant
  <2>2. steady' \in {"frozen", "open", "mixed"} BY DEF SteadyNow
  <2>3. QED BY <2>1, <2>2 DEF AdminTypeOK
<1>3. WindowCanOpen' BY DEF WindowCanOpen
<1>4. RequestsStamped' BY <1>1 DEF RequestsStamped, Instant
<1>5. PastOnly'
  <2>1. \A t \in frozenAt' \union openAt' : t = now \/ t \in frozenAt \union openAt
    OBVIOUS
  <2>2. \A t \in frozenAt' \union openAt' : t < now'
    BY <1>1, <2>1 DEF PastOnly, AdminTypeOK, Instant
  <2>3. settings'.pausedSince <= now'
    BY <1>1 DEF PastOnly, Policy, Stamp, Instant, NoTime
  <2>4. \A i \in DOMAIN settings.pauses : settings.pauses[i].to \in Instant
    BY <1>1, PausesAreStamped
  <2>5. \A i \in DOMAIN settings'.pauses : settings'.pauses[i].to <= now'
    <3>1. SUFFICES ASSUME NEW i \in DOMAIN settings.pauses PROVE settings.pauses[i].to <= now'
      OBVIOUS
    <3>2. settings.pauses[i].to \in Instant /\ settings.pauses[i].to <= now
      BY <2>4 DEF PastOnly
    <3>3. QED BY <1>1, <3>2 DEF Instant
  <2>6. QED BY <2>2, <2>3, <2>5 DEF PastOnly
<1>6. FreezeKept'
  <2>1. SUFFICES ASSUME Len(settings.pauses) < PauseLogCap, NEW t \in frozenAt'
                 PROVE  Remembered(t, settings)
    BY DEF FreezeKept, Remembered, InLoggedFreeze
  <2>2. CASE t \in frozenAt BY <2>1, <2>2 DEF FreezeKept
  <2>3. CASE t \notin frozenAt
    <3>1. steady = "frozen" /\ t = now BY <2>3
    <3>2. QED BY <3>1 DEF SteadyIsTrue, PastOnly, Remembered
  <2>4. QED BY <2>2, <2>3
<1>7. OpenIsRemembered'
  <2>1. SUFFICES ASSUME NEW t \in openAt' PROVE ~PausedAt(t, settings)
    BY DEF OpenIsRemembered, PausedAt, InOpenFreeze, InLoggedFreeze
  <2>2. CASE t \in openAt BY <2>2 DEF OpenIsRemembered
  <2>3. CASE t \notin openAt
    <3>1. steady = "open" /\ t = now /\ ~settings.paused BY <2>3 DEF SteadyIsTrue
    <3>2. \A i \in DOMAIN settings.pauses : settings.pauses[i].to \in Instant /\ settings.pauses[i].to <= now
      BY <1>1, PausesAreStamped DEF PastOnly
    <3>3. ~InLoggedFreeze(t, settings)
      <4>1. SUFFICES ASSUME NEW i \in DOMAIN settings.pauses, t < settings.pauses[i].to PROVE FALSE
        BY DEF InLoggedFreeze
      <4>2. QED BY <1>1, <3>1, <3>2, <4>1 DEF Instant
    <3>4. QED BY <3>1, <3>3 DEF PausedAt, InOpenFreeze
  <2>4. QED BY <2>2, <2>3
<1>8. EdgesAhead'
  <2>1. SUFFICES ASSUME NEW b \in Admins
                 PROVE  /\ Resumes(b) => \A t \in frozenAt' : t < request[b].at
                        /\ Freezes(b) => \A t \in openAt' : t < request[b].at
    BY DEF EdgesAhead, Resumes, Freezes
  <2>2. Resumes(b) => frozenAt' = frozenAt BY DEF SteadyIsTrue
  <2>3. Freezes(b) => openAt' = openAt BY DEF SteadyIsTrue
  <2>4. QED BY <2>2, <2>3 DEF EdgesAhead
<1>9. SteadyIsTrue'
  BY DEF SteadyIsTrue, SteadyNow, ResumePending, FreezePending, Resumes, Freezes
<1>10. QED BY <1>2, <1>3, <1>4, <1>5, <1>6, <1>7, <1>8, <1>9

LEMMA AdminNextInv == AdminInv /\ [AdminNext]_adminVars => AdminInv'
<1> SUFFICES ASSUME AdminInv, [AdminNext]_adminVars PROVE AdminInv'
  OBVIOUS
<1>1. \A b \in Admins : request[b] \in Request BY DEF AdminInv, AdminTypeOK
<1>2. writes \in Nat /\ now \in Instant BY DEF AdminInv, AdminTypeOK
<1>3. CASE Tick BY <1>3, TickInv
<1>4. ASSUME NEW a \in Admins, NEW p \in Patches, SendUpdate(a, p) PROVE AdminInv'
  <2> DEFINE r == [op |-> "update", patch |-> p, at |-> now]
  <2>1. r \in Request BY <1>2, AdminAssumption DEF Request, Stamp
  <2>2. /\ request' = [request EXCEPT ![a] = r] /\ writes' \in Nat
        /\ UNCHANGED <<now, settings, frozenAt, openAt>>
        /\ steady' = IF p.paused = "keep" THEN steady ELSE "mixed"
    BY <1>2, <1>4 DEF SendUpdate
  <2>3. QED BY <2>1, <2>2, RequestStep
<1>5. ASSUME NEW a \in Admins, SendReset(a) \/ WipeEvent(a) \/ StampReset(a) \/ LoseWrite(a)
      PROVE  AdminInv'
  <2>1. Idle \in Request
    BY DEF Idle, NoPatch, Request, Patch, Stamp, Instant, NoTime, Keep
  <2>2. CASE SendReset(a)
    <3> DEFINE r == [Idle EXCEPT !.op = "wipe"]
    <3>1. r \in Request /\ r.op = "wipe" BY <2>1 DEF Request, Idle
    <3>2. request' = [request EXCEPT ![a] = r] /\ writes' \in Nat
          /\ UNCHANGED <<now, settings, steady, frozenAt, openAt>>
      BY <2>2, <1>2 DEF SendReset
    <3> HIDE DEF r
    <3>3. QED BY <3>1, <3>2, RequestStep
  <2>3. CASE WipeEvent(a)
    <3> DEFINE r == [request[a] EXCEPT !.op = "wiped"]
    <3>1. r \in Request /\ r.op = "wiped" BY <1>1 DEF Request
    <3>2. request' = [request EXCEPT ![a] = r] /\ writes' \in Nat
          /\ UNCHANGED <<now, settings, steady, frozenAt, openAt>>
      BY <2>3, <1>2 DEF WipeEvent
    <3> HIDE DEF r
    <3>3. QED BY <3>1, <3>2, RequestStep
  <2>4. CASE StampReset(a)
    <3> DEFINE r == [request[a] EXCEPT !.op = "reset", !.at = now]
    <3>1. r \in Request /\ r.op = "reset" /\ r.at = now
      BY <1>1, <1>2 DEF Request, Stamp
    <3>2. request' = [request EXCEPT ![a] = r] /\ writes' \in Nat /\ steady' = "mixed"
          /\ UNCHANGED <<now, settings, frozenAt, openAt>>
      <4>1. request' = [request EXCEPT ![a].op = "reset", ![a].at = now]
        BY <2>4 DEF StampReset
      <4>2. [request EXCEPT ![a].op = "reset", ![a].at = now] = [request EXCEPT ![a] = r]
        BY DEF AdminInv, AdminTypeOK
      <4>3. QED BY <4>1, <4>2, <2>4, <1>2 DEF StampReset
    <3> HIDE DEF r
    <3>3. QED BY <3>1, <3>2, RequestStep
  <2>5. CASE LoseWrite(a)
    <3>1. Idle.op = "none" BY DEF Idle
    <3>2. QED BY <2>1, <2>5, <3>1, <1>2, RequestStep DEF LoseWrite
  <2>6. QED BY <1>5, <2>2, <2>3, <2>4, <2>5
<1>6. ASSUME NEW a \in Admins, LandUpdate(a) PROVE AdminInv'
  BY <1>6, LandUpdateInv
<1>7. ASSUME NEW a \in Admins, LandReset(a) PROVE AdminInv'
  BY <1>7, LandResetInv
<1>8. CASE UNCHANGED adminVars
  BY <1>8 DEF adminVars, AdminInv, AdminTypeOK, WindowCanOpen, RequestsStamped, PastOnly,
              FreezeKept, OpenIsRemembered, EdgesAhead, SteadyIsTrue, Remembered, PausedAt,
              InOpenFreeze, InLoggedFreeze, Resumes, Freezes
<1>9. QED BY <1>3, <1>4, <1>5, <1>6, <1>7, <1>8 DEF AdminNext, AdminStep

(***************************************************************************)
(* The theorems.                                                            *)
(***************************************************************************)
LEMMA AdminInvariance == AdminSpec => []AdminInv
<1>1. AdminInit => AdminInv BY AdminInitInv
<1>2. AdminInv /\ [AdminNext]_adminVars => AdminInv' BY AdminNextInv
<1>3. QED BY <1>1, <1>2, PTL DEF AdminSpec

\* The settings, the requests and the history keep their types.
THEOREM AdminTypeCorrect == AdminSpec => []AdminTypeOK
<1>1. AdminInv => AdminTypeOK BY DEF AdminInv
<1>2. QED BY <1>1, AdminInvariance, PTL

\* No sequence of concurrent settings writes leaves a window that cannot open:
\* UPDATE_SCRIPT checks the bounds it is about to leave behind.
THEOREM WindowAlwaysCanOpen == AdminSpec => []WindowCanOpen
<1>1. AdminInv => WindowCanOpen BY DEF AdminInv
<1>2. QED BY <1>1, AdminInvariance, PTL

\* Every instant of a freeze of known start is judged frozen for ever after,
\* until the capped log is full: what the scorer's late judgement rests on.
THEOREM FreezeAlwaysRemembered == AdminSpec => []FreezeIsRemembered
<1>1. \A t, s : Remembered(t, s) /\ t \in Instant /\ s \in Policy => PausedAt(t, s)
  BY DEF Remembered, PausedAt, InOpenFreeze, Policy, Stamp, Instant, NoTime
<1>2. AdminInv => FreezeIsRemembered
  BY <1>1 DEF AdminInv, AdminTypeOK, FreezeKept, FreezeIsRemembered
<1>3. QED BY <1>2, AdminInvariance, PTL

\* No instant at which scoring was open is ever judged frozen.
THEOREM OpenAlwaysRemembered == AdminSpec => []OpenIsRemembered
<1>1. AdminInv => OpenIsRemembered BY DEF AdminInv
<1>2. QED BY <1>1, AdminInvariance, PTL

-----------------------------------------------------------------------------
(* ScorePipeline *)

(***************************************************************************)
(* The inductive invariant of delivery.  What the poller holds of GitHub is *)
(* never newer than GitHub; a page in hand is in order, within the cursor   *)
(* it will leave; whatever of the page is behind the poller is settled; and *)
(* the one request it waits for is about the comment it is at.              *)
(***************************************************************************)
Target == Head(poller.todo)
Handling == poller.pc \in {"handle", "await"}

\* Where the cursor will be when the page in hand is done with.
Bound == IF poller.stopAt # NoTime THEN poller.stopAt ELSE poller.next

Poller == [pc : {"down", "idle", "poll", "handle", "await", "save"}, todo : Seq(Repos),
           page : Seq(Revision), next : Stamp, etag : SUBSET Seq(Revision), stopAt : Stamp]

Types ==
    /\ comment \in [Comments -> [at : Stamp, body : Body]]
    /\ mem \in PollState /\ durable \in PollState
    /\ poller \in Poller
    /\ poller.pc \in {"poll", "handle", "await"} => poller.todo # <<>>
    /\ poller.pc = "await" => poller.page # <<>>
    /\ calls \in SUBSET Call
    /\ solves \in [Solvable -> Stamp]
    /\ wipedAt \in Stamp

Seen(st, r, key) == Contains(st.repos[r].seen, key)

\* No time the poller holds is ahead of GitHub's clock, no key it remembers
\* ahead of the comment it is of.
Timely ==
    /\ \A c \in Comments : comment[c].at <= GitHubNow
    /\ \A r \in Repos : mem.repos[r].since <= GitHubNow /\ durable.repos[r].since <= GitHubNow
    /\ poller.next <= GitHubNow /\ poller.stopAt <= GitHubNow
    /\ wipedAt <= now
    /\ \A st \in {mem, durable}, r \in Repos :
          \A i \in DOMAIN st.repos[r].seen :
             LET key == st.repos[r].seen[i] IN key[2] <= comment[key[1]].at

\* A revision as it is, or as it was before an edit that moved its time.
Known(rev) == /\ rev.at <= comment[rev.id].at
              /\ rev.at = comment[rev.id].at => rev.body = comment[rev.id].body

PageInOrder == Handling =>
    /\ \A i \in DOMAIN poller.page :
          /\ Known(poller.page[i]) /\ RepoOf[poller.page[i].id] = Target
          /\ Cursor.since <= poller.page[i].at /\ poller.page[i].at <= poller.next
          /\ poller.stopAt <= poller.page[i].at
    /\ \A i, j \in DOMAIN poller.page : i < j => poller.page[i].at <= poller.page[j].at

Wiped(rev) == wipedAt # NoTime /\ rev.at <= wipedAt + GitHubSkew

OneCall ==
    /\ poller.pc = "await" => \E q \in calls : q.heard
    /\ \A p, q \in calls : p.heard /\ q.heard => p = q
    /\ \A q \in calls : q.heard =>
          /\ poller.pc = "await" /\ q.rev = Next1
          /\ q.phase = "accepted" => Recorded(q.rev) \/ Wiped(q.rev)
          /\ q.phase = "refused" => Refused(q.rev)
          /\ q.phase = "rejected" => q.rev.body.kind = "foreign"

\* What is written is timed, and no further ahead than the scorer allows.
OnTime == /\ \A q \in calls : q.phase = "writing" => q.iso \in Instant /\ q.iso <= now + MaxFutureSkew
          /\ NoSolveFromTheFuture

\* What the page has been read past is settled: nothing hides behind the
\* cursor the page will leave.
ScannedIsSettled == Handling =>
    \A rev \in Scores :
        RepoOf[rev.id] = Target /\ rev.at < Bound /\ ~Contains(poller.page, rev)
            => Settled(mem, rev)

DeliveryInv == /\ AdminInv
               /\ Types
               /\ Timely
               /\ PageInOrder
               /\ OneCall
               /\ OnTime
               /\ ScannedIsSettled
               /\ NoScoreLost
               /\ CrashLosesNoScore

(***************************************************************************)
(* GitHub's clock.                                                          *)
(***************************************************************************)
\* Rounding down to a unit never turns a later instant into an earlier one.
LEMMA RoundingKeepsOrder ==
    ASSUME NEW u \in Nat \ {0}, NEW t \in Nat
    PROVE  /\ t - (t % u) \in Nat
           /\ t - (t % u) <= t
           /\ t - (t % u) <= (t + 1) - ((t + 1) % u)
<1>1. t \div u \in Nat /\ (t + 1) \div u \in Nat /\ t \div u <= (t + 1) \div u
  OBVIOUS
<1>2. t = u * (t \div u) + (t % u) /\ t + 1 = u * ((t + 1) \div u) + ((t + 1) % u)
  OBVIOUS
<1>3. t % u \in Nat /\ (t + 1) % u \in Nat
  OBVIOUS
<1>4. \A a, b \in Nat : a <= b => u * a \in Nat /\ u * b \in Nat /\ u * a <= u * b
  <2>1. SUFFICES ASSUME NEW a \in Nat, NEW b \in Nat, a <= b
                 PROVE  u * a \in Nat /\ u * b \in Nat /\ u * a <= u * b
    OBVIOUS
  <2>2. u * (b - a) \in Nat /\ u * a \in Nat /\ u * b \in Nat BY <2>1
  <2>3. u * b = u * a + u * (b - a) BY <2>1
  <2>4. QED BY <2>2, <2>3
<1>5. u * (t \div u) \in Nat /\ u * ((t + 1) \div u) \in Nat
      /\ u * (t \div u) <= u * ((t + 1) \div u)
  BY <1>1, <1>4
<1>6. QED BY <1>2, <1>3, <1>5

LEMMA GitHubClock ==
    ASSUME now \in Instant
    PROVE  /\ GitHubNow \in Nat
           /\ GitHubNow <= now + GitHubSkew
           /\ now' = now => GitHubNow' = GitHubNow
           /\ now' = now + 1 => GitHubNow <= GitHubNow' /\ GitHubNow' \in Nat
<1> DEFINE t == now + GitHubSkew
<1>1. t \in Nat /\ t + 1 \in Nat /\ UpdatedAtUnit \in Nat \ {0} BY PipelineAssumption DEF Instant
<1>2. GitHubNow = t - (t % UpdatedAtUnit) BY DEF GitHubNow
<1>3. now' = now + 1 => GitHubNow' = (t + 1) - ((t + 1) % UpdatedAtUnit)
  <2>1. SUFFICES ASSUME now' = now + 1 PROVE GitHubNow' = (t + 1) - ((t + 1) % UpdatedAtUnit)
    OBVIOUS
  <2>2. now' + GitHubSkew = t + 1 BY <2>1, PipelineAssumption DEF Instant
  <2>3. QED BY <2>2 DEF GitHubNow
<1>4. now' = now => GitHubNow' = GitHubNow BY DEF GitHubNow
<1> HIDE DEF t
<1>5. QED BY <1>1, <1>2, <1>3, <1>4, RoundingKeepsOrder DEF t

(***************************************************************************)
(* Lists.                                                                   *)
(***************************************************************************)
LEMMA SeqOfFacts ==
    ASSUME NEW S, NEW n \in Nat, NEW s \in SeqOf(S, n)
    PROVE  s \in Seq(S) /\ Len(s) <= n /\ \A i \in DOMAIN s : s[i] \in S
<1>1. PICK m \in 0..n : s \in [1..m -> S] BY DEF SeqOf
<1>2. m \in Nat BY <1>1
<1>3. s \in Seq(S) /\ Len(s) = m BY <1>1, <1>2
<1>4. QED BY <1>1, <1>3

LEMMA TailFacts ==
    ASSUME NEW T, NEW s \in Seq(T), s # <<>>
    PROVE  /\ Len(s) \in Nat \ {0} /\ DOMAIN s = 1..Len(s)
           /\ Head(s) = s[1] /\ s[1] \in T
           /\ Tail(s) \in Seq(T) /\ Len(Tail(s)) = Len(s) - 1
           /\ \A i \in 1..(Len(s) - 1) : Tail(s)[i] = s[i + 1]
<1>1. Len(s) \in Nat /\ Len(s) # 0 /\ DOMAIN s = 1..Len(s) OBVIOUS
<1>2. Head(s) = s[1] /\ s[1] \in T BY <1>1
<1>3. Tail(s) \in Seq(T) /\ Len(Tail(s)) = Len(s) - 1 BY <1>1
<1>4. \A i \in 1..(Len(s) - 1) : Tail(s)[i] = s[i + 1] BY <1>1
<1>5. QED BY <1>1, <1>2, <1>3, <1>4

\* Array.filter keeps the elements it must, no other, and never lengthens.
LEMMA FilteredFacts ==
    ASSUME NEW T, NEW list \in Seq(T), NEW keep, NEW s \in Filtered(list, keep)
    PROVE  /\ s \in Seq(T)
           /\ Len(s) <= Len(list)
           /\ \A i \in DOMAIN s : s[i] \in keep /\ Contains(list, s[i])
           /\ \A e \in keep : Contains(list, e) => Contains(s, e)
           /\ \A i, j \in DOMAIN s : i < j =>
                 \E m, n \in DOMAIN list : m < n /\ list[m] = s[i] /\ list[n] = s[j]
<1>1. s \in SeqOf(ToSet(list) \cap keep, Len(list)) BY DEF Filtered
<1>2. Len(list) \in Nat OBVIOUS
<1>3. /\ s \in Seq(ToSet(list) \cap keep) /\ Len(s) <= Len(list)
      /\ \A i \in DOMAIN s : s[i] \in ToSet(list) \cap keep
  BY <1>1, <1>2, SeqOfFacts
<1>4. \A e : e \in ToSet(list) <=> Contains(list, e) BY DEF ToSet, Contains
<1>5. \A e : e \in ToSet(s) <=> Contains(s, e) BY <1>3 DEF ToSet, Contains
<1>6. ToSet(list) \subseteq T BY DEF ToSet
<1>7. s \in Seq(T) BY <1>3, <1>6
<1>8. ToSet(list) \cap keep \subseteq ToSet(s) BY DEF Filtered
<1>9. \A i, j \in DOMAIN s : i < j =>
        \E m, n \in DOMAIN list : m < n /\ list[m] = s[i] /\ list[n] = s[j]
  BY DEF Filtered
<1>10. QED BY <1>3, <1>4, <1>5, <1>7, <1>8, <1>9

(***************************************************************************)
(* The poller's state.                                                      *)
(***************************************************************************)
LEMMA ReposFacts == \A c \in Comments : RepoOf[c] \in Repos /\ AuthorOf[c] \in Authors
BY DEF Repos, Authors

LEMMA FreshStateType ==
    /\ FreshState \in PollState
    /\ \A r \in Repos : FreshState.repos[r] = NoCursor
    /\ FreshState.resetAt = NoTime /\ FreshState.dropped = 0
    /\ NoCursor.seen = <<>> /\ NoCursor.since = NoTime /\ NoCursor.etag = {}
<1>1. <<>> \in Seq(Comments \X Instant) OBVIOUS
<1>2. NoCursor \in Cursors BY <1>1 DEF NoCursor, Cursors, Stamp
<1>3. QED BY <1>2 DEF FreshState, PollState, Stamp, NoCursor

\* Replacing the keys one target remembers changes nothing else.
LEMMA NewSeenFacts ==
    ASSUME NEW st \in PollState, NEW r \in Repos, NEW s \in Seq(Comments \X Instant)
    PROVE  LET m == [st EXCEPT !.repos[r].seen = s]
           IN  /\ m \in PollState
               /\ m.resetAt = st.resetAt /\ m.ingested = st.ingested /\ m.dropped = st.dropped
               /\ m.repos[r].seen = s
               /\ \A x \in Repos : /\ m.repos[x].since = st.repos[x].since
                                   /\ m.repos[x].etag = st.repos[x].etag
                                   /\ x # r => m.repos[x].seen = st.repos[x].seen
BY DEF PollState, Cursors

LEMMA LastOfFacts ==
    ASSUME NEW T, NEW s \in Seq(T), NEW n \in Nat \ {0}
    PROVE  /\ LastOf(s, n) \in Seq(T)
           /\ Len(LastOf(s, n)) <= n
           /\ \A i \in DOMAIN LastOf(s, n) : Contains(s, LastOf(s, n)[i])
<1>1. CASE Len(s) > n
  <2> DEFINE m == Len(s) - n + 1
             l == SubSeq(s, m, Len(s))
  <2>1. LastOf(s, n) = l BY <1>1 DEF LastOf
  <2>2. m \in 1..Len(s) /\ Len(s) \in Nat BY <1>1
  <2>3. l \in Seq(T) /\ Len(l) = n /\ \A i \in 1..n : l[i] = s[m + i - 1] BY <1>1, <2>2
  <2>4. \A i \in 1..n : m + i - 1 \in 1..Len(s) BY <1>1, <2>2
  <2> HIDE DEF l, m
  <2>5. QED BY <2>1, <2>3, <2>4 DEF Contains
<1>2. CASE ~(Len(s) > n)
  <2>1. LastOf(s, n) = s BY <1>2 DEF LastOf
  <2>2. QED BY <1>2, <2>1 DEF Contains
<1>3. QED BY <1>1, <1>2

\* markSeen remembers nothing but the revision and what was remembered.
LEMMA MarkSeenFacts ==
    ASSUME NEW st \in PollState, NEW r \in Repos, NEW rev \in Revision
    PROVE  LET m == MarkSeen(st, r, rev)
           IN  /\ m \in PollState
               /\ m.resetAt = st.resetAt /\ m.ingested = st.ingested /\ m.dropped = st.dropped
               /\ \A x \in Repos : /\ m.repos[x].since = st.repos[x].since
                                   /\ m.repos[x].etag = st.repos[x].etag
                                   /\ x # r => m.repos[x].seen = st.repos[x].seen
               /\ \A i \in DOMAIN m.repos[r].seen :
                     \/ m.repos[r].seen[i] = SeenKey(rev)
                     \/ Contains(st.repos[r].seen, m.repos[r].seen[i])
               /\ Len(st.repos[r].seen) <= SeenCap => Len(m.repos[r].seen) <= SeenCap
<1> DEFINE old == st.repos[r].seen
           all == Append(old, SeenKey(rev))
           new == IF Contains(old, SeenKey(rev)) THEN old ELSE LastOf(all, SeenCap)
<1>1. old \in Seq(Comments \X Instant) BY DEF PollState, Cursors
<1>2. SeenKey(rev) \in Comments \X Instant BY DEF Revision, SeenKey
<1>3. all \in Seq(Comments \X Instant) /\ \A e : Contains(all, e) => e = SeenKey(rev) \/ Contains(old, e)
  BY <1>1, <1>2 DEF Contains
<1>4. SeenCap \in Nat \ {0} BY PipelineAssumption
<1>5. /\ LastOf(all, SeenCap) \in Seq(Comments \X Instant)
      /\ Len(LastOf(all, SeenCap)) <= SeenCap
      /\ \A i \in DOMAIN LastOf(all, SeenCap) : Contains(all, LastOf(all, SeenCap)[i])
  BY <1>3, <1>4, LastOfFacts
<1>6. \A i \in DOMAIN old : Contains(old, old[i]) BY <1>1 DEF Contains
<1>7. /\ new \in Seq(Comments \X Instant)
      /\ \A i \in DOMAIN new : new[i] = SeenKey(rev) \/ Contains(old, new[i])
      /\ Len(old) <= SeenCap => Len(new) <= SeenCap
  BY <1>1, <1>3, <1>5, <1>6
<1>8. MarkSeen(st, r, rev) = [st EXCEPT !.repos[r].seen = new]
  BY DEF MarkSeen, PollState, Cursors
<1> HIDE DEF old, new
<1>9. QED BY <1>7, <1>8, NewSeenFacts DEF old

(***************************************************************************)
(* Scores and what settles them.                                            *)
(***************************************************************************)
LEMMA ScoreFacts ==
    ASSUME Types
    PROVE  \A rev \in Scores : /\ rev \in Revision /\ rev.id \in ByBot /\ rev.id \in Comments
                               /\ rev = Rev(rev.id)
                               /\ rev.at = comment[rev.id].at /\ rev.at \in Instant
                               /\ rev.body = comment[rev.id].body /\ rev.body.kind = "score"
                               /\ RepoOf[rev.id] \in Repos
<1>1. ByBot \subseteq Comments BY PipelineAssumption
<1>2. \A c \in Comments : Posted(c) => Rev(c) \in Revision
  BY DEF Types, Rev, Revision, Posted, Stamp
<1>3. SUFFICES ASSUME NEW rev \in Scores
               PROVE  /\ rev \in Revision /\ rev.id \in ByBot /\ rev.id \in Comments
                      /\ rev = Rev(rev.id)
                      /\ rev.at = comment[rev.id].at /\ rev.at \in Instant
                      /\ rev.body = comment[rev.id].body /\ rev.body.kind = "score"
                      /\ RepoOf[rev.id] \in Repos
  OBVIOUS
<1>4. PICK c \in ByBot : rev = Rev(c) /\ Posted(c) /\ comment[c].body.kind = "score"
  BY DEF Scores
<1>5. rev \in Revision /\ c \in Comments BY <1>1, <1>2, <1>4
<1>6. rev.id = c /\ rev.at = comment[c].at /\ rev.body = comment[c].body BY <1>4 DEF Rev
<1>7. QED BY <1>4, <1>5, <1>6, ReposFacts DEF Revision

\* A known revision with the key of a comment's last edit is that edit.
LEMMA KnownIsCurrent ==
    ASSUME NEW a \in Revision, NEW b \in Revision, Known(a),
           b.at = comment[b.id].at, b.body = comment[b.id].body, SeenKey(a) = SeenKey(b)
    PROVE  a = b
<1>1. a.id = b.id /\ a.at = b.at BY DEF SeenKey
<1>2. a.body = b.body BY <1>1 DEF Known
<1>3. QED BY <1>1, <1>2 DEF Revision

LEMMA KeysFacts == \A rev \in Revision : Keys(rev) \subseteq Solvable
<1> SUFFICES ASSUME NEW rev \in Revision PROVE Keys(rev) \subseteq Solvable
  OBVIOUS
<1>1. AuthorOf[rev.id] \in Authors BY ReposFacts DEF Revision
<1>2. rev.body.solved \subseteq Challenges BY DEF Revision, Body
<1>3. QED BY <1>1, <1>2 DEF Keys, Solvable

\* What a step may do to the solves: add some, or wipe them all.
SettledKept ==
    \A rev \in Revision : rev.at <= GitHubNow =>
        /\ Recorded(rev) \/ Wiped(rev) => (Recorded(rev) \/ Wiped(rev))'
        /\ Refused(rev) => Refused(rev)'

LEMMA SettledByParts ==
    \A st, rev : Settled(st, rev) <=> \/ Recorded(rev) \/ Wiped(rev)
                                      \/ Refused(rev)
                                      \/ st.resetAt # NoTime /\ rev.at < st.resetAt
BY DEF Settled, Predates, Wiped

LEMMA AddingKeeps ==
    ASSUME Types, wipedAt' = wipedAt, refused \subseteq refused',
           \A k \in Solvable : solves[k] # NoTime => solves'[k] # NoTime
    PROVE  SettledKept
<1> SUFFICES ASSUME NEW rev \in Revision
             PROVE  /\ Recorded(rev) => Recorded(rev)'
                    /\ Wiped(rev) => Wiped(rev)'
                    /\ Refused(rev) => Refused(rev)'
  BY DEF SettledKept
<1>1. Recorded(rev) => Recorded(rev)' BY KeysFacts DEF Recorded, Keys
<1>2. Wiped(rev) => Wiped(rev)' BY DEF Wiped
<1>3. Refused(rev) => Refused(rev)' BY DEF Refused
<1>4. QED BY <1>1, <1>2, <1>3

LEMMA WipingKeeps ==
    ASSUME now \in Instant, wipedAt' = now, refused' = refused
    PROVE  SettledKept
<1> SUFFICES ASSUME NEW rev \in Revision, rev.at <= GitHubNow
             PROVE  Wiped(rev)' /\ (Refused(rev) => Refused(rev)')
  BY DEF SettledKept
<1>1. rev.at <= now + GitHubSkew
  BY GitHubClock, PipelineAssumption DEF Revision, Instant
<1>2. Wiped(rev)' BY <1>1 DEF Wiped, NoTime, Instant
<1>3. QED BY <1>2 DEF Refused

\* A step of the scorer, of an organizer or of the clock: GitHub's and the
\* poller's state stay, and every request keeps its meaning.
LEMMA OutsideStep ==
    ASSUME DeliveryInv, AdminInv', Types', OneCall', OnTime', SettledKept,
           UNCHANGED <<comment, mem, durable, poller>>,
           GitHubNow' \in Nat, GitHubNow <= GitHubNow', wipedAt' <= now',
           \A rev : BeingSubmitted(rev) => BeingSubmitted(rev)'
    PROVE  DeliveryInv'
<1> USE DEF DeliveryInv
<1>0. GitHubNow \in Nat BY GitHubClock DEF AdminInv, AdminTypeOK
<1>1. Scores' = Scores BY DEF Scores, Posted, Rev
<1>2. \A rev \in Scores : rev \in Revision /\ rev.at <= GitHubNow
  BY ScoreFacts DEF Timely
<1>3. \A rev \in Scores : /\ Settled(mem, rev) => Settled(mem, rev)'
                          /\ Settled(durable, rev) => Settled(durable, rev)'
  <2> SUFFICES ASSUME NEW rev \in Scores
               PROVE  /\ Settled(mem, rev) => Settled(mem, rev)'
                      /\ Settled(durable, rev) => Settled(durable, rev)'
    OBVIOUS
  <2>1. /\ Recorded(rev) \/ Wiped(rev) => (Recorded(rev) \/ Wiped(rev))'
        /\ Refused(rev) => Refused(rev)'
    BY <1>2 DEF SettledKept
  <2>2. QED BY <2>1 DEF Settled, Predates, Wiped
<1>4. \A rev : /\ Consumed(mem, rev)' = Consumed(mem, rev)
               /\ Consumed(durable, rev)' = Consumed(durable, rev)
  BY DEF Consumed
<1>5. Timely'
  <2>1. \A t : t \in Stamp /\ t <= GitHubNow => t <= GitHubNow'
    BY <1>0 DEF Stamp, Instant, NoTime
  <2>2. \A c \in Comments : comment[c].at \in Stamp BY DEF Types
  <2>3. \A r \in Repos : mem.repos[r].since \in Stamp /\ durable.repos[r].since \in Stamp
    BY DEF Types, PollState, Cursors
  <2>4. poller.next \in Stamp /\ poller.stopAt \in Stamp BY DEF Types, Poller
  <2>5. QED BY <2>1, <2>2, <2>3, <2>4 DEF Timely
<1>6. PageInOrder' BY DEF PageInOrder, Handling, Known, Target, Cursor
<1>7. ScannedIsSettled' BY <1>1, <1>3 DEF ScannedIsSettled, Handling, Target, Bound
<1>8. NoScoreLost' BY <1>1, <1>3, <1>4 DEF NoScoreLost
<1>9. CrashLosesNoScore' BY <1>1, <1>3, <1>4 DEF CrashLosesNoScore
<1>10. QED BY <1>5, <1>6, <1>7, <1>8, <1>9

\* The comment a request the poller waits for is about.
LEMMA HeardFacts ==
    ASSUME DeliveryInv, NEW q \in calls, q.heard
    PROVE  /\ poller.pc = "await" /\ q.rev = Next1 /\ q.rev \in Revision
           /\ poller.page # <<>> /\ poller.page \in Seq(Revision) /\ 1 \in DOMAIN poller.page
           /\ q.rev = poller.page[1] /\ Known(q.rev) /\ RepoOf[q.rev.id] = Target
           /\ q.rev.at <= GitHubNow /\ Target \in Repos
<1> USE DEF DeliveryInv
<1>1. poller.pc = "await" /\ q.rev = Next1 BY DEF OneCall
<1>2. poller.page # <<>> /\ poller.page \in Seq(Revision) /\ poller.todo \in Seq(Repos) /\ poller.todo # <<>>
  BY <1>1 DEF Types, Poller
<1>3. 1 \in DOMAIN poller.page /\ Next1 = poller.page[1] /\ Target \in Repos
  BY <1>2 DEF Next1, Target
<1>4. q.rev \in Revision BY <1>1, <1>2, <1>3
<1>5. Known(q.rev) /\ RepoOf[q.rev.id] = Target
  BY <1>1, <1>3 DEF PageInOrder, Handling
<1>6. q.rev.at \in Nat /\ comment[q.rev.id].at \in Stamp /\ comment[q.rev.id].at <= GitHubNow
  BY <1>4 DEF Revision, Types, Timely, Instant
<1>7. GitHubNow \in Nat BY GitHubClock DEF AdminInv, AdminTypeOK
<1>8. q.rev.at <= GitHubNow BY <1>5, <1>6, <1>7 DEF Known, Stamp, Instant, NoTime
<1>9. QED BY <1>1, <1>2, <1>3, <1>4, <1>5, <1>8

LEMMA PhaseKept ==
    ASSUME DeliveryInv, SettledKept, NEW q \in calls, q.heard
    PROVE  /\ q.phase = "accepted" => (Recorded(q.rev) \/ Wiped(q.rev))'
           /\ q.phase = "refused" => Refused(q.rev)'
           /\ q.phase = "rejected" => q.rev.body.kind = "foreign"
<1>1. q.rev \in Revision /\ q.rev.at <= GitHubNow BY HeardFacts
<1>2. /\ q.phase = "accepted" => Recorded(q.rev) \/ Wiped(q.rev)
      /\ q.phase = "refused" => Refused(q.rev)
      /\ q.phase = "rejected" => q.rev.body.kind = "foreign"
  BY DEF DeliveryInv, OneCall
<1>3. QED BY <1>1, <1>2 DEF SettledKept

(***************************************************************************)
(* The scorer.                                                              *)
(***************************************************************************)
\* A request moves on, or is answered to nobody.
LEMMA RequestMovesOn ==
    ASSUME DeliveryInv, SettledKept, NEW q \in calls, NEW new \in Call, poller' = poller,
           new.rev = q.rev, new.heard = q.heard,
           \/ calls' = (calls \ {q}) \union {new}
           \/ ~q.heard /\ calls' = calls \ {q},
           now' = now,
           new.phase = "writing" => new.iso \in Instant /\ new.iso <= now + MaxFutureSkew,
           q.heard => /\ new.phase = "accepted" => Recorded(q.rev)'
                      /\ new.phase = "refused" => Refused(q.rev)'
                      /\ new.phase = "rejected" => q.rev.body.kind = "foreign"
    PROVE  /\ calls' \in SUBSET Call
           /\ OneCall'
           /\ \A p \in calls' : p.phase = "writing" => p.iso \in Instant /\ p.iso <= now' + MaxFutureSkew
           /\ \A rev : BeingSubmitted(rev) => BeingSubmitted(rev)'
<1>1. calls \subseteq Call BY DEF DeliveryInv, Types
<1>2. calls' \subseteq Call BY <1>1
<1>3. \A p \in calls' : p.heard => (p \in calls /\ p # q) \/ p = new
  OBVIOUS
<1>4. \A p \in calls : p.heard => p \in calls' \/ (p = q /\ new \in calls')
  OBVIOUS
<1>5. \A rev : BeingSubmitted(rev) => BeingSubmitted(rev)'
  <2> SUFFICES ASSUME NEW rev, NEW p \in calls, p.heard, p.rev = rev
               PROVE  \E c \in calls' : c.heard /\ c.rev = rev
    BY DEF BeingSubmitted
  <2>1. QED BY <1>4
<1>6. poller'.pc = "await" => \E p \in calls' : p.heard
  <2>1. SUFFICES ASSUME poller.pc = "await" PROVE \E p \in calls' : p.heard
    OBVIOUS
  <2>2. PICK p \in calls : p.heard BY <2>1 DEF DeliveryInv, OneCall
  <2>3. QED BY <1>4, <2>2
<1>7. \A p, r \in calls' : p.heard /\ r.heard => p = r
  <2>1. \A p, r \in calls : p.heard /\ r.heard => p = r BY DEF DeliveryInv, OneCall
  <2>2. QED BY <1>3, <2>1
<1>8. ASSUME NEW p \in calls', p.heard
      PROVE  /\ poller'.pc = "await" /\ p.rev = Next1'
             /\ p.phase = "accepted" => (Recorded(p.rev) \/ Wiped(p.rev))'
             /\ p.phase = "refused" => Refused(p.rev)'
             /\ p.phase = "rejected" => p.rev.body.kind = "foreign"
  <2>0. Next1' = Next1 BY DEF Next1
  <2>1. CASE p \in calls /\ p # q
    BY <2>0, <2>1, <1>8, HeardFacts, PhaseKept
  <2>2. CASE p = new
    <3>1. poller.pc = "await" /\ q.rev = Next1 BY <1>8, <2>2, HeardFacts
    <3>2. QED BY <1>8, <2>0, <2>2, <3>1
  <2>3. QED BY <1>3, <1>8, <2>1, <2>2
<1>9. OneCall' BY <1>6, <1>7, <1>8 DEF OneCall
<1>10. \A p \in calls' : p.phase = "writing" => p.iso \in Instant /\ p.iso <= now' + MaxFutureSkew
  <2>1. \A p \in calls' : p \in calls \/ p = new OBVIOUS
  <2>2. QED BY <2>1 DEF DeliveryInv, OnTime
<1>11. QED BY <1>2, <1>5, <1>9, <1>10

LEMMA AdminStays ==
    ASSUME DeliveryInv, UNCHANGED adminVars
    PROVE  AdminInv' /\ now \in Instant /\ now' = now /\ GitHubNow' = GitHubNow /\ GitHubNow \in Nat
<1>1. AdminInv' BY AdminNextInv DEF DeliveryInv
<1>2. now \in Instant /\ now' = now BY DEF DeliveryInv, AdminInv, AdminTypeOK, adminVars
<1>3. QED BY <1>1, <1>2, GitHubClock

LEMMA JudgeInv == ASSUME DeliveryInv, NEW q \in calls, Judge(q) PROVE DeliveryInv'
<1>1. /\ UNCHANGED adminVars
      /\ UNCHANGED <<comment, mem, durable, poller, solves, wipedAt>>
      /\ q.phase = "arrived"
  BY DEF Judge, ScorerOnly
<1>2. /\ AdminInv' /\ now \in Nat /\ now' = now /\ GitHubNow' = GitHubNow /\ GitHubNow \in Nat
  BY <1>1, AdminStays DEF Instant
<1>3. q \in Call /\ q.rev \in Revision /\ q.rev.at \in Nat
  BY DEF DeliveryInv, Types, Call, Revision, Instant
<1>4. refused \subseteq refused' BY DEF Judge
<1>5. SettledKept BY <1>1, <1>4, AddingKeeps DEF DeliveryInv
<1>6. PICK t \in Instant : t = ScoreTime(q.rev.at, now, MaxFutureSkew) /\ t <= now + MaxFutureSkew
  BY <1>2, <1>3, PipelineAssumption DEF ScoreTime, Stamp, Instant
<1> DEFINE Answered(phase) == [q EXCEPT !.phase = phase]
           Writing(b) == [q EXCEPT !.phase = "writing", !.iso = t, !.blind = b]
<1>7. \A phase \in {"rejected", "error", "refused"} :
         /\ Answered(phase) \in Call
         /\ Answered(phase).rev = q.rev /\ Answered(phase).heard = q.heard
         /\ Answered(phase).phase = phase
  BY <1>3 DEF Call
<1>8. \A b \in BOOLEAN : /\ Writing(b) \in Call
                         /\ Writing(b).rev = q.rev /\ Writing(b).heard = q.heard
                         /\ Writing(b).phase = "writing" /\ Writing(b).iso = t
  BY <1>3, <1>6 DEF Call, Stamp
<1>9. \/ q.rev.body.kind = "foreign" /\ Answer(q, "rejected")
      \/ calls' = (calls \ {q}) \union {Writing(FALSE)}
      \/ calls' = (calls \ {q}) \union {Writing(TRUE)}
      \/ Answer(q, "error")
      \/ Answer(q, "refused") /\ Refused(q.rev)'
  <2>1. \A why : refused' = refused \union {[key |-> SeenKey(q.rev), why |-> why]} => Refused(q.rev)'
    <3> SUFFICES ASSUME NEW why, refused' = refused \union {[key |-> SeenKey(q.rev), why |-> why]}
                 PROVE  \E r \in refused' : r.key = SeenKey(q.rev)
      BY DEF Refused
    <3>1. [key |-> SeenKey(q.rev), why |-> why].key = SeenKey(q.rev) OBVIOUS
    <3>2. [key |-> SeenKey(q.rev), why |-> why] \in refused' OBVIOUS
    <3>3. QED BY <3>1, <3>2
  <2>2. QED BY <1>6, <2>1 DEF Judge
<1>10. \A phase : Answer(q, phase) =>
          \/ q.heard /\ calls' = (calls \ {q}) \union {Answered(phase)}
          \/ ~q.heard /\ calls' = calls \ {q}
  BY DEF Answer
<1> HIDE DEF Answered, Writing
<1>11. /\ calls' \in SUBSET Call
       /\ OneCall'
       /\ \A p \in calls' : p.phase = "writing" => p.iso \in Instant /\ p.iso <= now' + MaxFutureSkew
       /\ \A rev : BeingSubmitted(rev) => BeingSubmitted(rev)'
  <2>1. CASE q.rev.body.kind = "foreign" /\ Answer(q, "rejected")
    BY <1>1, <1>2, <1>5, <1>7, <1>10, <2>1, RequestMovesOn
  <2>2. CASE calls' = (calls \ {q}) \union {Writing(FALSE)}
    BY <1>1, <1>2, <1>5, <1>6, <1>8, <2>2, RequestMovesOn
  <2>3. CASE calls' = (calls \ {q}) \union {Writing(TRUE)}
    BY <1>1, <1>2, <1>5, <1>6, <1>8, <2>3, RequestMovesOn
  <2>4. CASE Answer(q, "error")
    BY <1>1, <1>2, <1>5, <1>7, <1>10, <2>4, RequestMovesOn
  <2>5. CASE Answer(q, "refused") /\ Refused(q.rev)'
    BY <1>1, <1>2, <1>5, <1>7, <1>10, <2>5, RequestMovesOn
  <2>6. QED BY <1>9, <2>1, <2>2, <2>3, <2>4, <2>5
<1>12. Types' BY <1>1, <1>11 DEF DeliveryInv, Types
<1>13. wipedAt' <= now' BY <1>1, <1>2 DEF DeliveryInv, Timely
<1>14. GitHubNow' \in Nat /\ GitHubNow <= GitHubNow' BY <1>2
<1>15. OnTime' BY <1>1, <1>2, <1>11 DEF DeliveryInv, OnTime, NoSolveFromTheFuture
<1>16. QED BY <1>1, <1>2, <1>5, <1>11, <1>12, <1>13, <1>14, <1>15, OutsideStep

LEMMA SetNXFacts ==
    ASSUME Types, NEW keys \in SUBSET Solvable, NEW t \in Stamp, solves' = SetNX(keys, t)
    PROVE  /\ solves' \in [Solvable -> Stamp]
           /\ \A k \in Solvable : solves[k] # NoTime => solves'[k] = solves[k]
           /\ \A k \in Solvable : solves[k] = NoTime => solves'[k] = IF k \in keys THEN t ELSE NoTime
BY DEF Types, SetNX, Stamp

LEMMA RecordSolvesInv ==
    ASSUME DeliveryInv, NEW q \in calls, RecordSolves(q)
    PROVE  DeliveryInv'
<1>1. /\ UNCHANGED adminVars
      /\ UNCHANGED <<comment, mem, durable, poller, wipedAt, refused>>
  BY DEF RecordSolves, ScorerOnly
<1>2. /\ AdminInv' /\ now \in Nat /\ now' = now /\ GitHubNow' = GitHubNow /\ GitHubNow \in Nat
  BY <1>1, AdminStays DEF Instant
<1>3. /\ q \in Call /\ q.rev \in Revision /\ q.iso \in Stamp /\ q.iso # NoTime
      /\ q.iso <= now + MaxFutureSkew
  BY DEF DeliveryInv, Types, Call, OnTime, RecordSolves, Instant, NoTime
<1>4. PICK keys \in SUBSET Keys(q.rev) :
         /\ solves' = SetNX(keys, q.iso)
         /\ \/ keys = Keys(q.rev) /\ Answer(q, "accepted")
            \/ Answer(q, "error")
  BY DEF RecordSolves, Write
<1>5. keys \in SUBSET Solvable /\ Types BY <1>3, KeysFacts DEF DeliveryInv
<1>6. /\ solves' \in [Solvable -> Stamp]
      /\ \A k \in Solvable : solves[k] # NoTime => solves'[k] # NoTime
      /\ \A k \in keys : solves'[k] # NoTime
      /\ \A k \in Solvable : solves'[k] \in {solves[k], q.iso}
  <2>1. /\ solves' \in [Solvable -> Stamp]
        /\ \A k \in Solvable : solves[k] # NoTime => solves'[k] = solves[k]
        /\ \A k \in Solvable : solves[k] = NoTime => solves'[k] = IF k \in keys THEN q.iso ELSE NoTime
    BY <1>3, <1>4, <1>5, SetNXFacts
  <2>2. \A k \in keys : solves'[k] # NoTime BY <1>3, <1>5, <2>1
  <2>3. \A k \in Solvable : solves'[k] \in {solves[k], q.iso} BY <2>1
  <2>4. QED BY <2>1, <2>2, <2>3
<1>7. SettledKept BY <1>1, <1>5, <1>6, AddingKeeps
<1>8. keys = Keys(q.rev) => Recorded(q.rev)' BY <1>6 DEF Recorded, Keys
<1> DEFINE Answered(phase) == [q EXCEPT !.phase = phase]
<1>9. \A phase \in {"accepted", "error"} :
         /\ Answered(phase) \in Call
         /\ Answered(phase).rev = q.rev /\ Answered(phase).heard = q.heard
         /\ Answered(phase).phase = phase
  BY <1>3 DEF Call
<1>10. \A phase : Answer(q, phase) =>
          \/ q.heard /\ calls' = (calls \ {q}) \union {Answered(phase)}
          \/ ~q.heard /\ calls' = calls \ {q}
  BY DEF Answer
<1> HIDE DEF Answered
<1>11. /\ calls' \in SUBSET Call
       /\ OneCall'
       /\ \A p \in calls' : p.phase = "writing" => p.iso \in Instant /\ p.iso <= now' + MaxFutureSkew
       /\ \A rev : BeingSubmitted(rev) => BeingSubmitted(rev)'
  <2>1. CASE keys = Keys(q.rev) /\ Answer(q, "accepted")
    BY <1>1, <1>2, <1>7, <1>8, <1>9, <1>10, <2>1, RequestMovesOn
  <2>2. CASE Answer(q, "error")
    BY <1>1, <1>2, <1>7, <1>9, <1>10, <2>2, RequestMovesOn
  <2>3. QED BY <1>4, <2>1, <2>2
<1>12. Types' BY <1>1, <1>6, <1>11 DEF DeliveryInv, Types
<1>13. wipedAt' <= now' BY <1>1, <1>2 DEF DeliveryInv, Timely
<1>14. GitHubNow' \in Nat /\ GitHubNow <= GitHubNow' BY <1>2
<1>15. OnTime' BY <1>2, <1>3, <1>6, <1>11 DEF DeliveryInv, OnTime, NoSolveFromTheFuture
<1>16. QED BY <1>1, <1>2, <1>15, <1>7, <1>11, <1>12, <1>13, <1>14, OutsideStep

LEMMA ScorerCrashInv == ASSUME DeliveryInv, ScorerCrash PROVE DeliveryInv'
<1> DEFINE Failed(q) == [q EXCEPT !.phase = "error"]
<1>1. /\ UNCHANGED adminVars
      /\ UNCHANGED <<comment, mem, durable, poller, wipedAt, refused, solves>>
      /\ calls' = {Failed(q) : q \in {p \in calls : p.heard}}
  BY DEF ScorerCrash
<1>2. /\ AdminInv' /\ now \in Nat /\ now' = now /\ GitHubNow' = GitHubNow /\ GitHubNow \in Nat
  BY <1>1, AdminStays DEF Instant
<1>3. \A q \in calls : /\ Failed(q) \in Call /\ Failed(q).phase = "error"
                       /\ Failed(q).rev = q.rev /\ Failed(q).heard = q.heard
  BY DEF DeliveryInv, Types, Call
<1> HIDE DEF Failed
<1>4. SettledKept BY <1>1, AddingKeeps DEF DeliveryInv
<1>5. \A c \in calls' : \E q \in calls : q.heard /\ c = Failed(q) BY <1>1
<1>6. \A q \in calls : q.heard => Failed(q) \in calls' BY <1>1
<1>7. Types' BY <1>1, <1>3, <1>5 DEF DeliveryInv, Types
<1>8. \A rev : BeingSubmitted(rev) => BeingSubmitted(rev)'
  BY <1>3, <1>6 DEF BeingSubmitted
<1>9. OneCall'
  <2>1. poller'.pc = "await" => \E q \in calls' : q.heard
    BY <1>1, <1>3, <1>6 DEF DeliveryInv, OneCall
  <2>2. \A p, q \in calls' : p.heard /\ q.heard => p = q
    BY <1>5 DEF DeliveryInv, OneCall
  <2>3. \A c \in calls' : c.heard => poller'.pc = "await" /\ c.rev = Next1' /\ c.phase = "error"
    BY <1>1, <1>3, <1>5 DEF DeliveryInv, OneCall, Next1
  <2>4. QED BY <2>1, <2>2, <2>3 DEF OneCall
<1>10. OnTime'
  <2>1. \A c \in calls' : c.phase # "writing" BY <1>3, <1>5
  <2>2. QED BY <1>1, <1>2, <2>1 DEF DeliveryInv, OnTime, NoSolveFromTheFuture
<1>11. wipedAt' <= now' BY <1>1, <1>2 DEF DeliveryInv, Timely
<1>12. GitHubNow' \in Nat /\ GitHubNow <= GitHubNow' BY <1>2
<1>13. QED BY <1>1, <1>2, <1>4, <1>7, <1>8, <1>9, <1>10, <1>11, <1>12, OutsideStep

(***************************************************************************)
(* The organizers and the clock.                                            *)
(***************************************************************************)
\* Requests keep their meaning when they stay and the solves are kept.
LEMMA CallsStay ==
    ASSUME DeliveryInv, SettledKept, UNCHANGED <<calls, poller>>
    PROVE  OneCall' /\ \A rev : BeingSubmitted(rev) => BeingSubmitted(rev)'
<1>1. Next1' = Next1 BY DEF Next1
<1>2. \A q \in calls : q.heard =>
        /\ q.phase = "accepted" => (Recorded(q.rev) \/ Wiped(q.rev))'
        /\ q.phase = "refused" => Refused(q.rev)'
        /\ q.phase = "rejected" => q.rev.body.kind = "foreign"
  BY PhaseKept
<1>3. OneCall' BY <1>1, <1>2 DEF DeliveryInv, OneCall
<1>4. QED BY <1>3 DEF BeingSubmitted

LEMMA AdminStepClock == \A a \in Admins : AdminStep(a) => now' = now
BY DEF AdminStep, SendUpdate, LandUpdate, SendReset, WipeEvent, StampReset, LandReset, LoseWrite

LEMMA OrganizerStepInv ==
    ASSUME DeliveryInv, NEW a \in Admins, OrganizerStep(a)
    PROVE  DeliveryInv'
<1>1. /\ AdminStep(a)
      /\ UNCHANGED <<comment, mem, durable, poller, calls, refused>>
      /\ \/ solves' = NoSolves /\ wipedAt' = now
         \/ UNCHANGED <<solves, wipedAt>>
  BY DEF OrganizerStep
<1>2. AdminInv' BY <1>1, AdminNextInv DEF DeliveryInv, AdminNext
<1>3. now \in Instant /\ now' = now BY <1>1, AdminStepClock DEF DeliveryInv, AdminInv, AdminTypeOK
<1>4. GitHubNow' = GitHubNow /\ GitHubNow \in Nat BY <1>3, GitHubClock
<1>5. SettledKept
  <2>1. CASE solves' = NoSolves /\ wipedAt' = now BY <1>1, <1>3, <2>1, WipingKeeps
  <2>2. CASE UNCHANGED <<solves, wipedAt>> BY <1>1, <2>2, AddingKeeps DEF DeliveryInv
  <2>3. QED BY <1>1, <2>1, <2>2
<1>6. OneCall' /\ \A rev : BeingSubmitted(rev) => BeingSubmitted(rev)'
  BY <1>1, <1>5, CallsStay
<1>7. NoSolves \in [Solvable -> Stamp] /\ \A k \in Solvable : NoSolves[k] = NoTime
  BY DEF NoSolves, Stamp
<1>8. Types' BY <1>1, <1>3, <1>7 DEF DeliveryInv, Types, Stamp
<1>9. OnTime'
  <2>1. \A k \in Solvable : solves'[k] <= now + MaxFutureSkew
    <3>1. NoTime <= now + MaxFutureSkew BY <1>3, PipelineAssumption DEF NoTime, Instant
    <3>2. \A k \in Solvable : solves[k] <= now + MaxFutureSkew
      BY DEF DeliveryInv, OnTime, NoSolveFromTheFuture
    <3>3. QED BY <1>1, <1>7, <3>1, <3>2
  <2>2. QED BY <1>1, <1>3, <2>1 DEF DeliveryInv, OnTime, NoSolveFromTheFuture
<1>10. wipedAt' <= now' BY <1>1, <1>3 DEF DeliveryInv, Timely, Instant
<1>11. GitHubNow' \in Nat /\ GitHubNow <= GitHubNow' BY <1>4
<1>12. QED BY <1>1, <1>2, <1>5, <1>6, <1>8, <1>9, <1>10, <1>11, OutsideStep

LEMMA TimePassesInv == ASSUME DeliveryInv, TimePasses PROVE DeliveryInv'
<1>1. Tick /\ UNCHANGED <<comment, mem, durable, poller, calls, solves, refused, wipedAt>>
  BY DEF TimePasses, pipelineVars
<1>2. AdminInv' BY <1>1, AdminNextInv DEF DeliveryInv, AdminNext
<1>3. now \in Instant /\ now' = now + 1 BY <1>1 DEF DeliveryInv, AdminInv, AdminTypeOK, Tick
<1>4. GitHubNow' \in Nat /\ GitHubNow <= GitHubNow' BY <1>3, GitHubClock
<1>5. SettledKept BY <1>1, AddingKeeps DEF DeliveryInv
<1>6. OneCall' /\ \A rev : BeingSubmitted(rev) => BeingSubmitted(rev)'
  BY <1>1, <1>5, CallsStay
<1>7. Types' BY <1>1 DEF DeliveryInv, Types
<1>8. OnTime'
  <2>1. \A t \in Stamp : t <= now + MaxFutureSkew => t <= now' + MaxFutureSkew
    BY <1>3, PipelineAssumption DEF Stamp, Instant, NoTime
  <2>2. \A q \in calls : q.phase = "writing" => q.iso \in Stamp /\ q.iso \in Instant /\ q.iso <= now + MaxFutureSkew
    BY DEF DeliveryInv, OnTime, Stamp
  <2>3. \A k \in Solvable : solves[k] \in Stamp /\ solves[k] <= now + MaxFutureSkew
    BY DEF DeliveryInv, OnTime, NoSolveFromTheFuture, Types
  <2>4. QED BY <1>1, <2>1, <2>2, <2>3 DEF OnTime, NoSolveFromTheFuture
<1>9. wipedAt' <= now'
  BY <1>1, <1>3 DEF DeliveryInv, Timely, Types, Stamp, Instant, NoTime
<1>10. QED BY <1>1, <1>2, <1>4, <1>5, <1>6, <1>7, <1>8, <1>9, OutsideStep

(***************************************************************************)
(* GitHub: an edit is ahead of everything the poller has seen.              *)
(***************************************************************************)
LEMMA UpsertInv ==
    ASSUME DeliveryInv, NEW c \in Comments, NEW body \in Bodies, Upsert(c, body)
    PROVE  DeliveryInv'
<1> USE DEF DeliveryInv
<1>1. /\ UNCHANGED adminVars
      /\ UNCHANGED <<mem, durable, poller, calls, solves, refused, wipedAt>>
      /\ comment[c].at < GitHubNow
      /\ comment' = [comment EXCEPT ![c] = [at |-> GitHubNow, body |-> body]]
  BY DEF Upsert
<1>2. /\ AdminInv' /\ now \in Nat /\ now' = now /\ GitHubNow' = GitHubNow /\ GitHubNow \in Nat
  BY <1>1, AdminStays DEF Instant
<1>3. /\ \A d \in Comments : comment[d].at \in Stamp /\ comment[d].at <= GitHubNow
      /\ comment'[c].at = GitHubNow /\ comment'[c].body = body
      /\ \A d \in Comments : d # c => comment'[d] = comment[d]
  BY <1>1 DEF Types, Timely
<1>4. Types'
  <2>1. body \in Body BY PipelineAssumption
  <2>2. comment' \in [Comments -> [at : Stamp, body : Body]]
    BY <1>1, <1>2, <2>1 DEF Types, Stamp, Instant
  <2>3. QED BY <1>1, <2>2 DEF Types
<1>5. \A d \in Comments : comment[d].at <= comment'[d].at /\ comment'[d].at <= GitHubNow
  <2> SUFFICES ASSUME NEW d \in Comments
               PROVE  comment[d].at <= comment'[d].at /\ comment'[d].at <= GitHubNow
    OBVIOUS
  <2>1. comment[d].at \in Stamp /\ comment[d].at <= GitHubNow BY <1>3
  <2>2. CASE d = c BY <1>2, <1>3, <2>1, <2>2
  <2>3. CASE d # c BY <1>3, <2>1, <2>3 DEF Stamp, Instant, NoTime
  <2>4. QED BY <2>2, <2>3
<1>6. Timely'
  <2>1. \A st \in {mem, durable}, r \in Repos :
           \A i \in DOMAIN st.repos[r].seen :
              LET key == st.repos[r].seen[i] IN key[2] <= comment'[key[1]].at
    <3> SUFFICES ASSUME NEW st \in {mem, durable}, NEW r \in Repos, NEW i \in DOMAIN st.repos[r].seen
                 PROVE  st.repos[r].seen[i][2] <= comment'[st.repos[r].seen[i][1]].at
      OBVIOUS
    <3>1. st.repos[r].seen \in Seq(Comments \X Instant)
      BY DEF Types, PollState, Cursors
    <3>2. st.repos[r].seen[i][1] \in Comments /\ st.repos[r].seen[i][2] \in Nat
      BY <3>1 DEF Instant
    <3>3. st.repos[r].seen[i][2] <= comment[st.repos[r].seen[i][1]].at
      BY DEF Timely
    <3> HIDE DEF DeliveryInv
    <3>4. \A k \in Nat, x, y \in Stamp : k <= x /\ x <= y => k <= y
      BY DEF Stamp, Instant, NoTime
    <3>5. comment'[st.repos[r].seen[i][1]].at \in Stamp BY <1>4, <3>2 DEF Types
    <3>6. QED BY <1>3, <1>5, <3>2, <3>3, <3>4, <3>5
  <2>2. QED BY <1>1, <1>2, <1>5, <2>1 DEF Timely
<1>7. \A rev \in Revision : Known(rev) => Known(rev)'
  <2> SUFFICES ASSUME NEW rev \in Revision, Known(rev) PROVE Known(rev)'
    OBVIOUS
  <2>1. rev.id \in Comments /\ rev.at \in Nat /\ rev.at <= comment[rev.id].at
    BY DEF Revision, Instant, Known
  <2>2. CASE rev.id = c
    <3>1. rev.at < GitHubNow BY <1>1, <1>2, <1>3, <2>1, <2>2 DEF Stamp, Instant, NoTime
    <3>2. QED BY <1>2, <1>3, <2>1, <2>2, <3>1 DEF Known
  <2>3. CASE rev.id # c BY <1>3, <2>1, <2>3 DEF Known
  <2>4. QED BY <2>2, <2>3
<1>8. PageInOrder'
  <2>1. \A i \in DOMAIN poller.page : poller.page[i] \in Revision BY DEF Types, Poller
  <2>2. QED BY <1>1, <1>7, <2>1 DEF PageInOrder, Handling, Target, Cursor
<1>9. SettledKept BY <1>1, AddingKeeps
<1>10. OneCall' /\ \A rev : BeingSubmitted(rev) => BeingSubmitted(rev)'
  BY <1>1, <1>9, CallsStay
<1>11. OnTime' BY <1>1, <1>2 DEF OnTime, NoSolveFromTheFuture
<1>12. \A rev \in Scores' : rev \in Scores \/ (rev.id = c /\ rev.at = GitHubNow /\ rev \in Revision)
  <2> SUFFICES ASSUME NEW d \in ByBot, Posted(d)', comment'[d].body.kind = "score"
               PROVE  LET rev == Rev(d)'
                      IN  rev \in Scores \/ (rev.id = c /\ rev.at = GitHubNow /\ rev \in Revision)
    BY DEF Scores
  <2>1. d \in Comments BY PipelineAssumption
  <2>2. CASE d = c
    <3>1. comment'[c].body \in Body BY <1>4, <2>1, <2>2 DEF Types
    <3>2. QED BY <1>2, <1>3, <2>1, <2>2, <3>1 DEF Rev, Revision, Instant
  <2>3. CASE d # c
    <3>1. comment'[d] = comment[d] BY <1>3, <2>1, <2>3
    <3>2. QED BY <3>1 DEF Scores, Posted, Rev
  <2>4. QED BY <2>2, <2>3
<1>13. \A rev \in Scores' : rev \notin Scores => ~Consumed(mem, rev) /\ ~Consumed(durable, rev)
  <2> SUFFICES ASSUME NEW rev \in Revision, rev.id = c, rev.at = GitHubNow, NEW st \in {mem, durable}
               PROVE  ~Consumed(st, rev)
    BY <1>12
  <2>1. RepoOf[c] \in Repos BY ReposFacts
  <2>2. st.repos[RepoOf[c]].since <= GitHubNow /\ st.repos[RepoOf[c]].since \in Stamp
    BY <2>1 DEF Timely, Types, PollState, Cursors
  <2>3. ~(GitHubNow < st.repos[RepoOf[c]].since) BY <1>2, <2>2 DEF Stamp, Instant, NoTime
  <2>4. ~Contains(st.repos[RepoOf[c]].seen, <<c, GitHubNow>>)
    <3> DEFINE seen == st.repos[RepoOf[c]].seen
    <3> SUFFICES ASSUME NEW i \in 1..Len(seen), seen[i] = <<c, GitHubNow>>
                 PROVE  FALSE
      BY DEF Contains
    <3>1. seen \in Seq(Comments \X Instant) BY <2>1 DEF Types, PollState, Cursors
    <3>2. i \in DOMAIN seen BY <3>1
    <3>3. seen[i][2] <= comment[seen[i][1]].at BY <2>1, <3>2 DEF Timely
    <3>4. GitHubNow <= comment[c].at BY <3>3
    <3>5. QED BY <1>1, <1>2, <1>3, <3>4 DEF Stamp, Instant, NoTime
  <2>5. QED BY <2>3, <2>4 DEF Consumed, SeenKey
<1>14. \A rev : /\ Consumed(mem, rev)' = Consumed(mem, rev)
                /\ Consumed(durable, rev)' = Consumed(durable, rev)
                /\ Settled(mem, rev)' = Settled(mem, rev)
                /\ Settled(durable, rev)' = Settled(durable, rev)
  BY <1>1 DEF Consumed, Settled, Predates, Recorded, Refused
<1>15. NoScoreLost' BY <1>10, <1>13, <1>14 DEF NoScoreLost
<1>16. CrashLosesNoScore' BY <1>13, <1>14 DEF CrashLosesNoScore
<1>17. ScannedIsSettled'
  <2>1. Bound <= GitHubNow /\ Bound \in Stamp BY DEF Bound, Timely, Types, Poller
  <2>2. \A rev \in Scores' : rev.at < Bound => rev \in Scores
    BY <1>2, <1>12, <2>1 DEF Stamp, Instant, NoTime
  <2>3. Bound' = Bound /\ Target' = Target /\ Handling' = Handling
    BY <1>1 DEF Bound, Target, Handling
  <2>4. QED BY <1>1, <1>14, <2>2, <2>3 DEF ScannedIsSettled
<1>18. QED BY <1>2, <1>4, <1>6, <1>8, <1>10, <1>11, <1>15, <1>16, <1>17

(***************************************************************************)
(* The poller between two pages.                                            *)
(***************************************************************************)
\* A state a tick may go on from, or a restart.
Sound(st) ==
    /\ st \in PollState
    /\ \A r \in Repos : st.repos[r].since <= GitHubNow
    /\ \A r \in Repos : \A i \in DOMAIN st.repos[r].seen :
          LET key == st.repos[r].seen[i] IN key[2] <= comment[key[1]].at
    /\ \A rev \in Scores : Consumed(st, rev) => Settled(st, rev)

LEMMA DurableIsSound == DeliveryInv => Sound(durable)
BY DEF DeliveryInv, Sound, Types, Timely, CrashLosesNoScore

LEMMA NobodyListens ==
    ASSUME DeliveryInv, poller.pc # "await"
    PROVE  /\ \A q \in calls : ~q.heard
           /\ \A rev : ~BeingSubmitted(rev)
           /\ Sound(mem)
<1>1. \A q \in calls : ~q.heard BY DEF DeliveryInv, OneCall
<1>2. \A rev : ~BeingSubmitted(rev) BY <1>1 DEF BeingSubmitted
<1>3. QED BY <1>1, <1>2 DEF DeliveryInv, Sound, Types, Timely, NoScoreLost

\* A state without cursors has nothing consumed.
LEMMA NoCursorsIsSound ==
    ASSUME DeliveryInv, NEW st \in PollState, st.repos = FreshState.repos
    PROVE  Sound(st)
<1>1. GitHubNow \in Nat BY GitHubClock DEF DeliveryInv, AdminInv, AdminTypeOK
<1>2. \A r \in Repos : st.repos[r].since = NoTime /\ st.repos[r].seen = <<>>
  BY FreshStateType
<1>3. \A rev \in Scores : ~Consumed(st, rev)
  <2> SUFFICES ASSUME NEW rev \in Scores PROVE ~Consumed(st, rev)
    OBVIOUS
  <2>1. RepoOf[rev.id] \in Repos /\ rev.at \in Nat
    BY ScoreFacts DEF DeliveryInv, Instant
  <2>2. QED BY <1>2, <2>1 DEF Consumed, Contains, NoTime
<1>4. QED BY <1>1, <1>2, <1>3 DEF Sound, NoTime

\* The poller comes to rest between two pages, listening to nobody.
LEMMA RestStep ==
    ASSUME DeliveryInv,
           UNCHANGED <<adminVars, comment, solves, refused, wipedAt>>,
           Sound(mem)', durable' = durable \/ durable' = mem',
           poller' \in Poller, poller'.pc \notin {"handle", "await"},
           poller'.pc = "poll" => poller'.todo # <<>>,
           poller'.next = NoTime, poller'.stopAt = NoTime,
           calls' \in SUBSET Call,
           \A q \in calls' : /\ ~q.heard
                             /\ q.phase = "writing" => q.iso \in Instant /\ q.iso <= now + MaxFutureSkew
    PROVE  DeliveryInv'
<1>1. AdminInv' /\ now' = now /\ GitHubNow' = GitHubNow /\ GitHubNow \in Nat
  BY AdminStays
<1>2. Scores' = Scores BY DEF Scores, Posted, Rev
<1>3. Sound(durable)'
  <2>1. CASE durable' = durable
    BY <1>1, <1>2, <2>1, DurableIsSound
       DEF Sound, Consumed, Settled, Predates, Recorded, Refused
  <2>2. CASE durable' = mem' BY <2>2 DEF Sound
  <2>3. QED BY <2>1, <2>2
<1>4. Types' BY <1>3 DEF DeliveryInv, Types, Sound
<1>5. NoTime <= GitHubNow BY <1>1 DEF NoTime
<1>6. Timely'
  <2>1. \A c \in Comments : comment'[c].at <= GitHubNow'
    BY <1>1 DEF DeliveryInv, Timely
  <2>2. wipedAt' <= now' BY <1>1 DEF DeliveryInv, Timely
  <2>3. QED BY <1>1, <1>3, <1>5, <2>1, <2>2 DEF Timely, Sound
<1>7. PageInOrder' /\ ScannedIsSettled' BY DEF PageInOrder, ScannedIsSettled, Handling
<1>8. OneCall' BY DEF OneCall
<1>9. OnTime' BY <1>1 DEF DeliveryInv, OnTime, NoSolveFromTheFuture
<1>10. NoScoreLost' BY DEF NoScoreLost, Sound
<1>11. CrashLosesNoScore' BY <1>3 DEF CrashLosesNoScore, Sound
<1>12. QED BY <1>1, <1>4, <1>6, <1>7, <1>8, <1>9, <1>10, <1>11 DEF DeliveryInv

\* Soundness depends on the state only through what a poller step leaves alone.
LEMMA SoundStays ==
    ASSUME DeliveryInv, UNCHANGED <<adminVars, comment, solves, refused, wipedAt>>,
           NEW st, Sound(st), mem' = st
    PROVE  Sound(mem)'
<1>1. GitHubNow' = GitHubNow BY AdminStays
<1>2. Scores' = Scores BY DEF Scores, Posted, Rev
<1>3. \A rev \in Scores : Consumed(mem, rev)' => Settled(mem, rev)'
  BY DEF Sound, Consumed, Settled, Predates, Recorded, Refused
<1>4. QED BY <1>1, <1>2, <1>3 DEF Sound

LEMMA RestingPlaces ==
    ASSUME Types
    PROVE  /\ \A pc \in {"idle", "save", "down"} :
                 /\ AtRest(pc) \in Poller /\ AtRest(pc).pc = pc
                 /\ AtRest(pc).next = NoTime /\ AtRest(pc).stopAt = NoTime
           /\ \A l \in Seq(Repos) :
                 LET p == [AtRest("poll") EXCEPT !.todo = l]
                 IN  /\ p \in Poller /\ p.pc = "poll" /\ p.todo = l
                     /\ p.next = NoTime /\ p.stopAt = NoTime
           /\ poller.pc \in {"poll", "handle", "await"} =>
                 /\ NextTarget \in Poller
                 /\ NextTarget.pc \notin {"handle", "await"}
                 /\ NextTarget.pc = "poll" => NextTarget.todo # <<>>
                 /\ NextTarget.next = NoTime /\ NextTarget.stopAt = NoTime
<1>1. \A pc \in {"idle", "save", "down", "poll"} :
         /\ AtRest(pc) \in Poller /\ AtRest(pc).pc = pc
         /\ AtRest(pc).next = NoTime /\ AtRest(pc).stopAt = NoTime
  BY DEF AtRest, Poller, Stamp
<1>2. \A l \in Seq(Repos) :
         LET p == [AtRest("poll") EXCEPT !.todo = l]
         IN  /\ p \in Poller /\ p.pc = "poll" /\ p.todo = l
             /\ p.next = NoTime /\ p.stopAt = NoTime
  BY <1>1 DEF AtRest, Poller, Stamp
<1>3. ASSUME poller.pc \in {"poll", "handle", "await"}
      PROVE  /\ NextTarget \in Poller
             /\ NextTarget.pc \notin {"handle", "await"}
             /\ NextTarget.pc = "poll" => NextTarget.todo # <<>>
             /\ NextTarget.next = NoTime /\ NextTarget.stopAt = NoTime
  <2>1. poller.todo \in Seq(Repos) /\ poller.todo # <<>> BY <1>3 DEF Types, Poller
  <2>2. CASE Len(poller.todo) = 1 BY <1>1, <2>2 DEF NextTarget
  <2>3. CASE Len(poller.todo) # 1
    <3>1. Tail(poller.todo) \in Seq(Repos) /\ Tail(poller.todo) # <<>>
      <4>1. /\ Tail(poller.todo) \in Seq(Repos) /\ Len(poller.todo) \in Nat \ {0}
            /\ Len(Tail(poller.todo)) = Len(poller.todo) - 1
        BY <2>1, TailFacts
      <4>2. Len(<<>>) = 0 OBVIOUS
      <4>3. Len(Tail(poller.todo)) # 0 BY <2>3, <4>1
      <4>4. QED BY <4>1, <4>2, <4>3
    <3>2. NextTarget = [AtRest("poll") EXCEPT !.todo = Tail(poller.todo)] BY <2>3 DEF NextTarget
    <3>3. QED BY <1>2, <3>1, <3>2
  <2>4. QED BY <2>2, <2>3
<1>4. QED BY <1>1, <1>2, <1>3

LEMMA CallsAtRest ==
    ASSUME DeliveryInv, poller.pc # "await"
    PROVE  /\ calls \in SUBSET Call
           /\ \A q \in calls : /\ ~q.heard
                               /\ q.phase = "writing" => q.iso \in Instant /\ q.iso <= now + MaxFutureSkew
BY NobodyListens DEF DeliveryInv, Types, OnTime

LEMMA BootInv == ASSUME DeliveryInv, Boot PROVE DeliveryInv'
<1>1. /\ UNCHANGED <<adminVars, comment, durable, calls, solves, refused, wipedAt>>
      /\ mem' = durable /\ poller' = AtRest("idle") /\ poller.pc = "down"
  BY DEF Boot, PollerOnly, PollerAt
<1>2. Sound(mem)' BY <1>1, DurableIsSound, SoundStays
<1>3. /\ poller' \in Poller /\ poller'.pc = "idle"
      /\ poller'.next = NoTime /\ poller'.stopAt = NoTime
  BY <1>1, RestingPlaces DEF DeliveryInv
<1>4. QED BY <1>1, <1>2, <1>3, CallsAtRest, RestStep

LEMMA HonourResetFacts ==
    ASSUME DeliveryInv, poller.pc # "await", NEW epoch \in Stamp, HonourReset(epoch)
    PROVE  Sound(mem') /\ mem'.dropped = mem.dropped
<1>1. CASE epoch # NoTime /\ epoch # mem.resetAt
  <2> DEFINE st == [mem EXCEPT !.repos = FreshState.repos, !.resetAt = epoch]
  <2>1. mem' = st BY <1>1 DEF HonourReset
  <2>2. mem \in PollState /\ FreshState \in PollState
    BY FreshStateType DEF DeliveryInv, Types
  <2>3. st \in PollState /\ st.repos = FreshState.repos /\ st.dropped = mem.dropped
    BY <2>2 DEF PollState
  <2> HIDE DEF st
  <2>4. QED BY <2>1, <2>3, NoCursorsIsSound
<1>2. CASE ~(epoch # NoTime /\ epoch # mem.resetAt)
  BY <1>2, NobodyListens DEF HonourReset
<1>3. QED BY <1>1, <1>2

LEMMA StartTickInv ==
    ASSUME DeliveryInv, NEW l \in TargetLists, StartTick(l)
    PROVE  DeliveryInv'
<1>1. /\ UNCHANGED <<adminVars, comment, durable, calls, solves, refused, wipedAt>>
      /\ poller.pc = "idle" /\ poller' = [AtRest("poll") EXCEPT !.todo = l]
      /\ HonourReset(settings.resetAt) \/ HonourReset(NoTime)
  BY DEF StartTick, PollerOnly, PollerAt
<1>2. settings.resetAt \in Stamp /\ NoTime \in Stamp
  BY DEF DeliveryInv, AdminInv, AdminTypeOK, Policy, Stamp
<1>3. Sound(mem') BY <1>1, <1>2, HonourResetFacts
<1>4. Sound(mem)' BY <1>1, <1>3, SoundStays
<1>5. l \in Seq(Repos) /\ l # <<>> BY PipelineAssumption
<1>6. /\ poller' \in Poller /\ poller'.pc = "poll" /\ poller'.todo # <<>>
      /\ poller'.next = NoTime /\ poller'.stopAt = NoTime
  BY <1>1, <1>5, RestingPlaces DEF DeliveryInv
<1>7. QED BY <1>1, <1>4, <1>6, CallsAtRest, RestStep

LEMMA TargetsUnreadableInv == ASSUME DeliveryInv, TargetsUnreadable PROVE DeliveryInv'
<1>1. /\ UNCHANGED <<adminVars, comment, durable, calls, solves, refused, wipedAt, mem>>
      /\ poller.pc = "idle" /\ poller' = AtRest("save")
  BY DEF TargetsUnreadable, PollerOnly, PollerAt
<1>2. Sound(mem)' BY <1>1, NobodyListens, SoundStays
<1>3. /\ poller' \in Poller /\ poller'.pc = "save"
      /\ poller'.next = NoTime /\ poller'.stopAt = NoTime
  BY <1>1, RestingPlaces DEF DeliveryInv
<1>4. QED BY <1>1, <1>2, <1>3, CallsAtRest, RestStep

LEMMA FetchFailsInv == ASSUME DeliveryInv, FetchFails PROVE DeliveryInv'
<1>1. /\ UNCHANGED <<adminVars, comment, durable, calls, solves, refused, wipedAt, mem>>
      /\ poller.pc = "poll" /\ poller' = NextTarget
  BY DEF FetchFails, PollerOnly, PollerAt
<1>2. Sound(mem)' BY <1>1, NobodyListens, SoundStays
<1>3. /\ poller' \in Poller /\ poller'.pc \notin {"handle", "await"}
      /\ poller'.pc = "poll" => poller'.todo # <<>>
      /\ poller'.next = NoTime /\ poller'.stopAt = NoTime
  BY <1>1, RestingPlaces DEF DeliveryInv
<1>4. QED BY <1>1, <1>2, <1>3, CallsAtRest, RestStep

\* What is saved was consumed by a poller that listens to nobody: all of it is
\* settled.
LEMMA SaveInv == ASSUME DeliveryInv, Save PROVE DeliveryInv'
<1>1. /\ UNCHANGED <<adminVars, comment, calls, solves, refused, wipedAt, mem>>
      /\ durable' = mem \/ durable' = durable
      /\ poller.pc = "save" /\ poller' = AtRest("idle")
  BY DEF Save, PollerAt
<1>2. Sound(mem)' BY <1>1, NobodyListens, SoundStays
<1>3. /\ poller' \in Poller /\ poller'.pc = "idle"
      /\ poller'.next = NoTime /\ poller'.stopAt = NoTime
  BY <1>1, RestingPlaces DEF DeliveryInv
<1>4. QED BY <1>1, <1>2, <1>3, CallsAtRest, RestStep

LEMMA GoesOnFacts ==
    ASSUME DeliveryInv, NEW qs \in SUBSET calls
    PROVE  /\ GoesOn(qs) \in SUBSET Call
           /\ \A q \in GoesOn(qs) : /\ ~q.heard
                                    /\ q.phase = "writing" => q.iso \in Instant /\ q.iso <= now + MaxFutureSkew
<1> SUFFICES ASSUME NEW p \in qs
             PROVE  LET q == [p EXCEPT !.heard = FALSE]
                    IN  /\ q \in Call /\ ~q.heard
                        /\ q.phase = "writing" => q.iso \in Instant /\ q.iso <= now + MaxFutureSkew
  BY DEF GoesOn
<1>1. p \in Call BY DEF DeliveryInv, Types
<1>2. p.phase = "writing" => p.iso \in Instant /\ p.iso <= now + MaxFutureSkew
  BY DEF DeliveryInv, OnTime
<1>3. QED BY <1>1, <1>2 DEF Call

LEMMA PollerCrashInv == ASSUME DeliveryInv, PollerCrash PROVE DeliveryInv'
<1>1. /\ UNCHANGED <<adminVars, comment, durable, solves, refused, wipedAt>>
      /\ mem' = FreshState /\ poller' = AtRest("down") /\ calls' = GoesOn(calls)
  BY DEF PollerCrash
<1>2. Sound(mem)' BY <1>1, FreshStateType, NoCursorsIsSound, SoundStays
<1>3. /\ poller' \in Poller /\ poller'.pc = "down"
      /\ poller'.next = NoTime /\ poller'.stopAt = NoTime
  BY <1>1, RestingPlaces DEF DeliveryInv
<1>4. /\ calls' \in SUBSET Call
      /\ \A q \in calls' : /\ ~q.heard
                           /\ q.phase = "writing" => q.iso \in Instant /\ q.iso <= now + MaxFutureSkew
  BY <1>1, GoesOnFacts
<1>5. QED BY <1>1, <1>2, <1>3, <1>4, RestStep

(***************************************************************************)
(* The poller amid a page.                                                  *)
(***************************************************************************)
LEMMA CursorFacts ==
    ASSUME Types, poller.pc \in {"poll", "handle", "await"}
    PROVE  /\ Target \in Repos /\ Head(poller.todo) = Target
           /\ Cursor = mem.repos[Target] /\ Cursor \in Cursors
           /\ Cursor.since \in Stamp /\ Cursor.seen \in Seq(Comments \X Instant)
<1>1. poller.todo \in Seq(Repos) /\ poller.todo # <<>> BY DEF Types, Poller
<1>2. Target \in Repos BY <1>1, TailFacts DEF Target
<1>3. Cursor = mem.repos[Target] BY DEF Cursor, Target
<1>4. mem.repos[Target] \in Cursors BY <1>2 DEF Types, PollState
<1>5. QED BY <1>2, <1>3, <1>4 DEF Target, Cursors

\* What GitHub answers is in order and complete up to where it stops.
LEMMA PageFacts ==
    ASSUME DeliveryInv, poller.pc = "poll", NEW page \in Pages(Target, Cursor.since)
    PROVE  /\ page \in Seq(Revision)
           /\ \A i \in DOMAIN page :
                 /\ Known(page[i]) /\ RepoOf[page[i].id] = Target
                 /\ Cursor.since <= page[i].at /\ page[i].at <= GitHubNow /\ page[i].at \in Nat
           /\ \A i, j \in DOMAIN page : i < j => page[i].at <= page[j].at
           /\ \A c \in Listed(Target, Cursor.since) :
                 Contains(page, Rev(c)) \/ (page # <<>> /\ Last(page).at <= comment[c].at)
<1> USE DEF DeliveryInv
<1> DEFINE listed == Listed(Target, Cursor.since)
           revs == {Rev(c) : c \in listed}
<1>1. PageSize \in Nat \ {0} BY PipelineAssumption
<1>2. page \in SeqOf(revs, PageSize) BY DEF Pages
<1>3. page \in Seq(revs) /\ \A i \in DOMAIN page : page[i] \in revs
  BY <1>1, <1>2, SeqOfFacts
<1>4. \A rev \in revs : /\ rev \in Revision
                        /\ Known(rev) /\ RepoOf[rev.id] = Target
                        /\ Cursor.since <= rev.at /\ rev.at <= GitHubNow /\ rev.at \in Nat
  <2> SUFFICES ASSUME NEW c \in Comments, RepoOf[c] = Target, Posted(c), comment[c].at >= Cursor.since
               PROVE  /\ Rev(c) \in Revision
                      /\ Known(Rev(c)) /\ RepoOf[Rev(c).id] = Target
                      /\ Cursor.since <= Rev(c).at /\ Rev(c).at <= GitHubNow /\ Rev(c).at \in Nat
    BY DEF Listed
  <2>1. comment[c].at \in Nat /\ comment[c].body \in Body BY DEF Types, Posted, Stamp, Instant
  <2>2. Rev(c).id = c /\ Rev(c).at = comment[c].at /\ Rev(c).body = comment[c].body BY DEF Rev
  <2>3. Rev(c) \in Revision BY <2>1 DEF Rev, Revision, Instant
  <2>4. comment[c].at <= GitHubNow BY DEF Timely
  <2>5. Cursor.since \in Stamp BY CursorFacts
  <2>6. Cursor.since <= comment[c].at BY <2>1, <2>5 DEF Stamp, Instant, NoTime
  <2>7. QED BY <2>1, <2>2, <2>3, <2>4, <2>6 DEF Known
<1>5. page \in Seq(Revision) BY <1>3, <1>4
<1>6. \A i, j \in DOMAIN page : i < j => page[i].at <= page[j].at BY DEF Pages
<1>7. \A c \in listed : Contains(page, Rev(c)) \/ (page # <<>> /\ Last(page).at <= comment[c].at)
  <2>1. \A c \in listed : Contains(page, Rev(c)) \/ (Len(page) = PageSize /\ Last(page).at <= comment[c].at)
    BY DEF Pages
  <2>2. Len(page) = PageSize => page # <<>> BY <1>1, <1>5
  <2>3. QED BY <2>1, <2>2
<1>8. QED BY <1>3, <1>4, <1>5, <1>6, <1>7

\* A fetch answers with a page, or that nothing changed; the poller keeps its
\* own comments of the page and where the page ends.
LEMMA FetchedPage ==
    ASSUME DeliveryInv, Fetch
    PROVE  \E page \in Pages(Target, Cursor.since), kept \in Seq(Revision), next \in Stamp,
                 etag \in SUBSET Seq(Revision) :
               /\ poller' = [poller EXCEPT !.pc = "handle", !.page = kept, !.stopAt = NoTime,
                                           !.next = next, !.etag = etag]
               /\ next <= GitHubNow
               /\ \A i \in DOMAIN kept : Contains(page, kept[i]) /\ kept[i].at <= next
               /\ \A i, j \in DOMAIN kept : i < j => kept[i].at <= kept[j].at
               /\ \/ next = Cursor.since
                  \/ /\ page # <<>> /\ next = Last(page).at
                     /\ \A rev : Contains(page, rev) /\ rev.id \in ByBot => Contains(kept, rev)
<1> USE DEF DeliveryInv
<1>1. /\ UNCHANGED <<adminVars, comment, durable, calls, solves, refused, wipedAt, mem>>
      /\ poller.pc = "poll" /\ poller.todo # <<>>
  BY DEF Fetch, PollerOnly, PollerAt, Types
<1>2. AdminInv' /\ now' = now /\ GitHubNow' = GitHubNow /\ GitHubNow \in Nat
  BY <1>1, AdminStays
<1>3. /\ Target \in Repos /\ Head(poller.todo) = Target /\ Cursor \in Cursors
      /\ Cursor.since \in Stamp /\ Cursor = mem.repos[Target] /\ Cursor.since <= GitHubNow
  BY <1>1, CursorFacts DEF Timely
<1>4. PICK page \in Pages(Target, Cursor.since) :
        \/ poller' = [poller EXCEPT !.pc = "handle", !.page = <<>>, !.stopAt = NoTime,
                                    !.next = Cursor.since, !.etag = Cursor.etag]
        \/ \E kept \in Filtered(page, {rev \in ToSet(page) : rev.id \in ByBot}) :
             poller' = [poller EXCEPT !.pc = "handle", !.page = kept, !.stopAt = NoTime,
                           !.next = IF page = <<>> THEN Cursor.since ELSE Last(page).at,
                           !.etag = {page}]
  BY <1>3 DEF Fetch
<1>5. CASE poller' = [poller EXCEPT !.pc = "handle", !.page = <<>>, !.stopAt = NoTime,
                                    !.next = Cursor.since, !.etag = Cursor.etag]
  <2>1. <<>> \in Seq(Revision) /\ Cursor.etag \in SUBSET Seq(Revision) /\ \A i \in DOMAIN <<>> : FALSE
    BY <1>3 DEF Cursors
  <2>2. QED BY <1>3, <1>5, <2>1
<1>6. CASE \E kept \in Filtered(page, {rev \in ToSet(page) : rev.id \in ByBot}) :
             poller' = [poller EXCEPT !.pc = "handle", !.page = kept, !.stopAt = NoTime,
                           !.next = IF page = <<>> THEN Cursor.since ELSE Last(page).at,
                           !.etag = {page}]
  <2> DEFINE bots == {rev \in ToSet(page) : rev.id \in ByBot}
             next == IF page = <<>> THEN Cursor.since ELSE Last(page).at
  <2>1. PICK kept \in Filtered(page, bots) :
          poller' = [poller EXCEPT !.pc = "handle", !.page = kept, !.stopAt = NoTime,
                                   !.next = next, !.etag = {page}]
    BY <1>6
  <2>2. /\ page \in Seq(Revision) /\ {page} \in SUBSET Seq(Revision)
        /\ \A i \in DOMAIN page : page[i].at <= GitHubNow /\ page[i].at \in Nat
        /\ \A i, j \in DOMAIN page : i < j => page[i].at <= page[j].at
    BY <1>1, PageFacts
  <2>3. /\ kept \in Seq(Revision)
        /\ \A i \in DOMAIN kept : kept[i] \in bots /\ Contains(page, kept[i])
        /\ \A e \in bots : Contains(page, e) => Contains(kept, e)
        /\ \A i, j \in DOMAIN kept : i < j =>
              \E m, n \in DOMAIN page : m < n /\ page[m] = kept[i] /\ page[n] = kept[j]
    <3> HIDE DEF bots
    <3>1. QED BY <2>2, FilteredFacts
  <2>4. \A rev : Contains(page, rev) /\ rev.id \in ByBot => Contains(kept, rev)
    <3> SUFFICES ASSUME NEW rev, Contains(page, rev), rev.id \in ByBot PROVE Contains(kept, rev)
      OBVIOUS
    <3>1. rev \in ToSet(page) BY <2>2 DEF Contains, ToSet
    <3>2. rev \in bots BY <3>1
    <3> HIDE DEF bots
    <3>3. QED BY <2>3, <3>2
  <2>5. \A i, j \in DOMAIN kept : i < j => kept[i].at <= kept[j].at
    BY <2>2, <2>3
  <2>6. page # <<>> => Len(page) \in DOMAIN page /\ Last(page) = page[Len(page)]
    BY <2>2 DEF Last
  <2>7. next \in Stamp /\ next <= GitHubNow
    BY <1>3, <2>2, <2>6 DEF Stamp, Instant
  <2>8. \A i \in DOMAIN page : page[i].at <= next
    <3> SUFFICES ASSUME NEW i \in DOMAIN page PROVE page[i].at <= next
      OBVIOUS
    <3>1. page # <<>> BY <2>2
    <3>2. i < Len(page) \/ i = Len(page) BY <2>2
    <3>3. page[i].at <= page[Len(page)].at BY <2>2, <2>6, <3>1, <3>2
    <3>4. QED BY <2>6, <3>1, <3>3
  <2>9. \A i \in DOMAIN kept : kept[i].at <= next
    BY <2>2, <2>3, <2>8 DEF Contains
  <2>10. next = Cursor.since \/ (page # <<>> /\ next = Last(page).at) OBVIOUS
  <2> HIDE DEF bots, next
  <2>11. kept \in Seq(Revision) /\ next \in Stamp /\ {page} \in SUBSET Seq(Revision)
    BY <2>2, <2>3, <2>7
  <2> USE <2>11
  <2>12. WITNESS page \in Pages(Target, Cursor.since), kept \in Seq(Revision), next \in Stamp,
                 {page} \in SUBSET Seq(Revision)
  <2>13. QED BY <2>1, <2>3, <2>4, <2>5, <2>7, <2>9, <2>10
<1>7. QED BY <1>4, <1>5, <1>6

LEMMA FetchInv == ASSUME DeliveryInv, Fetch PROVE DeliveryInv'
<1> USE DEF DeliveryInv
<1>1. /\ UNCHANGED <<adminVars, comment, durable, calls, solves, refused, wipedAt, mem>>
      /\ poller.pc = "poll" /\ poller.todo # <<>>
  BY DEF Fetch, PollerOnly, PollerAt, Types
<1>2. AdminInv' /\ now' = now /\ GitHubNow' = GitHubNow /\ GitHubNow \in Nat
  BY <1>1, AdminStays
<1>3. /\ Target \in Repos /\ Head(poller.todo) = Target /\ Cursor \in Cursors
      /\ Cursor.since \in Stamp /\ Cursor = mem.repos[Target] /\ Cursor.since <= GitHubNow
  BY <1>1, CursorFacts DEF Timely
<1>4. PICK page \in Pages(Target, Cursor.since), kept \in Seq(Revision), next \in Stamp,
           etag \in SUBSET Seq(Revision) :
         /\ poller' = [poller EXCEPT !.pc = "handle", !.page = kept, !.stopAt = NoTime,
                                     !.next = next, !.etag = etag]
         /\ next <= GitHubNow
         /\ \A i \in DOMAIN kept : Contains(page, kept[i]) /\ kept[i].at <= next
         /\ \A i, j \in DOMAIN kept : i < j => kept[i].at <= kept[j].at
         /\ \/ next = Cursor.since
            \/ /\ page # <<>> /\ next = Last(page).at
               /\ \A rev : Contains(page, rev) /\ rev.id \in ByBot => Contains(kept, rev)
  BY FetchedPage, ZenonT(40)
<1>5. /\ poller'.pc = "handle" /\ poller'.page = kept /\ poller'.next = next
      /\ poller'.stopAt = NoTime /\ poller'.todo = poller.todo /\ poller' \in Poller
  BY <1>4 DEF Types, Poller, Stamp
<1>6. Target' = Target /\ Cursor' = Cursor /\ Handling' /\ Bound' = next
  BY <1>1, <1>5 DEF Target, Cursor, Handling, Bound
<1>7. Scores' = Scores /\ \A rev : /\ Settled(mem, rev)' = Settled(mem, rev)
                                   /\ Consumed(mem, rev)' = Consumed(mem, rev)
                                   /\ Settled(durable, rev)' = Settled(durable, rev)
                                   /\ Consumed(durable, rev)' = Consumed(durable, rev)
                                   /\ BeingSubmitted(rev)' = BeingSubmitted(rev)
  BY <1>1 DEF Scores, Posted, Rev, Settled, Consumed, Predates, Recorded, Refused, BeingSubmitted
<1>8. /\ page \in Seq(Revision)
      /\ \A i \in DOMAIN page :
            /\ Known(page[i]) /\ RepoOf[page[i].id] = Target
            /\ Cursor.since <= page[i].at /\ page[i].at <= GitHubNow /\ page[i].at \in Nat
      /\ \A c \in Listed(Target, Cursor.since) :
            Contains(page, Rev(c)) \/ (page # <<>> /\ Last(page).at <= comment[c].at)
  BY <1>1, PageFacts
<1>9. Types' BY <1>1, <1>5 DEF Types
<1>10. Timely'
  <2>1. NoTime <= GitHubNow BY <1>2 DEF NoTime
  <2>2. QED BY <1>1, <1>2, <1>4, <1>5, <2>1 DEF Timely
<1>11. PageInOrder'
  <2>1. \A rev : Known(rev)' = Known(rev) BY <1>1 DEF Known
  <2>2. \A i \in DOMAIN kept : \E j \in DOMAIN page : kept[i] = page[j]
    BY <1>4, <1>8 DEF Contains
  <2>3. \A i \in DOMAIN kept : /\ Known(kept[i]) /\ RepoOf[kept[i].id] = Target
                               /\ Cursor.since <= kept[i].at /\ kept[i].at <= next
                               /\ NoTime <= kept[i].at
    BY <1>4, <1>8, <2>2 DEF NoTime
  <2>4. QED BY <1>4, <1>5, <1>6, <2>1, <2>3 DEF PageInOrder
<1>12. OneCall' /\ OnTime'
  BY <1>1, <1>2, <1>5, NobodyListens DEF OneCall, OnTime, NoSolveFromTheFuture
<1>13. NoScoreLost' /\ CrashLosesNoScore' BY <1>7 DEF NoScoreLost, CrashLosesNoScore
<1>14. ScannedIsSettled'
  <2> SUFFICES ASSUME NEW rev \in Scores, RepoOf[rev.id] = Target, rev.at < next, ~Contains(kept, rev)
               PROVE  Settled(mem, rev)
    BY <1>5, <1>6, <1>7 DEF ScannedIsSettled
  <2>1. /\ rev.id \in ByBot /\ rev.id \in Comments /\ rev = Rev(rev.id) /\ rev.at \in Nat
        /\ rev.at = comment[rev.id].at
    BY ScoreFacts DEF Instant
  <2>2. CASE rev.at < Cursor.since
    <3>1. Consumed(mem, rev) BY <1>3, <2>2 DEF Consumed
    <3>2. QED BY <1>1, <3>1, NobodyListens DEF Sound
  <2>3. CASE ~(rev.at < Cursor.since)
    <3>1. next # Cursor.since BY <2>3
    <3>2. ~Contains(page, rev) /\ next = Last(page).at BY <1>4, <2>1, <3>1
    <3>3. rev.id \in Listed(Target, Cursor.since)
      BY <1>3, <2>1, <2>3 DEF Listed, Posted, NoTime, Stamp, Instant
    <3>4. Last(page).at <= rev.at BY <1>8, <2>1, <3>2, <3>3
    <3>5. QED BY <2>1, <3>2, <3>4 DEF Stamp, Instant, NoTime
  <2>4. QED BY <2>2, <2>3
<1>15. QED BY <1>2, <1>9, <1>10, <1>11, <1>12, <1>13, <1>14

\* The comment the poller is at.
LEMMA Next1Facts ==
    ASSUME DeliveryInv, Handling, poller.page # <<>>
    PROVE  /\ Target \in Repos /\ poller.page \in Seq(Revision) /\ 1 \in DOMAIN poller.page
           /\ Next1 = poller.page[1] /\ Next1 \in Revision /\ Known(Next1)
           /\ RepoOf[Next1.id] = Target /\ Next1.at \in Nat
           /\ Cursor.since <= Next1.at /\ Next1.at <= poller.next /\ poller.stopAt <= Next1.at
           /\ Tail(poller.page) \in Seq(Revision)
           /\ DOMAIN Tail(poller.page) = 1..(Len(poller.page) - 1)
           /\ \A i \in DOMAIN Tail(poller.page) :
                 i + 1 \in DOMAIN poller.page /\ Tail(poller.page)[i] = poller.page[i + 1]
           /\ \A rev : Contains(poller.page, rev) => rev = Next1 \/ Contains(Tail(poller.page), rev)
           /\ \A rev \in Scores : SeenKey(rev) = SeenKey(Next1) => rev = Next1
<1> USE DEF DeliveryInv
<1>1. poller.page \in Seq(Revision) BY DEF Types, Poller
<1>2. Target \in Repos BY CursorFacts DEF Handling
<1>3. /\ Len(poller.page) \in Nat \ {0} /\ DOMAIN poller.page = 1..Len(poller.page)
      /\ Next1 = poller.page[1] /\ Next1 \in Revision
      /\ Tail(poller.page) \in Seq(Revision) /\ Len(Tail(poller.page)) = Len(poller.page) - 1
      /\ \A i \in 1..(Len(poller.page) - 1) : Tail(poller.page)[i] = poller.page[i + 1]
  BY <1>1, TailFacts DEF Next1
<1>4. 1 \in DOMAIN poller.page BY <1>3
<1>5. /\ Known(Next1) /\ RepoOf[Next1.id] = Target
      /\ Cursor.since <= Next1.at /\ Next1.at <= poller.next /\ poller.stopAt <= Next1.at
  BY <1>3, <1>4 DEF PageInOrder
<1>6. DOMAIN Tail(poller.page) = 1..(Len(poller.page) - 1) BY <1>3
<1>7. \A i \in DOMAIN Tail(poller.page) :
         i + 1 \in DOMAIN poller.page /\ Tail(poller.page)[i] = poller.page[i + 1]
  BY <1>3, <1>6
<1>8. \A rev : Contains(poller.page, rev) => rev = Next1 \/ Contains(Tail(poller.page), rev)
  <2> SUFFICES ASSUME NEW i \in 1..Len(poller.page), i # 1
               PROVE  Contains(Tail(poller.page), poller.page[i])
    BY <1>3 DEF Contains
  <2>1. i - 1 \in 1..Len(Tail(poller.page)) BY <1>3
  <2>2. Tail(poller.page)[i - 1] = poller.page[i] BY <1>3, <2>1
  <2>3. QED BY <2>1, <2>2 DEF Contains
<1>9. \A rev \in Scores : SeenKey(rev) = SeenKey(Next1) => rev = Next1
  BY <1>3, <1>5, ScoreFacts, KnownIsCurrent
<1>10. Next1.at \in Nat BY <1>3 DEF Revision, Instant
<1>11. QED BY <1>1, <1>2, <1>3, <1>4, <1>5, <1>6, <1>7, <1>8, <1>9, <1>10

\* The poller is done with a comment: it is settled, or the cursor will stop
\* at it.
LEMMA PageGoesOnInv ==
    ASSUME DeliveryInv, Handling, poller.page # <<>>,
           UNCHANGED <<adminVars, comment, durable, solves, refused, wipedAt>>,
           mem' \in PollState, mem'.resetAt = mem.resetAt,
           \A r \in Repos :
              /\ mem'.repos[r].since = mem.repos[r].since
              /\ \A i \in DOMAIN mem'.repos[r].seen :
                    \/ Contains(mem.repos[r].seen, mem'.repos[r].seen[i])
                    \/ r = Target /\ mem'.repos[r].seen[i] = SeenKey(Next1),
           calls' \in SUBSET Call,
           \A q \in calls' : /\ ~q.heard
                             /\ q.phase = "writing" => q.iso \in Instant /\ q.iso <= now + MaxFutureSkew,
           NEW stopAt \in Stamp,
           poller' = [PageGoesOn EXCEPT !.stopAt = stopAt],
           \/ stopAt = poller.stopAt /\ (Next1 \in Scores => Settled(mem, Next1))
           \/ /\ stopAt = IF poller.stopAt = NoTime THEN Next1.at ELSE poller.stopAt
              /\ ~Contains(mem'.repos[Target].seen, SeenKey(Next1))
    PROVE  DeliveryInv'
<1> USE DEF DeliveryInv
<1>1. AdminInv' /\ now' = now /\ GitHubNow' = GitHubNow /\ GitHubNow \in Nat BY AdminStays
<1>2. Scores' = Scores /\ Scores \subseteq Revision
  BY ScoreFacts DEF Scores, Posted, Rev
<1>3. /\ poller' \in Poller /\ poller'.pc = "handle" /\ poller'.todo = poller.todo
      /\ poller'.page = Tail(poller.page) /\ poller'.next = poller.next /\ poller'.stopAt = stopAt
  <2>1. poller \in Poller /\ Tail(poller.page) \in Seq(Revision) BY Next1Facts DEF Types
  <2>2. poller' = [poller EXCEPT !.pc = "handle", !.page = Tail(poller.page), !.stopAt = stopAt]
    BY DEF PageGoesOn
  <2>3. QED BY <2>1, <2>2 DEF Poller
<1>4. Target' = Target /\ Cursor'.since = Cursor.since /\ Handling'
  BY <1>3, CursorFacts DEF Target, Cursor, Handling
<1>5. \A rev : /\ Settled(mem, rev)' = Settled(mem, rev)
               /\ Settled(durable, rev)' = Settled(durable, rev)
               /\ Consumed(durable, rev)' = Consumed(durable, rev)
  BY DEF Settled, Predates, Recorded, Refused, Consumed
<1>6. /\ stopAt <= Next1.at /\ Next1.at <= poller.next
      /\ Next1.at \in Nat /\ poller.next \in Stamp
  <2>1. /\ Next1.at \in Nat /\ Next1.at <= poller.next /\ poller.stopAt <= Next1.at
    BY Next1Facts
  <2>2. poller.next \in Stamp BY DEF Types, Poller
  <2>3. stopAt <= Next1.at BY <2>1 DEF NoTime
  <2>4. QED BY <2>1, <2>2, <2>3
<1>7. Types' BY <1>3 DEF Types, Handling
<1>8. Timely'
  <2>1. mem \in PollState /\ \A r \in Repos : mem.repos[r].seen \in Seq(Comments \X Instant)
    BY DEF Types, PollState, Cursors
  <2>2. \A r \in Repos : \A i \in DOMAIN mem'.repos[r].seen :
           LET key == mem'.repos[r].seen[i] IN key[2] <= comment[key[1]].at
    <3> SUFFICES ASSUME NEW r \in Repos, NEW i \in DOMAIN mem'.repos[r].seen
                 PROVE  LET key == mem'.repos[r].seen[i] IN key[2] <= comment[key[1]].at
      OBVIOUS
    <3>1. CASE Contains(mem.repos[r].seen, mem'.repos[r].seen[i])
      <4>1. \A j \in DOMAIN mem.repos[r].seen :
               LET key == mem.repos[r].seen[j] IN key[2] <= comment[key[1]].at
        BY DEF Timely
      <4>2. \E j \in DOMAIN mem.repos[r].seen : mem.repos[r].seen[j] = mem'.repos[r].seen[i]
        BY <2>1, <3>1 DEF Contains
      <4>3. QED BY <4>1, <4>2
    <3>2. CASE mem'.repos[r].seen[i] = SeenKey(Next1)
      BY <3>2, Next1Facts DEF Known, SeenKey
    <3>3. QED BY <3>1, <3>2
  <2>3. stopAt <= GitHubNow
    <3>1. \A t \in Stamp : t <= poller.next => t <= GitHubNow
      BY <1>1 DEF Timely, Types, Poller, Stamp, Instant, NoTime
    <3>2. stopAt <= poller.next BY <1>6 DEF Stamp, Instant, NoTime
    <3>3. QED BY <3>1, <3>2
  <2>4. \A r \in Repos : mem'.repos[r].since <= GitHubNow /\ durable.repos[r].since <= GitHubNow
    BY DEF Timely
  <2>5. QED BY <1>1, <1>3, <2>2, <2>3, <2>4 DEF Timely
<1>9. PageInOrder'
  <2>1. \A i \in DOMAIN Tail(poller.page) : stopAt <= Tail(poller.page)[i].at
    <3> SUFFICES ASSUME NEW i \in DOMAIN Tail(poller.page) PROVE stopAt <= Tail(poller.page)[i].at
      OBVIOUS
    <3>1. /\ i + 1 \in DOMAIN poller.page /\ Tail(poller.page)[i] = poller.page[i + 1]
          /\ 1 \in DOMAIN poller.page /\ 1 < i + 1
      BY Next1Facts
    <3>2. Next1.at <= poller.page[i + 1].at BY <3>1, Next1Facts DEF PageInOrder
    <3>3. poller.page[i + 1].at \in Nat
      <4>1. poller.page \in Seq(Revision) BY Next1Facts
      <4>2. poller.page[i + 1] \in Revision BY <3>1, <4>1
      <4>3. QED BY <4>2 DEF Revision, Instant
    <3>4. QED BY <1>6, <3>1, <3>2, <3>3 DEF Stamp, Instant, NoTime
  <2>2. \A i \in DOMAIN Tail(poller.page) :
           LET rev == Tail(poller.page)[i]
           IN  Known(rev) /\ RepoOf[rev.id] = Target /\ Cursor.since <= rev.at /\ rev.at <= poller.next
    BY Next1Facts DEF PageInOrder
  <2>3. \A i, j \in DOMAIN Tail(poller.page) :
           i < j => Tail(poller.page)[i].at <= Tail(poller.page)[j].at
    <3>1. \A i, j \in DOMAIN Tail(poller.page) : i < j =>
             i + 1 \in DOMAIN poller.page /\ j + 1 \in DOMAIN poller.page /\ i + 1 < j + 1
      BY Next1Facts
    <3>2. QED BY <3>1, Next1Facts DEF PageInOrder
  <2>4. \A rev : Known(rev)' = Known(rev) BY DEF Known
  <2>5. QED BY <1>3, <1>4, <2>1, <2>2, <2>3, <2>4 DEF PageInOrder
<1>10. OneCall' BY <1>3 DEF OneCall
<1>11. OnTime' BY <1>1 DEF OnTime, NoSolveFromTheFuture
<1>12. \A rev : BeingSubmitted(rev) => rev = Next1
  BY HeardFacts DEF BeingSubmitted
<1>13. ASSUME NEW rev \in Scores, Consumed(mem, rev)' PROVE Settled(mem, rev)
  <2>1. rev.at \in Nat /\ RepoOf[rev.id] \in Repos BY ScoreFacts DEF Instant
  <2>2. rev = Next1 => ~(rev.at < mem.repos[RepoOf[rev.id]].since)
    <3>1. SUFFICES ASSUME rev = Next1, Next1.at < mem.repos[RepoOf[rev.id]].since PROVE FALSE
      OBVIOUS
    <3>2. mem.repos[RepoOf[rev.id]].since = Cursor.since /\ Cursor.since \in Stamp
      BY <3>1, Next1Facts, CursorFacts DEF Handling
    <3>3. QED BY <3>1, <3>2, Next1Facts DEF Stamp, Instant, NoTime
  <2>3. CASE rev.at < mem.repos[RepoOf[rev.id]].since
    <3>1. Consumed(mem, rev) BY <2>3 DEF Consumed
    <3>2. QED BY <1>12, <2>2, <2>3, <3>1 DEF NoScoreLost
  <2>4. CASE Contains(mem'.repos[RepoOf[rev.id]].seen, SeenKey(rev))
    <3>1. mem'.repos[RepoOf[rev.id]].seen \in Seq(Comments \X Instant)
      BY <2>1 DEF PollState, Cursors
    <3>2. \/ Contains(mem.repos[RepoOf[rev.id]].seen, SeenKey(rev))
          \/ SeenKey(rev) = SeenKey(Next1)
      <4>1. PICK i \in DOMAIN mem'.repos[RepoOf[rev.id]].seen :
               mem'.repos[RepoOf[rev.id]].seen[i] = SeenKey(rev)
        BY <2>4, <3>1 DEF Contains
      <4>2. QED BY <2>1, <4>1
    <3>3. Consumed(mem, rev) \/ rev = Next1 BY <3>2, Next1Facts DEF Consumed
    <3>4. Settled(mem, rev) \/ rev = Next1 BY <1>12, <3>3 DEF NoScoreLost
    <3>5. rev = Next1 => RepoOf[rev.id] = Target BY Next1Facts
    <3>6. QED BY <2>4, <3>4, <3>5
  <2>5. QED BY <1>13, <2>1, <2>3, <2>4 DEF Consumed
<1>14. NoScoreLost' BY <1>2, <1>5, <1>13 DEF NoScoreLost
<1>15. CrashLosesNoScore' BY <1>2, <1>5 DEF CrashLosesNoScore
<1>16. ScannedIsSettled'
  <2> SUFFICES ASSUME NEW rev \in Scores, RepoOf[rev.id] = Target, rev.at < Bound',
                      ~Contains(Tail(poller.page), rev)
               PROVE  Settled(mem, rev)
    BY <1>2, <1>3, <1>4, <1>5 DEF ScannedIsSettled
  <2>1. rev.at \in Nat BY ScoreFacts DEF Instant
  <2>2. rev.at < Bound
    BY <1>3, <1>6, <2>1, Next1Facts DEF Bound, Types, Poller, Stamp, Instant, NoTime
  <2>3. CASE rev = Next1
    <3>1. CASE stopAt = IF poller.stopAt = NoTime THEN Next1.at ELSE poller.stopAt
      BY <1>3, <1>6, <2>1, <2>3, <3>1, Next1Facts DEF Bound, Types, Poller, Stamp, Instant, NoTime
    <3>2. QED BY <2>3, <3>1
  <2>4. CASE rev # Next1
    <3>1. ~Contains(poller.page, rev) BY <2>4, Next1Facts
    <3>2. QED BY <2>2, <3>1 DEF ScannedIsSettled
  <2>5. QED BY <2>3, <2>4
<1>17. QED BY <1>1, <1>7, <1>8, <1>9, <1>10, <1>11, <1>14, <1>15, <1>16

\* A comment passed over without a request: if it is a score, it is an
\* old one the poller remembers, or from before the reset.
LEMMA SkipCommentInv == ASSUME DeliveryInv, SkipComment PROVE DeliveryInv'
<1> USE DEF DeliveryInv
<1>1. /\ UNCHANGED <<adminVars, comment, durable, calls, solves, refused, wipedAt>>
      /\ poller.pc = "handle" /\ poller.page # <<>> /\ ~Submits(Next1)
      /\ poller' = [poller EXCEPT !.page = Tail(@)]
  BY DEF SkipComment, PollerOnly, Pending, PollerAt
<1> DEFINE marked == MarkSeen(mem, Target, Next1)
<1>2. mem' = marked \/ mem' = Drop(marked) BY DEF SkipComment, Target
<1>3. Handling /\ poller \in Poller /\ mem \in PollState BY <1>1 DEF Handling, Types
<1>4. Target \in Repos /\ Next1 \in Revision BY <1>1, <1>3, Next1Facts
<1>5. /\ marked \in PollState
      /\ marked.resetAt = mem.resetAt
      /\ \A r \in Repos : /\ marked.repos[r].since = mem.repos[r].since
                          /\ r # Target => marked.repos[r].seen = mem.repos[r].seen
      /\ \A i \in DOMAIN marked.repos[Target].seen :
            \/ marked.repos[Target].seen[i] = SeenKey(Next1)
            \/ Contains(mem.repos[Target].seen, marked.repos[Target].seen[i])
  BY <1>3, <1>4, MarkSeenFacts
<1> HIDE DEF marked
<1>6. mem' \in PollState /\ mem'.resetAt = marked.resetAt /\ mem'.repos = marked.repos
  BY <1>2, <1>5 DEF Drop, PollState
<1>7. \A r \in Repos :
         /\ mem'.repos[r].since = mem.repos[r].since
         /\ \A i \in DOMAIN mem'.repos[r].seen :
               \/ Contains(mem.repos[r].seen, mem'.repos[r].seen[i])
               \/ r = Target /\ mem'.repos[r].seen[i] = SeenKey(Next1)
  <2>1. \A r \in Repos : mem.repos[r].seen \in Seq(Comments \X Instant)
    BY <1>3 DEF PollState, Cursors
  <2>2. \A r \in Repos : \A i \in DOMAIN mem.repos[r].seen :
           Contains(mem.repos[r].seen, mem.repos[r].seen[i])
    BY <2>1 DEF Contains
  <2>3. QED BY <1>5, <1>6, <2>2
<1>8. Next1 \in Scores => Settled(mem, Next1)
  <2>1. SUFFICES ASSUME Next1 \in Scores PROVE Settled(mem, Next1)
    OBVIOUS
  <2>2. Next1.body.kind = "score" BY <2>1, ScoreFacts
  <2>3. CASE Duplicate(Next1)
    <3>1. Consumed(mem, Next1)
      BY <1>1, <1>3, <2>3, Next1Facts, CursorFacts DEF Duplicate, Consumed
    <3>2. QED BY <1>1, <2>1, <3>1, NobodyListens DEF Sound
  <2>4. CASE PreReset(Next1) BY <2>4 DEF PreReset, Settled, Predates
  <2>5. QED BY <1>1, <2>2, <2>3, <2>4 DEF Submits
<1>9. poller' = [PageGoesOn EXCEPT !.stopAt = poller.stopAt]
  <2>1. poller' = [poller EXCEPT !.pc = "handle", !.page = Tail(poller.page), !.stopAt = poller.stopAt]
    BY <1>1, <1>3 DEF Poller
  <2>2. QED BY <2>1 DEF PageGoesOn
<1>10. poller.stopAt \in Stamp BY <1>3 DEF Poller
<1>11. /\ calls' \in SUBSET Call
       /\ \A q \in calls' : /\ ~q.heard
                            /\ q.phase = "writing" => q.iso \in Instant /\ q.iso <= now + MaxFutureSkew
  BY <1>1, CallsAtRest
<1>12. mem'.resetAt = mem.resetAt BY <1>5, <1>6
<1>13. QED BY <1>1, <1>3, <1>6, <1>7, <1>8, <1>9, <1>10, <1>11, <1>12, PageGoesOnInv

\* A revision is marked before its answer is known: until then it is being
\* submitted, and nothing is saved.
LEMMA SubmitInv == ASSUME DeliveryInv, Submit PROVE DeliveryInv'
<1> USE DEF DeliveryInv
<1> DEFINE new == [rev |-> Next1, heard |-> TRUE, iso |-> NoTime, blind |-> FALSE, phase |-> "arrived"]
<1>1. /\ UNCHANGED <<adminVars, comment, durable, solves, refused, wipedAt>>
      /\ poller.pc = "handle" /\ poller.page # <<>>
      /\ mem' = MarkSeen(mem, Target, Next1)
      /\ calls' = calls \union {new}
      /\ poller' = [poller EXCEPT !.pc = "await"]
  BY DEF Submit, Pending, PollerAt, Target
<1>2. Handling /\ poller \in Poller /\ mem \in PollState BY <1>1 DEF Handling, Types
<1>3. Target \in Repos /\ Next1 \in Revision BY <1>1, <1>2, Next1Facts
<1>4. AdminInv' /\ now' = now /\ GitHubNow' = GitHubNow /\ GitHubNow \in Nat BY <1>1, AdminStays
<1>5. /\ mem' \in PollState /\ mem'.resetAt = mem.resetAt
      /\ \A r \in Repos : /\ mem'.repos[r].since = mem.repos[r].since
                          /\ r # Target => mem'.repos[r].seen = mem.repos[r].seen
      /\ \A i \in DOMAIN mem'.repos[Target].seen :
            \/ mem'.repos[Target].seen[i] = SeenKey(Next1)
            \/ Contains(mem.repos[Target].seen, mem'.repos[Target].seen[i])
  BY <1>1, <1>2, <1>3, MarkSeenFacts
<1>6. /\ poller' \in Poller /\ poller'.pc = "await" /\ poller'.todo = poller.todo
      /\ poller'.page = poller.page /\ poller'.next = poller.next /\ poller'.stopAt = poller.stopAt
  BY <1>1, <1>2 DEF Poller
<1>7. /\ Target' = Target /\ Cursor'.since = Cursor.since /\ Handling' /\ Next1' = Next1
      /\ Bound' = Bound /\ poller.todo # <<>>
  BY <1>1, <1>2, <1>5, <1>6, CursorFacts DEF Target, Cursor, Handling, Next1, Bound, Types
<1>8. new \in Call /\ new.heard /\ new.rev = Next1 /\ new.phase = "arrived"
  BY <1>3 DEF Call, Stamp
<1>9. \A q \in calls : ~q.heard BY <1>1, NobodyListens
<1> HIDE DEF new
<1>10. Types' BY <1>1, <1>5, <1>6, <1>8 DEF Types
<1>11. Scores' = Scores /\ \A rev : /\ Settled(mem, rev)' = Settled(mem, rev)
                                    /\ Settled(durable, rev)' = Settled(durable, rev)
                                    /\ Consumed(durable, rev)' = Consumed(durable, rev)
  BY <1>1, <1>5 DEF Scores, Posted, Rev, Settled, Predates, Recorded, Refused, Consumed
<1>12. Timely'
  <2>1. \A r \in Repos : \A i \in DOMAIN mem'.repos[r].seen :
           LET key == mem'.repos[r].seen[i] IN key[2] <= comment[key[1]].at
    <3> SUFFICES ASSUME NEW r \in Repos, NEW i \in DOMAIN mem'.repos[r].seen
                 PROVE  LET key == mem'.repos[r].seen[i] IN key[2] <= comment[key[1]].at
      OBVIOUS
    <3>1. \A j \in DOMAIN mem.repos[r].seen :
             LET key == mem.repos[r].seen[j] IN key[2] <= comment[key[1]].at
      BY DEF Timely
    <3>2. mem.repos[r].seen \in Seq(Comments \X Instant) BY <1>2 DEF PollState, Cursors
    <3>3. CASE Contains(mem.repos[r].seen, mem'.repos[r].seen[i])
      <4>1. \E j \in DOMAIN mem.repos[r].seen : mem.repos[r].seen[j] = mem'.repos[r].seen[i]
        BY <3>2, <3>3 DEF Contains
      <4>2. QED BY <3>1, <4>1
    <3>4. CASE mem'.repos[r].seen[i] = SeenKey(Next1)
      BY <1>1, <1>2, <3>4, Next1Facts DEF Known, SeenKey
    <3>5. CASE r # Target BY <1>5, <3>1, <3>5
    <3>6. QED BY <1>5, <3>3, <3>4, <3>5
  <2>2. \A r \in Repos : mem'.repos[r].since <= GitHubNow /\ durable.repos[r].since <= GitHubNow
    BY <1>5 DEF Timely
  <2>3. QED BY <1>1, <1>4, <1>6, <2>1, <2>2 DEF Timely
<1>13. PageInOrder' BY <1>1, <1>2, <1>6, <1>7 DEF PageInOrder, Known
<1>14. OneCall'
  <2>1. \E q \in calls' : q.heard BY <1>1, <1>8
  <2>2. \A q \in calls' : q.heard => q = new BY <1>1, <1>9
  <2>3. QED BY <1>6, <1>7, <1>8, <2>1, <2>2 DEF OneCall
<1>15. OnTime' BY <1>1, <1>4, <1>8 DEF OnTime, NoSolveFromTheFuture
<1>16. ScannedIsSettled'
  BY <1>2, <1>6, <1>7, <1>11 DEF ScannedIsSettled
<1>17. NoScoreLost'
  <2> SUFFICES ASSUME NEW rev \in Scores, Consumed(mem, rev)'
               PROVE  Settled(mem, rev) \/ BeingSubmitted(rev)'
    BY <1>11 DEF NoScoreLost
  <2>1. RepoOf[rev.id] \in Repos BY ScoreFacts
  <2>2. CASE Consumed(mem, rev) BY <1>1, <2>2, NobodyListens DEF Sound
  <2>3. CASE ~Consumed(mem, rev)
    <3>1. Contains(mem'.repos[RepoOf[rev.id]].seen, SeenKey(rev)) BY <1>5, <2>1, <2>3 DEF Consumed
    <3>2. mem'.repos[RepoOf[rev.id]].seen \in Seq(Comments \X Instant)
      BY <1>5, <2>1 DEF PollState, Cursors
    <3>3. SeenKey(rev) = SeenKey(Next1)
      <4>1. PICK i \in DOMAIN mem'.repos[RepoOf[rev.id]].seen :
               mem'.repos[RepoOf[rev.id]].seen[i] = SeenKey(rev)
        BY <3>1, <3>2 DEF Contains
      <4>2. ~Contains(mem.repos[RepoOf[rev.id]].seen, SeenKey(rev)) BY <2>3 DEF Consumed
      <4>3. RepoOf[rev.id] = Target BY <1>5, <2>1, <3>1, <4>2
      <4>4. QED BY <1>5, <4>1, <4>2, <4>3
    <3>4. rev = Next1 BY <1>1, <1>2, <3>3, Next1Facts
    <3>5. QED BY <1>1, <1>8, <3>4 DEF BeingSubmitted
  <2>4. QED BY <2>2, <2>3
<1>18. CrashLosesNoScore' BY <1>11 DEF CrashLosesNoScore
<1>19. QED BY <1>4, <1>10, <1>12, <1>13, <1>14, <1>15, <1>16, <1>17, <1>18

\* Without the one request that is heard, what the scorer still does.
LEMMA OthersUnheard ==
    ASSUME DeliveryInv, NEW q \in calls, q.heard
    PROVE  /\ calls \ {q} \in SUBSET Call
           /\ \A p \in calls \ {q} : /\ ~p.heard
                                     /\ p.phase = "writing" => p.iso \in Instant /\ p.iso <= now + MaxFutureSkew
BY DEF DeliveryInv, OneCall, Types, OnTime

\* The poller's state with the marks of a cursor replaced, and with a cursor saved.
Remarked(st, t, marks, m) ==
    marks \in Seq(Comments \X Instant) /\ m = [st EXCEPT !.repos[t].seen = marks]
Saved(st, t, b, e, m) == m = [st EXCEPT !.repos[t].since = b, !.repos[t].etag = e]

\* A cursor whose marks are replaced keeps everything else the poller has.
LEMMA SeenReplaced ==
    ASSUME NEW st \in PollState, NEW t \in Repos, NEW marks, NEW m, Remarked(st, t, marks, m)
    PROVE  /\ m \in PollState /\ m.resetAt = st.resetAt /\ m.dropped = st.dropped
           /\ m.repos[t].seen = marks
           /\ \A x \in Repos : /\ m.repos[x].since = st.repos[x].since
                               /\ x # t => m.repos[x].seen = st.repos[x].seen
<1> DEFINE old == st.repos[t]
           new == [old EXCEPT !.seen = marks]
           repos == [st.repos EXCEPT ![t] = new]
<1>1. st.repos \in [Repos -> Cursors] BY DEF PollState
<1>2. old \in Cursors BY <1>1
<1>3. new \in Cursors /\ new.seen = marks /\ new.since = old.since
  BY <1>2, ZenonT(30) DEF Cursors, Remarked
<1> HIDE DEF new
<1>4. repos \in [Repos -> Cursors] /\ repos[t] = new
  BY <1>1, <1>3
<1>5. \A x \in Repos : x # t => repos[x] = st.repos[x] BY <1>1
<1>6. m = [st EXCEPT !.repos = repos] BY DEF new, Remarked
<1> HIDE DEF repos
<1>7. m.repos = repos /\ m.resetAt = st.resetAt /\ m.dropped = st.dropped
  BY <1>6, ZenonT(30) DEF PollState
<1>8. m \in PollState BY <1>4, <1>6, ZenonT(30) DEF PollState
<1>9. QED BY <1>3, <1>4, <1>5, <1>7, <1>8

\* A saved cursor keeps its marks, and everything else the poller has.
LEMMA CursorSaved ==
    ASSUME NEW st \in PollState, NEW t \in Repos, NEW b \in Stamp, NEW e \in SUBSET Seq(Revision),
           NEW m, Saved(st, t, b, e, m)
    PROVE  /\ m \in PollState /\ m.resetAt = st.resetAt /\ m.dropped = st.dropped
           /\ m.repos[t].since = b
           /\ \A x \in Repos : /\ m.repos[x].seen = st.repos[x].seen
                               /\ x # t => m.repos[x].since = st.repos[x].since
<1> DEFINE old == st.repos[t]
           new == [old EXCEPT !.since = b, !.etag = e]
           repos == [st.repos EXCEPT ![t] = new]
<1>1. st.repos \in [Repos -> Cursors] BY DEF PollState
<1>2. old \in Cursors BY <1>1
<1>3. new \in Cursors /\ new.since = b /\ new.seen = old.seen
  BY <1>2, ZenonT(30) DEF Cursors
<1> HIDE DEF new
<1>4. repos \in [Repos -> Cursors] /\ repos[t] = new
  BY <1>1, <1>3
<1>5. \A x \in Repos : x # t => repos[x] = st.repos[x] BY <1>1
<1>6. m = [st EXCEPT !.repos = repos]
  <2>1. m.repos = repos BY <1>1, <1>2 DEF new, PollState, Cursors, Saved
  <2>2. QED BY <2>1 DEF Saved, PollState
<1> HIDE DEF repos
<1>7. m.repos = repos /\ m.resetAt = st.resetAt /\ m.dropped = st.dropped
  BY <1>6, ZenonT(30) DEF PollState
<1>8. m \in PollState BY <1>4, <1>6, ZenonT(30) DEF PollState
<1>9. QED BY <1>3, <1>4, <1>5, <1>7, <1>8

\* A revision to try again is forgotten, and nothing else is.
LEMMA RetryLaterInv ==
    ASSUME DeliveryInv, Handling, poller.page # <<>>, RetryLater,
           UNCHANGED <<adminVars, comment, durable, solves, refused, wipedAt>>,
           calls' \in SUBSET Call,
           \A q \in calls' : /\ ~q.heard
                             /\ q.phase = "writing" => q.iso \in Instant /\ q.iso <= now + MaxFutureSkew
    PROVE  DeliveryInv'
<1>1. PICK unmarked \in Filtered(Cursor.seen, ToSet(Cursor.seen) \ {SeenKey(Next1)}) :
         mem' = [mem EXCEPT !.repos[Target].seen = unmarked]
  BY DEF RetryLater, Target
<1>2. /\ Target \in Repos /\ mem \in PollState /\ Cursor = mem.repos[Target]
      /\ Cursor.seen \in Seq(Comments \X Instant)
  BY CursorFacts DEF DeliveryInv, Handling, Types
<1>3. /\ unmarked \in Seq(Comments \X Instant)
      /\ \A i \in DOMAIN unmarked : /\ unmarked[i] \in ToSet(Cursor.seen) \ {SeenKey(Next1)}
                                    /\ Contains(Cursor.seen, unmarked[i])
  BY <1>2, FilteredFacts
<1>4. /\ mem' \in PollState /\ mem'.resetAt = mem.resetAt
      /\ mem'.repos[Target].seen = unmarked
      /\ \A r \in Repos : /\ mem'.repos[r].since = mem.repos[r].since
                          /\ r # Target => mem'.repos[r].seen = mem.repos[r].seen
  <2>1. Remarked(mem, Target, unmarked, mem') BY <1>1, <1>3 DEF Remarked
  <2>2. mem \in PollState /\ Target \in Repos BY <1>2
  <2>3. QED BY <2>1, <2>2, SeenReplaced
<1>5. \A r \in Repos :
         /\ mem'.repos[r].since = mem.repos[r].since
         /\ \A i \in DOMAIN mem'.repos[r].seen :
               \/ Contains(mem.repos[r].seen, mem'.repos[r].seen[i])
               \/ r = Target /\ mem'.repos[r].seen[i] = SeenKey(Next1)
  <2>1. \A r \in Repos : mem.repos[r].seen \in Seq(Comments \X Instant)
    BY <1>2 DEF PollState, Cursors
  <2>2. \A r \in Repos : \A i \in DOMAIN mem.repos[r].seen :
           Contains(mem.repos[r].seen, mem.repos[r].seen[i])
    BY <2>1 DEF Contains
  <2>3. QED BY <1>2, <1>3, <1>4, <2>2
<1>6. ~Contains(mem'.repos[Target].seen, SeenKey(Next1)) BY <1>3, <1>4 DEF Contains
<1> DEFINE stopAt == IF poller.stopAt = NoTime THEN Next1.at ELSE poller.stopAt
<1>7. poller' = [PageGoesOn EXCEPT !.stopAt = stopAt]
  <2>1. PageGoesOn.stopAt = poller.stopAt BY DEF DeliveryInv, PageGoesOn, Types, Poller
  <2>2. QED BY <2>1 DEF DeliveryInv, RetryLater, PageGoesOn, Types, Poller
<1>8. stopAt \in Stamp BY Next1Facts DEF DeliveryInv, Types, Poller, Stamp, Instant
<1>9. QED BY <1>4, <1>5, <1>6, <1>7, <1>8, PageGoesOnInv

LEMMA HearInv ==
    ASSUME DeliveryInv, NEW q \in calls, Hear(q)
    PROVE  DeliveryInv'
<1>1. /\ UNCHANGED <<adminVars, comment, durable, solves, refused, wipedAt>>
      /\ poller.pc = "await" /\ q.heard
      /\ q.phase \in {"accepted", "refused", "rejected", "error"}
      /\ calls' = calls \ {q}
  BY DEF Hear, PollerAt
<1>2. Handling /\ poller.page # <<>> /\ poller \in Poller /\ mem \in PollState
  BY <1>1 DEF Handling, DeliveryInv, Types
<1>3. /\ calls' \in SUBSET Call
      /\ \A p \in calls' : /\ ~p.heard
                           /\ p.phase = "writing" => p.iso \in Instant /\ p.iso <= now + MaxFutureSkew
  BY <1>1, OthersUnheard
<1>4. CASE q.phase = "error"
  BY <1>1, <1>2, <1>3, <1>4, RetryLaterInv DEF Hear
<1>5. CASE q.phase # "error"
  <2>1. mem' = Verdict(mem, q.phase) /\ poller' = PageGoesOn BY <1>5 DEF Hear
  <2>2. mem' \in PollState /\ mem'.resetAt = mem.resetAt /\ mem'.repos = mem.repos
    BY <1>1, <1>2, <1>5, <2>1 DEF Verdict, Drop, PollState
  <2>3. \A r \in Repos :
           /\ mem'.repos[r].since = mem.repos[r].since
           /\ \A i \in DOMAIN mem'.repos[r].seen : Contains(mem.repos[r].seen, mem'.repos[r].seen[i])
    <3>1. \A r \in Repos : mem.repos[r].seen \in Seq(Comments \X Instant)
      BY <1>2 DEF PollState, Cursors
    <3>2. \A r \in Repos : \A i \in DOMAIN mem.repos[r].seen :
             Contains(mem.repos[r].seen, mem.repos[r].seen[i])
      BY <3>1 DEF Contains
    <3>3. mem'.repos = mem.repos BY <2>2
    <3>4. QED BY <3>2, <3>3
  <2>4. Next1 \in Scores => Settled(mem, Next1)
    <3>1. SUFFICES ASSUME Next1 \in Scores PROVE Settled(mem, Next1)
      OBVIOUS
    <3>2. Next1.body.kind = "score" BY <3>1, ScoreFacts DEF DeliveryInv
    <3>3. Recorded(Next1) \/ Wiped(Next1) \/ Refused(Next1)
      BY <1>1, <1>5, <3>2 DEF DeliveryInv, OneCall
    <3>4. QED BY <3>3, SettledByParts
  <2>5. poller' = [PageGoesOn EXCEPT !.stopAt = poller.stopAt] /\ poller.stopAt \in Stamp
    BY <1>2, <2>1 DEF PageGoesOn, Poller
  <2>6. QED BY <1>1, <1>2, <1>3, <2>2, <2>3, <2>4, <2>5, PageGoesOnInv
<1>6. QED BY <1>4, <1>5

LEMMA LoseAnswerInv ==
    ASSUME DeliveryInv, NEW q \in calls, LoseAnswer(q)
    PROVE  DeliveryInv'
<1>1. /\ UNCHANGED <<adminVars, comment, durable, solves, refused, wipedAt>>
      /\ poller.pc = "await" /\ q.heard /\ RetryLater
      /\ calls' = (calls \ {q}) \union GoesOn({q})
  BY DEF LoseAnswer, PollerAt
<1>2. Handling /\ poller.page # <<>> BY <1>1 DEF Handling, DeliveryInv, Types
<1>3. /\ calls' \in SUBSET Call
      /\ \A p \in calls' : /\ ~p.heard
                           /\ p.phase = "writing" => p.iso \in Instant /\ p.iso <= now + MaxFutureSkew
  BY <1>1, OthersUnheard, GoesOnFacts
<1>4. QED BY <1>1, <1>2, <1>3, RetryLaterInv

\* The cursor moves to the end of the page, or to its first failure: all that
\* it leaves behind is settled.
LEMMA FinishPageInv == ASSUME DeliveryInv, FinishPage PROVE DeliveryInv'
<1> USE DEF DeliveryInv
<1>1. /\ UNCHANGED <<adminVars, comment, durable, calls, solves, refused, wipedAt>>
      /\ poller.pc = "handle" /\ poller.page = <<>> /\ poller' = NextTarget
      /\ mem' = [mem EXCEPT
            !.repos[Target].since = Bound,
            !.repos[Target].etag  = IF poller.stopAt # NoTime THEN {} ELSE poller.etag]
  BY DEF FinishPage, PollerOnly, PollerAt, Target, Bound
<1>2. Handling /\ poller \in Poller /\ mem \in PollState /\ Target \in Repos
  BY <1>1, CursorFacts DEF Handling, Types
<1>3. Bound \in Stamp /\ Bound <= GitHubNow BY <1>2 DEF Bound, Poller, Timely
<1>4. /\ mem' \in PollState /\ mem'.resetAt = mem.resetAt
      /\ mem'.repos[Target].since = Bound
      /\ \A r \in Repos : /\ mem'.repos[r].seen = mem.repos[r].seen
                          /\ r # Target => mem'.repos[r].since = mem.repos[r].since
  <2>1. (IF poller.stopAt # NoTime THEN {} ELSE poller.etag) \in SUBSET Seq(Revision)
    BY <1>2 DEF Poller
  <2> DEFINE e == IF poller.stopAt # NoTime THEN {} ELSE poller.etag
  <2>2. Saved(mem, Target, Bound, e, mem') BY <1>1 DEF Saved
  <2> HIDE DEF e
  <2>3. e \in SUBSET Seq(Revision) BY <2>1 DEF e
  <2>4. QED BY <1>2, <1>3, <2>2, <2>3, CursorSaved
<1>5. Sound(mem) BY <1>1, NobodyListens
<1>6. Sound(mem')
  <2>1. \A r \in Repos : mem'.repos[r].since <= GitHubNow BY <1>3, <1>4, <1>5 DEF Sound
  <2>2. \A r \in Repos : \A i \in DOMAIN mem'.repos[r].seen :
           LET key == mem'.repos[r].seen[i] IN key[2] <= comment[key[1]].at
    BY <1>4, <1>5 DEF Sound
  <2>3. ASSUME NEW rev \in Scores, Consumed(mem', rev) PROVE Settled(mem', rev)
    <3>1. RepoOf[rev.id] \in Repos BY ScoreFacts
    <3>2. Settled(mem', rev) <=> Settled(mem, rev) BY <1>4 DEF Settled, Predates
    <3>3. CASE Consumed(mem, rev) BY <1>5, <3>2, <3>3 DEF Sound
    <3>4. CASE ~Consumed(mem, rev)
      <4>1. RepoOf[rev.id] = Target /\ rev.at < Bound
        BY <1>4, <2>3, <3>1, <3>4 DEF Consumed
      <4>2. ~Contains(poller.page, rev) BY <1>1 DEF Contains
      <4>3. QED BY <1>2, <3>2, <4>1, <4>2 DEF ScannedIsSettled
    <3>5. QED BY <3>3, <3>4
  <2>4. QED BY <1>4, <2>1, <2>2, <2>3 DEF Sound
<1>7. Sound(mem)' BY <1>1, <1>6, SoundStays
<1>8. /\ poller' \in Poller /\ poller'.pc \notin {"handle", "await"}
      /\ poller'.pc = "poll" => poller'.todo # <<>>
      /\ poller'.next = NoTime /\ poller'.stopAt = NoTime
  BY <1>1, RestingPlaces
<1>9. QED BY <1>1, <1>7, <1>8, CallsAtRest, RestStep

(***************************************************************************)
(* The specification.                                                       *)
(***************************************************************************)
LEMMA InitInv == Init => DeliveryInv
<1> SUFFICES ASSUME Init PROVE DeliveryInv
  OBVIOUS
<1> USE DEF Init
<1>1. AdminInv BY AdminInitInv
<1>2. GitHubNow \in Nat /\ now \in Instant BY <1>1, GitHubClock DEF AdminInv, AdminTypeOK
<1>3. /\ FreshState \in PollState
      /\ \A r \in Repos : FreshState.repos[r].since = NoTime /\ FreshState.repos[r].seen = <<>>
  BY FreshStateType
<1>4. Types
  <2>1. NoBody \in Body /\ NoTime \in Stamp BY DEF NoBody, Body, Stamp
  <2>2. comment \in [Comments -> [at : Stamp, body : Body]] BY <2>1
  <2>3. poller \in Poller /\ poller.pc = "down" BY DEF AtRest, Poller, Stamp
  <2>4. solves \in [Solvable -> Stamp] BY <2>1 DEF NoSolves
  <2>5. QED BY <1>3, <2>1, <2>2, <2>3, <2>4 DEF Types
<1>5. Timely
  <2>1. NoTime <= GitHubNow /\ NoTime <= now BY <1>2 DEF NoTime, Instant
  <2>2. \A c \in Comments : comment[c].at = NoTime OBVIOUS
  <2>3. poller.next = NoTime /\ poller.stopAt = NoTime BY DEF AtRest
  <2>4. \A i \in DOMAIN <<>> : FALSE OBVIOUS
  <2>5. QED BY <1>3, <2>1, <2>2, <2>3, <2>4 DEF Timely
<1>6. Scores = {} BY PipelineAssumption DEF Scores, Posted
<1>7. PageInOrder /\ ScannedIsSettled BY DEF PageInOrder, ScannedIsSettled, Handling, AtRest
<1>8. OneCall BY DEF OneCall, AtRest
<1>9. OnTime
  <2>1. NoTime <= now + MaxFutureSkew BY <1>2, PipelineAssumption DEF NoTime, Instant
  <2>2. QED BY <2>1 DEF OnTime, NoSolveFromTheFuture, NoSolves
<1>10. NoScoreLost /\ CrashLosesNoScore BY <1>6 DEF NoScoreLost, CrashLosesNoScore
<1>11. QED BY <1>1, <1>4, <1>5, <1>7, <1>8, <1>9, <1>10 DEF DeliveryInv

LEMMA PollerStepInv == ASSUME DeliveryInv, PollerStep PROVE DeliveryInv'
<1>1. CASE Boot BY <1>1, BootInv
<1>2. CASE \E l \in TargetLists : StartTick(l) BY <1>2, StartTickInv
<1>3. CASE TargetsUnreadable BY <1>3, TargetsUnreadableInv
<1>4. CASE Fetch BY <1>4, FetchInv
<1>5. CASE FetchFails BY <1>5, FetchFailsInv
<1>6. CASE SkipComment BY <1>6, SkipCommentInv
<1>7. CASE Submit BY <1>7, SubmitInv
<1>8. CASE \E q \in calls : Hear(q) \/ LoseAnswer(q) BY <1>8, HearInv, LoseAnswerInv
<1>9. CASE FinishPage BY <1>9, FinishPageInv
<1>10. CASE Save BY <1>10, SaveInv
<1>11. QED
  BY <1>1, <1>2, <1>3, <1>4, <1>5, <1>6, <1>7, <1>8, <1>9, <1>10 DEF PollerStep

LEMMA StutterInv == ASSUME DeliveryInv, UNCHANGED vars PROVE DeliveryInv'
<1>1. /\ UNCHANGED <<adminVars, comment, mem, durable, poller, calls, solves, refused, wipedAt>>
  BY DEF vars, pipelineVars
<1>2. /\ AdminInv' /\ now' = now /\ GitHubNow' = GitHubNow /\ GitHubNow \in Nat
  BY <1>1, AdminStays
<1>3. SettledKept BY <1>1, AddingKeeps DEF DeliveryInv
<1>4. OneCall' /\ \A rev : BeingSubmitted(rev) => BeingSubmitted(rev)' BY <1>1, <1>3, CallsStay
<1>5. Types' BY <1>1 DEF DeliveryInv, Types
<1>6. OnTime' BY <1>1, <1>2 DEF DeliveryInv, OnTime, NoSolveFromTheFuture
<1>7. wipedAt' <= now' BY <1>1, <1>2 DEF DeliveryInv, Timely
<1>8. GitHubNow' \in Nat /\ GitHubNow <= GitHubNow' BY <1>2
<1>9. QED BY <1>1, <1>2, <1>3, <1>4, <1>5, <1>6, <1>7, <1>8, OutsideStep

LEMMA NextInv == DeliveryInv /\ [Next]_vars => DeliveryInv'
<1> SUFFICES ASSUME DeliveryInv, [Next]_vars PROVE DeliveryInv'
  OBVIOUS
<1>1. CASE \E c \in Comments, b \in Bodies : Upsert(c, b) BY <1>1, UpsertInv
<1>2. CASE PollerStep BY <1>2, PollerStepInv
<1>3. CASE PollerCrash BY <1>3, PollerCrashInv
<1>4. CASE ScorerStep BY <1>4, JudgeInv, RecordSolvesInv DEF ScorerStep
<1>5. CASE ScorerCrash BY <1>5, ScorerCrashInv
<1>6. CASE \E a \in Admins : OrganizerStep(a) BY <1>6, OrganizerStepInv
<1>7. CASE TimePasses BY <1>7, TimePassesInv
<1>8. CASE UNCHANGED vars BY <1>8, StutterInv
<1>9. QED BY <1>1, <1>2, <1>3, <1>4, <1>5, <1>6, <1>7, <1>8 DEF Next

\* No score is lost, with the invariant that carries it: whatever is between
\* GitHub and the board, a page cut short, an answer lost, a request that
\* outlives its caller, is accounted for.
THEOREM DeliveryIsInvariant == Spec => []DeliveryInv
<1>1. Init => DeliveryInv BY InitInv
<1>2. DeliveryInv /\ [Next]_vars => DeliveryInv' BY NextInv
<1>3. QED BY <1>1, <1>2, PTL DEF Spec

\* A score comment the poller has consumed is on the board, refused for good,
\* wiped, or being submitted, for any page size, dedupe cap, faults and
\* crashes of either process.
THEOREM ConsumedScoresAreDelivered == Spec => []NoScoreLost
<1>1. DeliveryInv => NoScoreLost BY DEF DeliveryInv
<1>2. QED BY <1>1, DeliveryIsInvariant, PTL

\* The same of the saved state a restart resumes from.
THEOREM RestartLosesNoScore == Spec => []CrashLosesNoScore
<1>1. DeliveryInv => CrashLosesNoScore BY DEF DeliveryInv
<1>2. QED BY <1>1, DeliveryIsInvariant, PTL

\* No solve is timed further ahead of the scorer's clock than it allows.
THEOREM SolvesAreNotFromTheFuture == Spec => []NoSolveFromTheFuture
<1>1. DeliveryInv => NoSolveFromTheFuture BY DEF DeliveryInv, OnTime
<1>2. QED BY <1>1, DeliveryIsInvariant, PTL

(***************************************************************************)
(* First write wins.                                                        *)
(***************************************************************************)
LEMMA SolvesKeptOutside ==
    ASSUME [Next]_vars, ~ScorerStep, \A a \in Admins : ~OrganizerStep(a)
    PROVE  solves' = solves
BY DEF Next, vars, pipelineVars, Upsert, PollerStep, Boot, StartTick, TargetsUnreadable, Fetch,
       FetchFails, SkipComment, Submit, Hear, LoseAnswer, FinishPage, Save, PollerOnly,
       PollerCrash, ScorerCrash, TimePasses

\* A solve keeps its first time through every replay, retry and lost answer;
\* only the wipe of a reset takes it away.
THEOREM FirstWriteIsKept == Spec => FirstWriteWins
<1> DEFINE Kept == \A k \in Solvable :
                      solves[k] # NoTime /\ solves'[k] # solves[k]
                        => \E a \in Admins : request[a].op = "wipe"
<1>1. ASSUME DeliveryInv, [Next]_vars PROVE Kept
  <2>1. CASE ScorerStep
    <3>1. PICK q \in calls : Judge(q) \/ RecordSolves(q) BY <2>1 DEF ScorerStep
    <3>2. CASE Judge(q) BY <3>2 DEF Judge
    <3>3. CASE RecordSolves(q)
      <4>1. PICK keys \in SUBSET Keys(q.rev) : solves' = SetNX(keys, q.iso)
        BY <3>3 DEF RecordSolves, Write
      <4>2. q.iso \in Stamp /\ keys \in SUBSET Solvable
        BY <1>1, <4>1, KeysFacts DEF DeliveryInv, Types, Call
      <4>3. QED BY <1>1, <4>1, <4>2, SetNXFacts DEF DeliveryInv
    <3>4. QED BY <3>1, <3>2, <3>3
  <2>2. CASE \E a \in Admins : OrganizerStep(a)
    BY <2>2 DEF OrganizerStep
  <2>3. CASE ~ScorerStep /\ \A a \in Admins : ~OrganizerStep(a)
    BY <1>1, <2>3, SolvesKeptOutside
  <2>4. QED BY <2>1, <2>2, <2>3
<1>2. DeliveryInv /\ [Next]_vars => [Kept]_vars BY <1>1
<1> HIDE DEF Kept
<1>3. Spec => [][Kept]_vars BY <1>2, DeliveryIsInvariant, PTL DEF Spec
<1>4. QED BY <1>3 DEF FirstWriteWins, Kept

(***************************************************************************)
(* The freeze.  A score is judged by the settings at the time it carries,    *)
(* and that time is past, or the present instant: whatever organizers do     *)
(* next, it never becomes a time of a freeze, nor one of an open event, it   *)
(* was judged not to be.                                                     *)
(***************************************************************************)
NeverFrozen(t) == t \notin frozenAt /\ (t < now \/ (t = now /\ steady # "frozen"))
NeverOpen(t)   == t \notin openAt /\ (t < now \/ (t = now /\ steady # "open"))

\* A request is about a comment GitHub has already timed.
CallsArePast == \A q \in calls : q.rev.at \in Nat /\ q.rev.at <= now + GitHubSkew

FreezeHonoured == ~logFull =>
    /\ Len(settings.pauses) < PauseLogCap
    /\ \A q \in calls : q.phase = "writing" /\ ~q.blind => NeverFrozen(q.iso)
    /\ \A k \in Solvable \ blind : NeverFrozen(solves[k])

OpenHonoured == \A r \in refused : r.why = "paused" => NeverOpen(r.key[2])

LEMMA HistoryStep ==
    ASSUME AdminInv, [AdminNext]_adminVars, NEW t \in Stamp
    PROVE  /\ NeverFrozen(t) => NeverFrozen(t)'
           /\ NeverOpen(t) => NeverOpen(t)'
<1>1. now \in Instant BY DEF AdminInv, AdminTypeOK
<1>2. CASE Tick
  BY <1>1, <1>2 DEF Tick, NeverFrozen, NeverOpen, Stamp, Instant, NoTime
<1>3. ASSUME NEW a \in Admins, AdminStep(a)
      PROVE  /\ now' = now /\ frozenAt' \subseteq frozenAt /\ openAt' \subseteq openAt
             /\ steady' \in {steady, "mixed"}
  BY <1>3 DEF AdminStep, SendUpdate, LandUpdate, SendReset, WipeEvent, StampReset, LandReset, LoseWrite
<1>4. CASE \E a \in Admins : AdminStep(a) BY <1>3, <1>4 DEF NeverFrozen, NeverOpen
<1>5. CASE UNCHANGED adminVars BY <1>5 DEF adminVars, NeverFrozen, NeverOpen
<1>6. QED BY <1>2, <1>4, <1>5 DEF AdminNext

\* What the scorer is told of a past or present instant stays true of it.
LEMMA JudgementStands ==
    ASSUME AdminInv, NEW t \in Instant, t <= now
    PROVE  /\ ~PausedAt(t, settings) /\ Len(settings.pauses) < PauseLogCap => NeverFrozen(t)
           /\ PausedAt(t, settings) => NeverOpen(t)
<1> USE DEF AdminInv
<1>1. now \in Nat /\ settings \in Policy BY DEF AdminTypeOK, Instant
<1>2. ASSUME ~PausedAt(t, settings), Len(settings.pauses) < PauseLogCap
      PROVE  NeverFrozen(t)
  <2>1. t \notin frozenAt
    BY <1>1, <1>2 DEF FreezeKept, Remembered, PausedAt, InOpenFreeze, Policy, Stamp, Instant, NoTime
  <2>2. t = now => steady # "frozen"
    BY <1>1, <1>2 DEF SteadyIsTrue, PastOnly, PausedAt, InOpenFreeze, Policy, Stamp, Instant, NoTime
  <2>3. QED BY <1>1, <2>1, <2>2 DEF NeverFrozen, Instant
<1>3. ASSUME PausedAt(t, settings) PROVE NeverOpen(t)
  <2>1. t \notin openAt BY <1>3 DEF OpenIsRemembered
  <2>2. t = now => steady # "open"
    <3>1. SUFFICES ASSUME t = now, steady = "open" PROVE FALSE
      OBVIOUS
    <3>2. InLoggedFreeze(t, settings) BY <1>3, <3>1 DEF SteadyIsTrue, PausedAt, InOpenFreeze
    <3>3. PICK i \in DOMAIN settings.pauses : t < settings.pauses[i].to
      BY <3>2 DEF InLoggedFreeze
    <3>4. settings.pauses[i].to \in Nat /\ settings.pauses[i].to <= now
      BY <1>1, PausesAreStamped DEF PastOnly, Instant
    <3>5. QED BY <1>1, <3>1, <3>3, <3>4
  <2>3. QED BY <1>1, <2>1, <2>2 DEF NeverOpen, Instant
<1>4. QED BY <1>2, <1>3

\* The pause log never grows beyond its cap.
LEMMA LogWithinCap ==
    ASSUME AdminInv, NEW a \in Admins, AdminStep(a), Len(settings.pauses) <= PauseLogCap
    PROVE  Len(settings'.pauses) <= PauseLogCap
<1>1. settings \in Policy /\ \A b \in Admins : request[b] \in Request
  BY DEF AdminInv, AdminTypeOK
<1>2. CASE settings' = settings BY <1>2
<1>3. CASE \E at \in Instant : settings' = ResetScript(at, settings)
  BY <1>3, AdminAssumption DEF ResetScript
<1>4. ASSUME NEW at \in Instant, NEW p \in Patch, settings' = UpdateScript(p, at, settings)
      PROVE  Len(settings'.pauses) <= PauseLogCap
  <2>1. settings'.pauses = settings.pauses \/ settings'.pauses = LoggedFreeze(settings, at)
    BY <1>4 DEF UpdateScript
  <2>2. settings.pausedSince # NoTime => Len(LoggedFreeze(settings, at)) <= PauseLogCap
    <3>1. SUFFICES ASSUME settings.pausedSince # NoTime
                   PROVE  Len(LoggedFreeze(settings, at)) <= PauseLogCap
      OBVIOUS
    <3>2. [from |-> settings.pausedSince, to |-> at] \in Interval /\ settings.pauses \in Seq(Interval)
      BY <1>1, <3>1 DEF Interval, Policy, Stamp
    <3>3. <<[from |-> settings.pausedSince, to |-> at]>> \o settings.pauses \in Seq(Interval)
      BY <3>2
    <3>4. PauseLogCap \in Nat BY AdminAssumption
    <3>5. QED BY <3>1, <3>3, <3>4, LTrimFacts DEF LoggedFreeze
  <2>3. settings.pausedSince = NoTime => LoggedFreeze(settings, at) = settings.pauses
    BY DEF LoggedFreeze
  <2>4. QED BY <2>1, <2>2, <2>3
<1>5. settings' = settings \/ \E at \in Instant :
        settings' = ResetScript(at, settings) \/ \E p \in Patch : settings' = UpdateScript(p, at, settings)
  <2>1. \A b \in Admins : request[b].patch \in Patch BY <1>1 DEF Request
  <2>2. \A b \in Admins : request[b].op \in {"update", "reset"} => request[b].at \in Instant
    BY DEF AdminInv, RequestsStamped
  <2>3. QED
    BY <2>1, <2>2 DEF AdminStep, SendUpdate, LandUpdate, SendReset, WipeEvent, StampReset, LandReset, LoseWrite
<1>6. QED BY <1>2, <1>3, <1>4, <1>5

LEMMA AdminKept ==
    ASSUME [Next]_vars
    PROVE  [AdminNext]_adminVars
<1>1. CASE \E a \in Admins : OrganizerStep(a) BY <1>1 DEF OrganizerStep, AdminNext
<1>2. CASE TimePasses BY <1>2 DEF TimePasses, AdminNext
<1>3. CASE UNCHANGED adminVars BY <1>3
<1>4. (\E a \in Admins : OrganizerStep(a)) \/ TimePasses \/ UNCHANGED adminVars
  BY DEF Next, vars, Upsert, PollerStep, Boot, StartTick, TargetsUnreadable, Fetch,
         FetchFails, SkipComment, Submit, Hear, LoseAnswer, FinishPage, Save, PollerOnly,
         PollerCrash, ScorerStep, Judge, RecordSolves, ScorerOnly, ScorerCrash
<1>5. QED BY <1>1, <1>2, <1>3, <1>4

\* Where the requests after a step come from.
LEMMA JudgedRequests ==
    ASSUME DeliveryInv, NEW q \in calls, Judge(q), NEW p \in calls'
    PROVE  LET t == ScoreTime(q.rev.at, now, MaxFutureSkew)
           IN  \/ p \in calls
               \/ /\ p.rev = q.rev /\ p.heard = q.heard
                  /\ \/ p.phase = "rejected" /\ q.rev.body.kind = "foreign"
                     \/ p.phase = "error"
                     \/ p.phase = "refused" /\ q.rev.body.kind # "foreign"
                     \/ /\ p.phase = "writing" /\ q.rev.body.kind # "foreign" /\ p.iso = t
                        /\ p.blind \/ JudgeScoreTime(t, settings) = "record"
<1> DEFINE t == ScoreTime(q.rev.at, now, MaxFutureSkew)
           Answered(phase) == [q EXCEPT !.phase = phase]
           Writing(b) == [q EXCEPT !.phase = "writing", !.iso = t, !.blind = b]
<1>1. q \in Call BY DEF DeliveryInv, Types
<1>2. \A phase : Answered(phase).phase = phase /\ Answered(phase).rev = q.rev /\ Answered(phase).heard = q.heard
  BY <1>1 DEF Call
<1>3. \A b : /\ Writing(b).phase = "writing" /\ Writing(b).iso = t /\ Writing(b).blind = b
             /\ Writing(b).rev = q.rev /\ Writing(b).heard = q.heard
  BY <1>1 DEF Call
<1>4. \/ q.rev.body.kind = "foreign" /\ Answer(q, "rejected")
      \/ /\ calls' = (calls \ {q}) \union {Writing(FALSE)} /\ q.rev.body.kind # "foreign"
         /\ JudgeScoreTime(t, settings) = "record"
      \/ calls' = (calls \ {q}) \union {Writing(TRUE)} /\ q.rev.body.kind # "foreign"
      \/ Answer(q, "error")
      \/ Answer(q, "refused") /\ q.rev.body.kind # "foreign"
  BY DEF Judge
<1>5. \A phase : Answer(q, phase) => p \in calls \/ p = Answered(phase) BY DEF Answer
<1> HIDE DEF t, Answered, Writing
<1>6. \/ p \in calls
      \/ p = Answered("rejected") /\ q.rev.body.kind = "foreign"
      \/ p = Answered("error")
      \/ p = Answered("refused") /\ q.rev.body.kind # "foreign"
      \/ /\ p = Writing(FALSE) /\ q.rev.body.kind # "foreign"
         /\ JudgeScoreTime(t, settings) = "record"
      \/ p = Writing(TRUE) /\ q.rev.body.kind # "foreign"
  BY <1>4, <1>5
<1>7. \A phase : p = Answered(phase) => p.phase = phase /\ p.rev = q.rev /\ p.heard = q.heard
  BY <1>2
<1>8. \A b : p = Writing(b) => /\ p.phase = "writing" /\ p.iso = t /\ p.blind = b
                              /\ p.rev = q.rev /\ p.heard = q.heard
  BY <1>3
<1>9. p = Writing(TRUE) => p.blind BY <1>8
<1>10. QED BY <1>6, <1>7, <1>8, <1>9 DEF t

LEMMA RecordedRequests ==
    ASSUME DeliveryInv, NEW q \in calls, RecordSolves(q), NEW p \in calls'
    PROVE  \/ p \in calls
           \/ p.phase \in {"accepted", "error"} /\ p.rev = q.rev /\ p.heard = q.heard
<1>1. q \in Call BY DEF DeliveryInv, Types
<1>2. \A phase : /\ [q EXCEPT !.phase = phase].phase = phase
                 /\ [q EXCEPT !.phase = phase].rev = q.rev
                 /\ [q EXCEPT !.phase = phase].heard = q.heard
  BY <1>1 DEF Call
<1>3. Answer(q, "accepted") \/ Answer(q, "error") BY DEF RecordSolves
<1>4. QED BY <1>2, <1>3, ZenonT(40) DEF Answer

LEMMA RequestsGoOn ==
    ASSUME DeliveryInv, NEW qs \in SUBSET calls, NEW p \in GoesOn(qs)
    PROVE  \E q \in qs : p.rev = q.rev /\ p.phase = q.phase /\ p.iso = q.iso /\ p.blind = q.blind
<1>1. PICK q \in qs : p = [q EXCEPT !.heard = FALSE] BY DEF GoesOn
<1>2. q \in Call BY DEF DeliveryInv, Types
<1>3. p.rev = q.rev /\ p.phase = q.phase /\ p.iso = q.iso /\ p.blind = q.blind
  BY <1>1, <1>2 DEF Call
<1>4. QED BY <1>3

LEMMA OtherRequests ==
    ASSUME DeliveryInv, [Next]_vars, ~ScorerStep, NEW p \in calls'
    PROVE  \/ p \in calls
           \/ Submit /\ p.rev = Next1 /\ p.heard /\ p.phase = "arrived"
           \/ ScorerCrash /\ p.phase = "error" /\ \E q \in calls : p.rev = q.rev
           \/ /\ PollerCrash \/ \E q \in calls : LoseAnswer(q)
              /\ \E q \in calls : p.rev = q.rev /\ p.phase = q.phase /\ p.iso = q.iso /\ p.blind = q.blind
<1>1. CASE Submit BY <1>1 DEF Submit
<1>2. CASE ScorerCrash
  <2>1. \A q \in calls : [q EXCEPT !.phase = "error"].rev = q.rev /\ [q EXCEPT !.phase = "error"].phase = "error"
    BY DEF DeliveryInv, Types, Call
  <2>2. PICK q \in calls : p = [q EXCEPT !.phase = "error"] BY <1>2 DEF ScorerCrash
  <2>3. QED BY <1>2, <2>1, <2>2
<1>3. CASE PollerCrash
  <2>1. p \in GoesOn(calls) BY <1>3 DEF PollerCrash
  <2>2. QED BY <1>3, <2>1, RequestsGoOn
<1>4. CASE \E q \in calls : LoseAnswer(q)
  <2>1. PICK q \in calls : LoseAnswer(q) BY <1>4
  <2>2. p \in calls \/ p \in GoesOn({q}) BY <2>1 DEF LoseAnswer
  <2>3. {q} \in SUBSET calls OBVIOUS
  <2>4. QED BY <1>4, <2>2, <2>3, RequestsGoOn
<1>5. CASE ~(Submit \/ ScorerCrash \/ PollerCrash \/ \E q \in calls : LoseAnswer(q))
  BY <1>5 DEF Next, vars, pipelineVars, Upsert, PollerStep, Boot, StartTick, TargetsUnreadable, Fetch,
         FetchFails, SkipComment, Hear, FinishPage, Save, PollerOnly, OrganizerStep, TimePasses
<1>6. QED BY <1>1, <1>2, <1>3, <1>4, <1>5

\* Requests are only sent about what GitHub has listed.
LEMMA CallsArePastInv ==
    ASSUME DeliveryInv, CallsArePast, [Next]_vars
    PROVE  CallsArePast'
<1> USE DEF CallsArePast
<1>1. now \in Nat /\ GitHubSkew \in Nat BY PipelineAssumption DEF DeliveryInv, AdminInv, AdminTypeOK, Instant
<1>2. now' \in Nat /\ now <= now'
  <2>1. CASE Tick BY <1>1, <2>1 DEF Tick
  <2>2. CASE \E a \in Admins : AdminStep(a) BY <1>1, <2>2, AdminStepClock
  <2>3. CASE UNCHANGED adminVars BY <1>1, <2>3 DEF adminVars
  <2>4. QED BY <2>1, <2>2, <2>3, AdminKept DEF AdminNext
<1>3. ASSUME \A q \in calls' : \E p \in calls : q.rev = p.rev
      PROVE  CallsArePast'
  BY <1>1, <1>2, <1>3
<1>4. CASE Submit
  <2>1. Handling /\ poller.page # <<>> /\ \A q \in calls' : q \in calls \/ q.rev = Next1
    BY <1>4 DEF Submit, Pending, PollerAt, Handling
  <2>2. Next1.at \in Nat /\ Next1.at <= poller.next /\ poller.next <= GitHubNow /\ poller.next \in Stamp
    BY <2>1, Next1Facts DEF DeliveryInv, Timely, Types, Poller
  <2>3. GitHubNow \in Nat /\ GitHubNow <= now + GitHubSkew
    BY GitHubClock DEF DeliveryInv, AdminInv, AdminTypeOK
  <2>4. Next1.at <= now + GitHubSkew BY <1>1, <2>2, <2>3 DEF Stamp, Instant, NoTime
  <2>5. QED BY <1>1, <1>2, <2>1, <2>2, <2>4
<1>5. CASE ScorerStep
  <2>1. PICK q \in calls : Judge(q) \/ RecordSolves(q) BY <1>5 DEF ScorerStep
  <2>2. QED BY <1>3, <2>1, JudgedRequests, RecordedRequests
<1>6. CASE ~ScorerStep /\ ~Submit BY <1>3, <1>6, OtherRequests
<1>7. QED BY <1>4, <1>5, <1>6

LEMMA FreezeHonouredInv ==
    ASSUME GitHubSkew = 0 \/ MaxFutureSkew = 0,
           DeliveryInv, CallsArePast, FreezeHonoured, [Next]_vars
    PROVE  FreezeHonoured'
<1> SUFFICES ASSUME ~logFull'
             PROVE  /\ Len(settings'.pauses) < PauseLogCap
                    /\ \A q \in calls' : q.phase = "writing" /\ ~q.blind => NeverFrozen(q.iso)'
                    /\ \A k \in Solvable \ blind' : NeverFrozen(solves[k])'
  BY DEF FreezeHonoured
<1>1. \A t \in Stamp : NeverFrozen(t) => NeverFrozen(t)'
  BY AdminKept, HistoryStep DEF DeliveryInv
<1>2. /\ \A q \in calls : q \in Call /\ (q.phase = "writing" => q.iso \in Stamp)
      /\ \A k \in Solvable : solves[k] \in Stamp
  BY DEF DeliveryInv, Types, Call
<1>3. ~logFull
  BY DEF Next, vars, pipelineVars, Upsert, PollerStep, Boot, StartTick, TargetsUnreadable, Fetch,
         FetchFails, SkipComment, Submit, Hear, LoseAnswer, FinishPage, Save, PollerOnly,
         PollerCrash, ScorerStep, Judge, RecordSolves, ScorerOnly, ScorerCrash, OrganizerStep, TimePasses
<1>4. /\ Len(settings.pauses) < PauseLogCap
      /\ \A q \in calls : q.phase = "writing" /\ ~q.blind => NeverFrozen(q.iso)
      /\ \A k \in Solvable \ blind : NeverFrozen(solves[k])
  BY <1>3 DEF FreezeHonoured
<1>5. now \in Nat /\ MaxFutureSkew \in Nat /\ GitHubSkew \in Nat /\ PauseLogCap \in Nat
  BY PipelineAssumption, AdminAssumption DEF DeliveryInv, AdminInv, AdminTypeOK, Instant
<1>6. CASE ScorerStep
  <2>1. PICK q \in calls : Judge(q) \/ RecordSolves(q) BY <1>6 DEF ScorerStep
  <2>2. /\ UNCHANGED adminVars /\ settings' = settings
    BY <2>1 DEF Judge, RecordSolves, ScorerOnly, adminVars
  <2>3. q \in Call BY <1>2
  <2>4. CASE Judge(q)
    <3> DEFINE t == ScoreTime(q.rev.at, now, MaxFutureSkew)
    <3>1. t \in Nat /\ t <= now
      BY <1>5 DEF ScoreTime, CallsArePast
    <3>2. JudgeScoreTime(t, settings) = "record" => NeverFrozen(t)
      <4>1. JudgeScoreTime(t, settings) = "record" => ~PausedAt(t, settings)
        BY DEF JudgeScoreTime
      <4> HIDE DEF t
      <4>2. QED BY <1>4, <3>1, <4>1, JudgementStands DEF DeliveryInv, Instant
    <3>3. \A p \in calls' : \/ p \in calls
                            \/ p.phase # "writing"
                            \/ p.iso = t /\ (p.blind \/ JudgeScoreTime(t, settings) = "record")
      BY <2>4, JudgedRequests
    <3> HIDE DEF t
    <3>4. ASSUME NEW p \in calls', p.phase = "writing", ~p.blind PROVE NeverFrozen(p.iso)'
      <4>1. CASE p \in calls BY <1>1, <1>2, <1>4, <3>4, <4>1
      <4>2. CASE p.iso = t /\ NeverFrozen(t)
        <5>1. now' = now /\ frozenAt' = frozenAt /\ steady' = steady BY <2>2 DEF adminVars
        <5>2. QED BY <4>2, <5>1 DEF NeverFrozen
      <4>3. QED BY <3>2, <3>3, <3>4, <4>1, <4>2
    <3>5. solves' = solves /\ blind' = blind BY <2>4 DEF Judge
    <3>6. QED BY <1>1, <1>2, <1>4, <2>2, <3>4, <3>5
  <2>5. CASE RecordSolves(q)
    <3>1. PICK keys \in SUBSET Keys(q.rev) :
             /\ q.phase = "writing"
             /\ solves' = SetNX(keys, q.iso)
             /\ blind' = IF q.blind THEN blind \union {k \in keys : solves[k] = NoTime} ELSE blind
             /\ Answer(q, "accepted") \/ Answer(q, "error")
      BY <2>5 DEF RecordSolves, Write
    <3>2. \A p \in calls' : p \in calls \/ p.phase # "writing"
      <4>1. \A phase : [q EXCEPT !.phase = phase].phase = phase BY <2>3 DEF Call
      <4>2. QED BY <3>1, <4>1 DEF Answer
    <3>3. /\ \A k \in Solvable : solves[k] # NoTime => solves'[k] = solves[k]
          /\ \A k \in Solvable : solves[k] = NoTime => solves'[k] = IF k \in keys THEN q.iso ELSE NoTime
      <4>1. keys \in SUBSET Solvable BY <2>3, <3>1, KeysFacts DEF Call
      <4>2. QED BY <1>2, <3>1, <4>1, SetNXFacts DEF DeliveryInv
    <3>4. ASSUME NEW k \in Solvable \ blind' PROVE NeverFrozen(solves[k])'
      <4>1. k \notin blind BY <3>1
      <4>2. CASE solves'[k] = solves[k] BY <1>1, <1>2, <1>4, <4>1, <4>2
      <4>3. CASE solves'[k] # solves[k]
        <5>1. k \in keys /\ solves[k] = NoTime /\ solves'[k] = q.iso BY <3>3, <4>3
        <5>2. ~q.blind BY <3>1, <3>4, <5>1
        <5>3. NeverFrozen(q.iso)' BY <1>1, <1>2, <1>4, <3>1, <5>2
        <5>4. QED BY <5>1, <5>3
      <4>4. QED BY <4>2, <4>3
    <3>5. QED BY <1>1, <1>2, <1>4, <2>2, <3>2, <3>4
  <2>6. QED BY <2>1, <2>4, <2>5
<1>7. ASSUME NEW a \in Admins, OrganizerStep(a)
      PROVE  /\ Len(settings'.pauses) < PauseLogCap
             /\ \A q \in calls' : q.phase = "writing" /\ ~q.blind => NeverFrozen(q.iso)'
             /\ \A k \in Solvable \ blind' : NeverFrozen(solves[k])'
  <2>1. AdminStep(a) /\ calls' = calls /\ Len(settings'.pauses) # PauseLogCap
    BY <1>7 DEF OrganizerStep
  <2>2. Len(settings'.pauses) <= PauseLogCap
    <3>1. Len(settings.pauses) <= PauseLogCap
      <4>1. Len(settings.pauses) \in Nat BY DEF DeliveryInv, AdminInv, AdminTypeOK, Policy
      <4>2. QED BY <1>4, <1>5, <4>1
    <3>2. QED BY <2>1, <3>1, LogWithinCap DEF DeliveryInv
  <2>3. Len(settings'.pauses) \in Nat
    BY AdminKept, AdminNextInv DEF DeliveryInv, AdminInv, AdminTypeOK, Policy
  <2>4. Len(settings'.pauses) < PauseLogCap BY <1>5, <2>1, <2>2, <2>3
  <2>5. CASE solves' = NoSolves
    <3>1. NeverFrozen(NoTime)'
      <4>1. frozenAt' \subseteq Nat /\ now' \in Nat
        BY AdminKept, AdminNextInv DEF DeliveryInv, AdminInv, AdminTypeOK, Instant
      <4>2. QED BY <4>1 DEF NeverFrozen, NoTime
    <3>2. QED BY <1>1, <1>2, <1>4, <2>1, <2>4, <2>5, <3>1 DEF NoSolves
  <2>6. CASE UNCHANGED <<solves, blind>> BY <1>1, <1>2, <1>4, <2>1, <2>4, <2>6
  <2>7. QED BY <1>7, <2>5, <2>6 DEF OrganizerStep
<1>8. CASE ~ScorerStep /\ \A a \in Admins : ~OrganizerStep(a)
  <2>1. settings' = settings /\ UNCHANGED <<solves, blind>>
    BY <1>8 DEF Next, vars, pipelineVars, adminVars, Upsert, PollerStep, Boot, StartTick, TargetsUnreadable,
         Fetch, FetchFails, SkipComment, Submit, Hear, LoseAnswer, FinishPage, Save, PollerOnly,
         PollerCrash, ScorerCrash, TimePasses, Tick
  <2>2. \A q \in calls' : q \in calls \/ q.phase # "writing" \/ \E p \in calls :
           p.phase = "writing" /\ q.iso = p.iso /\ q.blind = p.blind
    BY <1>8, OtherRequests
  <2>3. QED BY <1>1, <1>2, <1>4, <2>1, <2>2
<1>9. QED BY <1>6, <1>7, <1>8

LEMMA OpenHonouredInv ==
    ASSUME GitHubSkew = 0, DeliveryInv, CallsArePast, OpenHonoured,
           \A r \in refused : r.key[2] \in Nat, [Next]_vars
    PROVE  OpenHonoured' /\ \A r \in refused' : r.key[2] \in Nat
<1>1. \A t \in Stamp : NeverOpen(t) => NeverOpen(t)'
  BY AdminKept, HistoryStep DEF DeliveryInv
<1>2. CASE refused' = refused BY <1>1, <1>2 DEF OpenHonoured, Stamp, Instant
<1>3. CASE refused' # refused
  <2>1. PICK q \in calls : Judge(q)
    BY <1>3 DEF Next, vars, pipelineVars, Upsert, PollerStep, Boot, StartTick, TargetsUnreadable, Fetch,
       FetchFails, SkipComment, Submit, Hear, LoseAnswer, FinishPage, Save, PollerOnly,
       PollerCrash, ScorerStep, RecordSolves, ScorerCrash, OrganizerStep, TimePasses
  <2> DEFINE at == q.rev.at
             verdict == JudgeScoreTime(at, settings)
  <2>2. now \in Nat /\ MaxFutureSkew \in Nat
    BY PipelineAssumption DEF DeliveryInv, AdminInv, AdminTypeOK, Instant
  <2>3. at \in Nat /\ at <= now BY <2>2 DEF CallsArePast
  <2>4. ScoreTime(at, now, MaxFutureSkew) = at BY <2>2, <2>3 DEF ScoreTime
  <2>5. refused' = refused \union {[key |-> SeenKey(q.rev), why |-> verdict]}
    <3>1. LET t == ScoreTime(at, now, MaxFutureSkew)
          IN  refused' = refused \union {[key |-> SeenKey(q.rev), why |-> JudgeScoreTime(t, settings)]}
      BY <1>3, <2>1 DEF Judge
    <3>2. QED BY <2>4, <3>1
  <2>6. SeenKey(q.rev)[2] = at BY DEF SeenKey
  <2>7. UNCHANGED adminVars BY <2>1 DEF Judge, ScorerOnly
  <2>8. verdict = "paused" => PausedAt(at, settings) BY DEF JudgeScoreTime
  <2> HIDE DEF at, verdict
  <2>9. verdict = "paused" => NeverOpen(at)
    BY <2>3, <2>8, JudgementStands DEF DeliveryInv, Instant
  <2>10. \A t : NeverOpen(t) => (t \notin openAt' /\ (t < now' \/ (t = now' /\ steady' # "open")))
    BY <2>7 DEF NeverOpen, adminVars
  <2>11. ASSUME NEW r \in refused'
         PROVE  r.key[2] \in Nat /\ (r.why = "paused" => NeverOpen(r.key[2])')
    <3>1. CASE r \in refused BY <2>10, <3>1 DEF OpenHonoured, NeverOpen
    <3>2. CASE r = [key |-> SeenKey(q.rev), why |-> verdict]
      <4>1. r.key[2] = at /\ r.why = verdict BY <2>6, <3>2
      <4>2. QED BY <2>3, <2>9, <2>10, <4>1 DEF NeverOpen
    <3>3. QED BY <2>5, <2>11, <3>1, <3>2
  <2>12. QED BY <2>11 DEF OpenHonoured
<1>4. QED BY <1>2, <1>3

\* A score posted during a freeze of known start never reaches the board, if
\* GitHub's clock does not run ahead of the scorer's or the scorer allows it
\* none: however late it is judged, through retries, crashes of either process,
\* resumes and resets.
THEOREM FreezeIsHonoured ==
    ASSUME GitHubSkew = 0 \/ MaxFutureSkew = 0
    PROVE  Spec => []NoSolveFromAFreeze
<1> DEFINE Inv == CallsArePast /\ FreezeHonoured
<1>1. Init => Inv
  <2>1. SUFFICES ASSUME Init PROVE Inv
    OBVIOUS
  <2>2. CallsArePast BY <2>1 DEF Init, CallsArePast
  <2>3. settings.pauses = <<>> BY <2>1, AdminAssumption DEF Init, AdminInit
  <2>4. Len(settings.pauses) < PauseLogCap BY <2>3, AdminAssumption
  <2>5. \A k \in Solvable : NeverFrozen(solves[k])
    BY <2>1 DEF Init, AdminInit, NoSolves, NeverFrozen, NoTime
  <2>6. QED BY <2>1, <2>2, <2>4, <2>5 DEF Init, FreezeHonoured
<1>2. DeliveryInv /\ Inv /\ [Next]_vars => Inv'
  BY CallsArePastInv, FreezeHonouredInv
<1>3. Inv => NoSolveFromAFreeze
  BY DEF FreezeHonoured, NoSolveFromAFreeze, NeverFrozen
<1> HIDE DEF Inv
<1>4. QED BY <1>1, <1>2, <1>3, DeliveryIsInvariant, PTL DEF Spec

\* A score posted while scoring was open is never refused as frozen, if
\* GitHub's clock does not run ahead of the scorer's.
THEOREM OpenIsHonoured ==
    ASSUME GitHubSkew = 0
    PROVE  Spec => []NoOpenScoreRefused
<1> DEFINE Inv == CallsArePast /\ OpenHonoured /\ \A r \in refused : r.key[2] \in Nat
<1>1. Init => Inv BY DEF Init, CallsArePast, OpenHonoured
<1>2. DeliveryInv /\ Inv /\ [Next]_vars => Inv'
  BY CallsArePastInv, OpenHonouredInv
<1>3. Inv => NoOpenScoreRefused BY DEF OpenHonoured, NoOpenScoreRefused, NeverOpen
<1> HIDE DEF Inv
<1>4. QED BY <1>1, <1>2, <1>3, DeliveryIsInvariant, PTL DEF Spec

(***************************************************************************)
(* What the poller gives up on is counted.  Between two saves the count is  *)
(* of what mem has consumed and of what the page in hand was read past.     *)
(***************************************************************************)
Bad(c) == Posted(c) /\ comment[c].body.kind \in {"bad", "foreign"}
Passed(c) == /\ Handling /\ RepoOf[c] = Target
             /\ comment[c].at < Bound /\ ~Contains(poller.page, Rev(c))

GivenUp == {c \in ByBot : /\ Bad(c)
                          /\ Consumed(mem, Rev(c)) \/ Passed(c)
                          /\ ~Predates(mem, Rev(c)) /\ ~BeingSubmitted(Rev(c))}
GivenUpSaved == {c \in ByBot : /\ Bad(c)
                               /\ Consumed(durable, Rev(c))
                               /\ ~Predates(durable, Rev(c))}

\* Only a score is ever accepted or refused.
KindsHeard == \A q \in calls :
    /\ q.rev.body.kind \in {"foreign", "score"}
    /\ q.phase \in {"writing", "accepted", "refused"} => q.rev.body.kind = "score"

Counted == /\ Cardinality(GivenUp) <= mem.dropped
           /\ Cardinality(GivenUpSaved) <= durable.dropped
           /\ KindsHeard

LEMMA CurrentFacts ==
    ASSUME Types
    PROVE  \A c \in ByBot : Posted(c) =>
              /\ c \in Comments /\ RepoOf[c] \in Repos
              /\ Rev(c) \in Revision /\ Rev(c).id = c /\ Rev(c).body = comment[c].body
              /\ Rev(c).at = comment[c].at /\ comment[c].at \in Nat
<1>1. ByBot \subseteq Comments BY PipelineAssumption
<1>2. \A c \in Comments : Posted(c) =>
         /\ Rev(c) \in Revision /\ Rev(c).id = c /\ Rev(c).body = comment[c].body
         /\ Rev(c).at = comment[c].at /\ comment[c].at \in Nat
  BY DEF Types, Rev, Revision, Posted, Stamp, Instant
<1>3. QED BY <1>1, <1>2, ReposFacts

\* Counting by inclusion.
LEMMA FewerCounted ==
    ASSUME NEW S, NEW T, S \subseteq ByBot, T \subseteq ByBot, NEW n \in Nat, Cardinality(T) <= n
    PROVE  /\ S \subseteq T => Cardinality(S) <= n
           /\ \A c \in ByBot : S \subseteq T \union {c} => Cardinality(S) <= n + 1
           /\ S = {} => \A m \in Nat : Cardinality(S) <= m
<1>1. IsFiniteSet(S) /\ IsFiniteSet(T)
  <2>1. IsFiniteSet(Comments) /\ ByBot \subseteq Comments BY PipelineAssumption
  <2>2. S \subseteq Comments /\ T \subseteq Comments BY <2>1
  <2>3. QED BY <2>1, <2>2, FS_Subset
<1>2. Cardinality(S) \in Nat /\ Cardinality(T) \in Nat BY <1>1, FS_CardinalityType
<1>3. S \subseteq T => Cardinality(S) <= n
  <2>1. S \subseteq T => Cardinality(S) <= Cardinality(T) BY <1>1, FS_Subset
  <2>2. QED BY <1>2, <2>1
<1>4. ASSUME NEW c \in ByBot, S \subseteq T \union {c} PROVE Cardinality(S) <= n + 1
  <2>1. IsFiniteSet(T \union {c}) /\ Cardinality(T \union {c}) <= Cardinality(T) + 1
    <3>1. /\ IsFiniteSet(T \union {c})
          /\ Cardinality(T \union {c}) = IF c \in T THEN Cardinality(T) ELSE Cardinality(T) + 1
      BY <1>1, FS_AddElement
    <3>2. QED BY <1>2, <3>1
  <2>2. Cardinality(S) <= Cardinality(T \union {c}) BY <1>4, <2>1, FS_Subset
  <2>3. Cardinality(T \union {c}) \in Nat BY <2>1, FS_CardinalityType
  <2>4. QED BY <1>2, <2>1, <2>2, <2>3
<1>5. S = {} => Cardinality(S) = 0 BY FS_EmptySet
<1>6. QED BY <1>3, <1>4, <1>5

LEMMA KindsHeardInv ==
    ASSUME DeliveryInv, KindsHeard, [Next]_vars
    PROVE  KindsHeard'
<1> SUFFICES ASSUME NEW p \in calls'
             PROVE  /\ p.rev.body.kind \in {"foreign", "score"}
                    /\ p.phase \in {"writing", "accepted", "refused"} => p.rev.body.kind = "score"
  BY DEF KindsHeard
<1>1. CASE p \in calls BY <1>1 DEF KindsHeard
<1>2. CASE p \notin calls /\ ScorerStep
  <2>1. PICK q \in calls : Judge(q) \/ RecordSolves(q) BY <1>2 DEF ScorerStep
  <2>2. /\ q.rev.body.kind \in {"foreign", "score"}
        /\ q.phase \in {"writing", "accepted", "refused"} => q.rev.body.kind = "score"
    BY DEF KindsHeard
  <2>3. CASE Judge(q) BY <1>2, <2>2, <2>3, JudgedRequests
  <2>4. CASE RecordSolves(q)
    <3>1. q.phase = "writing" BY <2>4 DEF RecordSolves
    <3>2. QED BY <1>2, <2>2, <2>4, <3>1, RecordedRequests
  <2>5. QED BY <2>1, <2>3, <2>4
<1>3. CASE p \notin calls /\ ~ScorerStep
  <2>1. Submit => Next1.body.kind \in {"foreign", "score"} BY DEF Submit, Submits
  <2>2. QED BY <1>3, <2>1, OtherRequests DEF KindsHeard
<1>4. QED BY <1>1, <1>2, <1>3

\* The poller's own state and GitHub's stay: nothing is given up on.
LEMMA NothingGivenUp ==
    ASSUME DeliveryInv, UNCHANGED <<comment, mem, poller>>,
           \A rev : BeingSubmitted(rev) => BeingSubmitted(rev)',
           wipedAt' = wipedAt \/ wipedAt' = now
    PROVE  GivenUp' \subseteq GivenUp
<1>1. \A c \in ByBot : Bad(c)' => Bad(c) /\ (Predates(mem, Rev(c)) => Predates(mem, Rev(c))')
  <2> SUFFICES ASSUME NEW c \in ByBot, Bad(c)'
               PROVE  Bad(c) /\ (Predates(mem, Rev(c)) => Predates(mem, Rev(c))')
    OBVIOUS
  <2>1. Bad(c) BY DEF Bad, Posted
  <2>2. /\ Rev(c).at \in Nat /\ Rev(c).at = comment[c].at /\ comment[c].at <= GitHubNow
    BY <2>1, CurrentFacts DEF Bad, DeliveryInv, Timely
  <2>3. Rev(c)' = Rev(c) BY DEF Rev
  <2>4. now \in Nat /\ GitHubNow <= now + GitHubSkew /\ GitHubNow \in Nat /\ GitHubSkew \in Nat
    BY GitHubClock, PipelineAssumption DEF DeliveryInv, AdminInv, AdminTypeOK, Instant
  <2>5. wipedAt' = now => wipedAt' # NoTime /\ Rev(c).at <= wipedAt' + GitHubSkew
    BY <2>2, <2>4 DEF NoTime
  <2>6. QED BY <2>1, <2>3, <2>5 DEF Predates
<1>2. \A c \in ByBot : /\ Consumed(mem, Rev(c))' <=> Consumed(mem, Rev(c))
                       /\ Passed(c)' <=> Passed(c)
                       /\ Rev(c)' = Rev(c)
  BY DEF Consumed, Passed, Rev, Handling, Target, Bound
<1>3. \A c \in ByBot : BeingSubmitted(Rev(c)) => BeingSubmitted(Rev(c))' BY <1>2 DEF BeingSubmitted
<1>4. QED BY <1>1, <1>2, <1>3 DEF GivenUp

\* An edit is ahead of every cursor.
LEMMA UpsertGivesNothingUp ==
    ASSUME DeliveryInv, NEW c \in Comments, NEW body \in Bodies, Upsert(c, body)
    PROVE  GivenUp' \subseteq GivenUp /\ GivenUpSaved' \subseteq GivenUpSaved
<1> USE DEF DeliveryInv
<1>1. /\ UNCHANGED adminVars
      /\ UNCHANGED <<mem, durable, poller, calls, solves, refused, wipedAt>>
      /\ comment[c].at < GitHubNow
      /\ comment' = [comment EXCEPT ![c] = [at |-> GitHubNow, body |-> body]]
  BY DEF Upsert
<1>2. /\ now \in Nat /\ now' = now /\ GitHubNow' = GitHubNow /\ GitHubNow \in Nat
  BY <1>1, AdminStays DEF Instant
<1>3. /\ \A d \in Comments : comment[d].at \in Stamp
      /\ comment'[c].at = GitHubNow
      /\ \A d \in Comments : d # c => comment'[d] = comment[d]
  BY <1>1 DEF Types
<1>4. ASSUME NEW d \in ByBot, d # c
      PROVE  /\ Bad(d)' <=> Bad(d)
             /\ Rev(d)' = Rev(d)
             /\ Passed(d)' <=> Passed(d)
             /\ \A st : Consumed(st, Rev(d))' <=> Consumed(st', Rev(d))
  <2>1. comment'[d] = comment[d] BY <1>3, <1>4, PipelineAssumption
  <2>2. Rev(d)' = Rev(d) BY <2>1 DEF Rev
  <2>3. Passed(d)' <=> Passed(d) BY <1>1, <2>1, <2>2 DEF Passed, Handling, Target, Bound
  <2>4. QED BY <1>1, <2>1, <2>2, <2>3 DEF Bad, Posted, Consumed
<1>5. c \in ByBot => /\ ~Consumed(mem, Rev(c))' /\ ~Consumed(durable, Rev(c))'
                     /\ ~Passed(c)'
  <2> SUFFICES ASSUME c \in ByBot
               PROVE  /\ ~Consumed(mem, Rev(c))' /\ ~Consumed(durable, Rev(c))'
                      /\ ~Passed(c)'
    OBVIOUS
  <2>1. Rev(c)'.id = c /\ Rev(c)'.at = GitHubNow BY <1>3 DEF Rev
  <2>2. Bound <= GitHubNow /\ Bound \in Stamp BY DEF Bound, Timely, Types, Poller
  <2>3. ~Passed(c)'
    <3>1. Bound' = Bound BY <1>1 DEF Bound
    <3>2. QED BY <1>2, <1>3, <2>2, <3>1 DEF Passed, Stamp, Instant, NoTime
  <2>4. ASSUME NEW st \in {mem, durable}
        PROVE  ~(GitHubNow < st.repos[RepoOf[c]].since) /\ ~Contains(st.repos[RepoOf[c]].seen, <<c, GitHubNow>>)
    <3>1. RepoOf[c] \in Repos BY ReposFacts
    <3>2. st.repos[RepoOf[c]].since <= GitHubNow /\ st.repos[RepoOf[c]].since \in Stamp
      BY <3>1 DEF Timely, Types, PollState, Cursors
    <3>3. ~(GitHubNow < st.repos[RepoOf[c]].since) BY <1>2, <3>2 DEF Stamp, Instant, NoTime
    <3> DEFINE seen == st.repos[RepoOf[c]].seen
    <3>4. ASSUME NEW i \in 1..Len(seen), seen[i] = <<c, GitHubNow>> PROVE FALSE
      <4>1. seen \in Seq(Comments \X Instant) BY <3>1 DEF Types, PollState, Cursors
      <4>2. i \in DOMAIN seen BY <4>1
      <4>3. seen[i][2] <= comment[seen[i][1]].at BY <3>1, <4>2 DEF Timely
      <4>4. GitHubNow <= comment[c].at BY <3>4, <4>3
      <4>5. QED BY <1>1, <1>2, <1>3, <4>4 DEF Stamp, Instant, NoTime
    <3>5. QED BY <3>3, <3>4 DEF Contains
  <2>5. QED BY <1>1, <2>1, <2>3, <2>4 DEF Consumed, SeenKey
<1>6. GivenUp' \subseteq GivenUp
  BY <1>1, <1>4, <1>5 DEF GivenUp, Predates, BeingSubmitted, Consumed
<1>7. GivenUpSaved' \subseteq GivenUpSaved
  BY <1>1, <1>4, <1>5 DEF GivenUpSaved, Predates, Consumed
<1>8. QED BY <1>6, <1>7

\* At rest, what is given up on is what mem has consumed.
LEMMA RestGivesNothingUp ==
    ASSUME DeliveryInv, poller.pc # "await",
           UNCHANGED <<comment, mem, wipedAt>>, poller'.pc \notin {"handle", "await"}
    PROVE  GivenUp' \subseteq GivenUp
<1>1. \A c \in ByBot : ~Passed(c)' /\ Rev(c)' = Rev(c) BY DEF Passed, Handling, Rev
<1>2. \A rev : ~BeingSubmitted(rev) BY NobodyListens
<1>3. QED BY <1>1, <1>2 DEF GivenUp, Bad, Posted, Consumed, Predates, Rev

LEMMA SavedStays ==
    ASSUME UNCHANGED <<comment, durable>>,
           \A c \in ByBot : Bad(c) => (Predates(durable, Rev(c)) => Predates(durable, Rev(c))')
    PROVE  GivenUpSaved' \subseteq GivenUpSaved
BY DEF GivenUpSaved, Bad, Posted, Consumed, Rev

LEMMA BadStays ==
    ASSUME DeliveryInv, UNCHANGED <<comment, wipedAt>>
    PROVE  \A c \in ByBot : /\ Bad(c)' <=> Bad(c)
                            /\ Rev(c)' = Rev(c)
                            /\ mem'.resetAt = mem.resetAt => (Predates(mem, Rev(c))' <=> Predates(mem, Rev(c)))
BY DEF Bad, Posted, Rev, Predates

\* What a page passes over because the cursor is beyond it was consumed.
LEMMA FetchGivesNothingUp ==
    ASSUME DeliveryInv, Fetch
    PROVE  GivenUp' \subseteq GivenUp
<1> USE DEF DeliveryInv
<1>1. /\ UNCHANGED <<comment, calls, wipedAt, mem>>
      /\ poller.pc = "poll" /\ poller.todo # <<>>
  BY DEF Fetch, PollerOnly, PollerAt, Types
<1>2. /\ Target \in Repos /\ Cursor \in Cursors
      /\ Cursor.since \in Stamp /\ Cursor = mem.repos[Target]
  BY <1>1, CursorFacts
<1>3. PICK page \in Pages(Target, Cursor.since), kept \in Seq(Revision), next \in Stamp,
           etag \in SUBSET Seq(Revision) :
         /\ poller' = [poller EXCEPT !.pc = "handle", !.page = kept, !.stopAt = NoTime,
                                     !.next = next, !.etag = etag]
         /\ \/ next = Cursor.since
            \/ /\ page # <<>> /\ next = Last(page).at
               /\ \A rev : Contains(page, rev) /\ rev.id \in ByBot => Contains(kept, rev)
  BY FetchedPage, ZenonT(40)
<1>4. /\ poller'.page = kept /\ poller'.next = next
      /\ poller'.stopAt = NoTime /\ poller'.todo = poller.todo
  BY <1>3 DEF Types, Poller, Stamp
<1>5. Target' = Target /\ Bound' = next BY <1>4 DEF Target, Bound
<1>6. ASSUME NEW c \in ByBot, Bad(c), Passed(c)' PROVE Consumed(mem, Rev(c))
  <2>1. RepoOf[c] = Target /\ comment[c].at < next /\ ~Contains(kept, Rev(c))
    BY <1>1, <1>4, <1>5, <1>6 DEF Passed, Rev
  <2>2. /\ c \in Comments /\ Rev(c).id = c /\ Rev(c).at = comment[c].at /\ comment[c].at \in Nat
    BY <1>6, CurrentFacts DEF Bad
  <2>3. CASE comment[c].at < Cursor.since BY <1>2, <2>1, <2>2, <2>3 DEF Consumed
  <2>4. CASE ~(comment[c].at < Cursor.since)
    <3>1. next # Cursor.since BY <2>1, <2>4
    <3>2. ~Contains(page, Rev(c)) /\ next = Last(page).at BY <1>3, <2>1, <2>2, <3>1
    <3>3. c \in Listed(Target, Cursor.since)
      BY <1>2, <1>6, <2>1, <2>2, <2>4 DEF Listed, Bad, NoTime, Stamp, Instant
    <3>4. Last(page).at <= comment[c].at BY <1>1, <3>2, <3>3, PageFacts
    <3>5. QED BY <2>1, <2>2, <3>2, <3>4 DEF Stamp, Instant, NoTime
  <2>5. QED BY <2>3, <2>4
<1>7. \A c \in ByBot : Consumed(mem, Rev(c))' => Consumed(mem, Rev(c))
  BY <1>1 DEF Consumed, Rev
<1>8. \A rev : ~BeingSubmitted(rev) BY <1>1, NobodyListens
<1>9. QED BY <1>1, <1>6, <1>7, <1>8, BadStays DEF GivenUp

LEMMA FinishGivesNothingUp ==
    ASSUME DeliveryInv, FinishPage
    PROVE  GivenUp' \subseteq GivenUp /\ mem'.dropped = mem.dropped
<1> USE DEF DeliveryInv
<1>1. /\ UNCHANGED <<comment, durable, calls, wipedAt>>
      /\ poller.pc = "handle" /\ poller.page = <<>> /\ poller' = NextTarget
      /\ mem' = [mem EXCEPT
            !.repos[Target].since = Bound,
            !.repos[Target].etag  = IF poller.stopAt # NoTime THEN {} ELSE poller.etag]
  BY DEF FinishPage, PollerOnly, PollerAt, Target, Bound
<1>2. Handling /\ mem \in PollState /\ Target \in Repos
  BY <1>1, CursorFacts DEF Handling, Types
<1>3. /\ mem'.resetAt = mem.resetAt /\ mem'.dropped = mem.dropped
      /\ mem'.repos[Target].since = Bound
      /\ \A r \in Repos : /\ mem'.repos[r].seen = mem.repos[r].seen
                          /\ r # Target => mem'.repos[r].since = mem.repos[r].since
  <2> DEFINE e == IF poller.stopAt # NoTime THEN {} ELSE poller.etag
             m == [mem EXCEPT !.repos[Target].since = Bound, !.repos[Target].etag = e]
  <2>1. mem' = m BY <1>1
  <2> HIDE DEF e
  <2>2. /\ m.resetAt = mem.resetAt /\ m.dropped = mem.dropped
        /\ m.repos[Target].since = Bound
        /\ \A x \in Repos : /\ m.repos[x].seen = mem.repos[x].seen
                            /\ x # Target => m.repos[x].since = mem.repos[x].since
    BY <1>2 DEF PollState, Cursors
  <2> HIDE DEF m
  <2>3. QED BY <2>1, <2>2
<1>4. poller'.pc \notin {"handle", "await"} BY <1>1, RestingPlaces
<1>5. \A c \in ByBot : ~Passed(c)' BY <1>4 DEF Passed, Handling
<1>6. ASSUME NEW c \in ByBot, Bad(c), Consumed(mem, Rev(c))' PROVE Consumed(mem, Rev(c)) \/ Passed(c)
  <2>1. RepoOf[c] \in Repos /\ Rev(c).id = c /\ Rev(c).at = comment[c].at /\ Rev(c)' = Rev(c)
    BY <1>1, <1>6, CurrentFacts DEF Bad, Rev
  <2>2. ~Contains(poller.page, Rev(c)) BY <1>1 DEF Contains
  <2>3. CASE Contains(mem'.repos[RepoOf[c]].seen, SeenKey(Rev(c)))
    BY <1>3, <2>1, <2>3 DEF Consumed
  <2>4. CASE Rev(c).at < mem'.repos[RepoOf[c]].since
    BY <1>2, <1>3, <2>1, <2>2, <2>4 DEF Consumed, Passed
  <2>5. QED BY <1>6, <2>1, <2>3, <2>4 DEF Consumed
<1>7. \A rev : ~BeingSubmitted(rev) BY <1>1, NobodyListens
<1>8. QED BY <1>1, <1>3, <1>5, <1>6, <1>7, BadStays DEF GivenUp

\* A state without cursors has given up on nothing.
LEMMA NoCursorsNothingGivenUp ==
    ASSUME DeliveryInv, UNCHANGED comment, mem'.repos = FreshState.repos,
           poller'.pc \notin {"handle", "await"}
    PROVE  GivenUp' = {}
<1>1. \A c \in ByBot : ~Passed(c)' BY DEF Passed, Handling
<1>2. ASSUME NEW c \in ByBot, Bad(c) PROVE ~Consumed(mem, Rev(c))'
  <2>1. /\ RepoOf[c] \in Repos /\ Rev(c).id = c /\ Rev(c).at = comment[c].at
        /\ comment[c].at \in Nat /\ Rev(c)' = Rev(c)
    BY <1>2, CurrentFacts DEF Bad, Rev, DeliveryInv
  <2>2. mem'.repos[RepoOf[c]].since = NoTime /\ mem'.repos[RepoOf[c]].seen = <<>>
    BY <2>1, FreshStateType
  <2>3. QED BY <2>1, <2>2 DEF Consumed, Contains, NoTime
<1>3. \A c \in ByBot : Bad(c)' => Bad(c) BY DEF Bad, Posted
<1>4. QED BY <1>1, <1>2, <1>3 DEF GivenUp

\* A step at one comment of the page gives up on no other.
LEMMA OnePassed ==
    ASSUME DeliveryInv, Handling, poller.page # <<>>, UNCHANGED <<comment, wipedAt>>,
           mem' \in PollState, mem'.resetAt = mem.resetAt,
           \A r \in Repos :
              /\ mem'.repos[r].since = mem.repos[r].since
              /\ \A i \in DOMAIN mem'.repos[r].seen :
                    \/ Contains(mem.repos[r].seen, mem'.repos[r].seen[i])
                    \/ r = Target /\ mem'.repos[r].seen[i] = SeenKey(Next1),
           poller'.todo = poller.todo,
           poller'.page \in {poller.page, Tail(poller.page)},
           Bound' \in Stamp, Bound' <= Bound
    PROVE  \A c \in GivenUp' : /\ c \in ByBot /\ Bad(c) /\ Rev(c)' = Rev(c)
                               /\ c \in GivenUp \/ Rev(c) = Next1
<1> USE DEF DeliveryInv
<1> SUFFICES ASSUME NEW c \in GivenUp', Rev(c) # Next1
             PROVE  c \in ByBot /\ Bad(c) /\ Rev(c)' = Rev(c) /\ c \in GivenUp
  BY BadStays DEF GivenUp
<1>1. /\ c \in ByBot /\ Bad(c) /\ Rev(c)' = Rev(c) /\ ~Predates(mem, Rev(c))
      /\ Consumed(mem, Rev(c))' \/ Passed(c)'
  BY BadStays DEF GivenUp
<1>2. /\ RepoOf[c] \in Repos /\ Rev(c) \in Revision /\ Rev(c).id = c /\ Rev(c).at = comment[c].at
      /\ Rev(c).body = comment[c].body /\ comment[c].at \in Nat
  BY <1>1, CurrentFacts DEF Bad
<1>3. SeenKey(Rev(c)) # SeenKey(Next1)
  <2>1. SeenKey(Rev(c)) = SeenKey(Next1) => Next1 = Rev(c)
    BY <1>2, Next1Facts, KnownIsCurrent
  <2>2. QED BY <2>1
<1>4. Consumed(mem, Rev(c))' => Consumed(mem, Rev(c))
  <2> DEFINE old == mem.repos[RepoOf[c]].seen
             new == mem'.repos[RepoOf[c]].seen
  <2>1. new \in Seq(Comments \X Instant) BY <1>2 DEF PollState, Cursors
  <2>2. Contains(new, SeenKey(Rev(c))) => \E i \in DOMAIN new : new[i] = SeenKey(Rev(c))
    BY <2>1 DEF Contains
  <2>3. \A i \in DOMAIN new : Contains(old, new[i]) \/ new[i] = SeenKey(Next1)
    BY <1>2
  <2>4. Contains(new, SeenKey(Rev(c))) => Contains(old, SeenKey(Rev(c)))
    BY <1>3, <2>2, <2>3
  <2>5. Consumed(mem, Rev(c))' <=> \/ Contains(new, SeenKey(Rev(c)))
                                   \/ Rev(c).at < mem'.repos[RepoOf[c]].since
    BY <1>1, <1>2 DEF Consumed
  <2>6. QED BY <1>2, <2>4, <2>5 DEF Consumed
<1>5. Passed(c)' => Passed(c)
  <2> SUFFICES ASSUME Passed(c)' PROVE Passed(c)
    OBVIOUS
  <2>1. Target' = Target BY DEF Target
  <2>2. RepoOf[c] = Target /\ comment[c].at < Bound' /\ ~Contains(poller'.page, Rev(c))
    BY <1>1, <2>1 DEF Passed
  <2>3. ~Contains(poller.page, Rev(c)) BY <2>2, Next1Facts
  <2>4. Bound \in Stamp BY DEF Bound, Types, Poller
  <2>5. comment[c].at < Bound BY <1>2, <2>2, <2>4 DEF Stamp, Instant, NoTime
  <2>6. QED BY <2>2, <2>3, <2>5 DEF Passed
<1>6. ~BeingSubmitted(Rev(c)) BY DEF BeingSubmitted, OneCall
<1>7. QED BY <1>1, <1>4, <1>5, <1>6 DEF GivenUp

\* A comment passed over is counted when its marker is unusable.
LEMMA SkipCounts ==
    ASSUME DeliveryInv, SkipComment
    PROVE  /\ mem.dropped \in Nat
           /\ \/ mem'.dropped = mem.dropped /\ GivenUp' \subseteq GivenUp
              \/ mem'.dropped = mem.dropped + 1 /\ \E c \in ByBot : GivenUp' \subseteq GivenUp \union {c}
              \/ mem'.dropped = mem.dropped + 1 /\ GivenUp' \subseteq GivenUp
<1> USE DEF DeliveryInv
<1>1. /\ UNCHANGED <<comment, calls, wipedAt>>
      /\ poller.pc = "handle" /\ poller.page # <<>> /\ ~Submits(Next1)
      /\ poller' = [poller EXCEPT !.page = Tail(@)]
  BY DEF SkipComment, PollerOnly, Pending, PollerAt
<1> DEFINE marked == MarkSeen(mem, Target, Next1)
           isDrop == ~Duplicate(Next1) /\ ~PreReset(Next1) /\ Next1.body.kind = "bad"
<1>2. mem' = IF isDrop THEN Drop(marked) ELSE marked BY DEF SkipComment, Target
<1>3. Handling /\ poller \in Poller /\ mem \in PollState BY <1>1 DEF Handling, Types
<1>4. Target \in Repos /\ Next1 \in Revision /\ RepoOf[Next1.id] = Target BY <1>1, <1>3, Next1Facts
<1>5. /\ marked \in PollState
      /\ marked.resetAt = mem.resetAt /\ marked.dropped = mem.dropped
      /\ \A r \in Repos : /\ marked.repos[r].since = mem.repos[r].since
                          /\ r # Target => marked.repos[r].seen = mem.repos[r].seen
      /\ \A i \in DOMAIN marked.repos[Target].seen :
            \/ marked.repos[Target].seen[i] = SeenKey(Next1)
            \/ Contains(mem.repos[Target].seen, marked.repos[Target].seen[i])
  BY <1>3, <1>4, MarkSeenFacts
<1> HIDE DEF marked
<1>6. /\ mem' \in PollState /\ mem'.resetAt = marked.resetAt /\ mem'.repos = marked.repos
      /\ mem'.dropped = IF isDrop THEN mem.dropped + 1 ELSE mem.dropped
      /\ mem.dropped \in Nat
  BY <1>2, <1>3, <1>5 DEF Drop, PollState
<1>7. \A r \in Repos :
         /\ mem'.repos[r].since = mem.repos[r].since
         /\ \A i \in DOMAIN mem'.repos[r].seen :
               \/ Contains(mem.repos[r].seen, mem'.repos[r].seen[i])
               \/ r = Target /\ mem'.repos[r].seen[i] = SeenKey(Next1)
  <2>1. \A r \in Repos : mem.repos[r].seen \in Seq(Comments \X Instant)
    BY <1>3 DEF PollState, Cursors
  <2>2. \A r \in Repos : \A i \in DOMAIN mem.repos[r].seen :
           Contains(mem.repos[r].seen, mem.repos[r].seen[i])
    BY <2>1 DEF Contains
  <2>3. QED BY <1>5, <1>6, <2>2
<1>8. /\ poller'.page = Tail(poller.page) /\ poller'.todo = poller.todo
      /\ Bound' = Bound /\ Bound \in Stamp
  BY <1>1, <1>3 DEF Poller, Bound
<1>9. Bound <= Bound BY <1>8 DEF Stamp, Instant, NoTime
<1>10. mem'.resetAt = mem.resetAt BY <1>5, <1>6
<1>11. \A c \in GivenUp' : /\ c \in ByBot /\ Bad(c) /\ Rev(c)' = Rev(c)
                           /\ c \in GivenUp \/ Rev(c) = Next1
  BY <1>1, <1>3, <1>6, <1>7, <1>8, <1>9, <1>10, OnePassed
<1>12. ASSUME NEW c \in GivenUp', Rev(c) = Next1, ~isDrop PROVE c \in GivenUp
  <2>1. /\ c \in ByBot /\ Bad(c) /\ Rev(c).body = comment[c].body /\ Rev(c).id = c
    BY <1>11, CurrentFacts DEF Bad
  <2>2. ~Predates(mem, Rev(c)) BY <1>1, <1>10, <2>1, BadStays DEF GivenUp
  <2>3. ~PreReset(Next1) BY <1>12, <2>2 DEF PreReset, Predates
  <2>4. Next1.body.kind \in {"bad", "foreign"} BY <1>12, <2>1 DEF Bad
  <2>5. Duplicate(Next1) BY <1>1, <1>12, <2>3, <2>4 DEF Submits
  <2>6. Consumed(mem, Rev(c)) BY <1>3, <1>4, <1>12, <2>5, CursorFacts DEF Duplicate, Consumed, Handling
  <2>7. ~BeingSubmitted(Rev(c)) BY <1>1, NobodyListens
  <2>8. QED BY <2>1, <2>2, <2>6, <2>7 DEF GivenUp
<1>13. \A c \in GivenUp' : c \in GivenUp \/ c = Next1.id
  BY <1>11, CurrentFacts DEF Bad
<1> HIDE DEF isDrop
<1>14. CASE isDrop
  <2>1. CASE Next1.id \in ByBot BY <1>6, <1>13, <1>14, <2>1
  <2>2. CASE Next1.id \notin ByBot BY <1>6, <1>11, <1>13, <1>14, <2>2
  <2>3. QED BY <2>1, <2>2
<1>15. CASE ~isDrop BY <1>6, <1>11, <1>12, <1>15
<1>16. QED BY <1>6, <1>14, <1>15

LEMMA SubmitGivesNothingUp ==
    ASSUME DeliveryInv, Submit
    PROVE  GivenUp' \subseteq GivenUp /\ mem'.dropped = mem.dropped
<1> USE DEF DeliveryInv
<1> DEFINE new == [rev |-> Next1, heard |-> TRUE, iso |-> NoTime, blind |-> FALSE, phase |-> "arrived"]
<1>1. /\ UNCHANGED <<comment, wipedAt>>
      /\ poller.pc = "handle" /\ poller.page # <<>>
      /\ mem' = MarkSeen(mem, Target, Next1)
      /\ calls' = calls \union {new}
      /\ poller' = [poller EXCEPT !.pc = "await"]
  BY DEF Submit, Pending, PollerAt, Target
<1>2. Handling /\ poller \in Poller /\ mem \in PollState BY <1>1 DEF Handling, Types
<1>3. Target \in Repos /\ Next1 \in Revision BY <1>1, <1>2, Next1Facts
<1>4. /\ mem' \in PollState /\ mem'.resetAt = mem.resetAt /\ mem'.dropped = mem.dropped
      /\ \A r \in Repos : /\ mem'.repos[r].since = mem.repos[r].since
                          /\ r # Target => mem'.repos[r].seen = mem.repos[r].seen
      /\ \A i \in DOMAIN mem'.repos[Target].seen :
            \/ mem'.repos[Target].seen[i] = SeenKey(Next1)
            \/ Contains(mem.repos[Target].seen, mem'.repos[Target].seen[i])
  BY <1>1, <1>2, <1>3, MarkSeenFacts
<1>5. \A r \in Repos :
         /\ mem'.repos[r].since = mem.repos[r].since
         /\ \A i \in DOMAIN mem'.repos[r].seen :
               \/ Contains(mem.repos[r].seen, mem'.repos[r].seen[i])
               \/ r = Target /\ mem'.repos[r].seen[i] = SeenKey(Next1)
  <2>1. \A r \in Repos : mem.repos[r].seen \in Seq(Comments \X Instant)
    BY <1>2 DEF PollState, Cursors
  <2>2. \A r \in Repos : \A i \in DOMAIN mem.repos[r].seen :
           Contains(mem.repos[r].seen, mem.repos[r].seen[i])
    BY <2>1 DEF Contains
  <2>3. QED BY <1>4, <2>2
<1>6. /\ poller'.page = poller.page /\ poller'.todo = poller.todo
      /\ Bound' = Bound /\ Bound \in Stamp
  BY <1>1, <1>2 DEF Poller, Bound
<1>7. Bound <= Bound BY <1>6 DEF Stamp, Instant, NoTime
<1>8. \A c \in GivenUp' : /\ Rev(c)' = Rev(c)
                          /\ c \in GivenUp \/ Rev(c) = Next1
  BY <1>1, <1>2, <1>4, <1>5, <1>6, <1>7, OnePassed
<1>9. BeingSubmitted(Next1)'
  <2>1. new.heard /\ new.rev = Next1 /\ new \in calls' BY <1>1
  <2> HIDE DEF new
  <2>2. Next1' = Next1 BY <1>6 DEF Next1
  <2>3. QED BY <2>1, <2>2 DEF BeingSubmitted
<1>10. \A c \in GivenUp' : ~BeingSubmitted(Rev(c))' BY DEF GivenUp
<1>11. Next1' = Next1 BY <1>6 DEF Next1
<1>12. QED BY <1>4, <1>8, <1>9, <1>10, <1>11 DEF BeingSubmitted

\* A comment to try again is forgotten, and the cursor will stop at it.
LEMMA RetryGivesNothingUp ==
    ASSUME DeliveryInv, poller.pc = "await", RetryLater, UNCHANGED <<comment, wipedAt>>
    PROVE  GivenUp' \subseteq GivenUp /\ mem'.dropped = mem.dropped
<1> USE DEF DeliveryInv
<1>1. Handling /\ poller.page # <<>> /\ poller \in Poller /\ mem \in PollState
  BY DEF Handling, Types
<1>2. PICK unmarked \in Filtered(Cursor.seen, ToSet(Cursor.seen) \ {SeenKey(Next1)}) :
         mem' = [mem EXCEPT !.repos[Target].seen = unmarked]
  BY DEF RetryLater, Target
<1>3. /\ Target \in Repos /\ Cursor = mem.repos[Target] /\ Cursor.seen \in Seq(Comments \X Instant)
      /\ Cursor.since <= Next1.at /\ RepoOf[Next1.id] = Target /\ Next1.at <= poller.next
      /\ Next1.at \in Nat /\ poller.stopAt <= Next1.at /\ Cursor.since \in Stamp
  BY <1>1, CursorFacts, Next1Facts DEF Handling
<1>4. /\ unmarked \in Seq(Comments \X Instant)
      /\ \A i \in DOMAIN unmarked : /\ unmarked[i] \in ToSet(Cursor.seen) \ {SeenKey(Next1)}
                                    /\ Contains(Cursor.seen, unmarked[i])
  BY <1>3, FilteredFacts
<1>5. /\ mem' \in PollState /\ mem'.resetAt = mem.resetAt /\ mem'.dropped = mem.dropped
      /\ mem'.repos[Target].seen = unmarked
      /\ \A r \in Repos : /\ mem'.repos[r].since = mem.repos[r].since
                          /\ r # Target => mem'.repos[r].seen = mem.repos[r].seen
  <2>1. Remarked(mem, Target, unmarked, mem') BY <1>2, <1>4 DEF Remarked
  <2>2. mem \in PollState /\ Target \in Repos BY <1>1, <1>3
  <2>3. QED BY <2>1, <2>2, SeenReplaced
<1>6. \A r \in Repos :
         /\ mem'.repos[r].since = mem.repos[r].since
         /\ \A i \in DOMAIN mem'.repos[r].seen :
               \/ Contains(mem.repos[r].seen, mem'.repos[r].seen[i])
               \/ r = Target /\ mem'.repos[r].seen[i] = SeenKey(Next1)
  <2>1. \A r \in Repos : mem.repos[r].seen \in Seq(Comments \X Instant)
    BY <1>1 DEF PollState, Cursors
  <2>2. \A r \in Repos : \A i \in DOMAIN mem.repos[r].seen :
           Contains(mem.repos[r].seen, mem.repos[r].seen[i])
    BY <2>1 DEF Contains
  <2>3. QED BY <1>3, <1>4, <1>5, <2>2
<1>7. /\ poller'.todo = poller.todo /\ poller'.page = Tail(poller.page)
      /\ poller'.next = poller.next
      /\ poller'.stopAt = IF poller.stopAt = NoTime THEN Next1.at ELSE poller.stopAt
  BY <1>1 DEF RetryLater, PageGoesOn, Poller
<1>8. /\ Bound' \in Stamp /\ Bound \in Stamp /\ Bound' <= Bound /\ Bound' <= Next1.at
  BY <1>1, <1>3, <1>7 DEF Bound, Poller, Stamp, Instant, NoTime
<1>9. \A c \in GivenUp' : /\ c \in ByBot /\ Bad(c) /\ Rev(c)' = Rev(c)
                          /\ c \in GivenUp \/ Rev(c) = Next1
  BY <1>1, <1>5, <1>6, <1>7, <1>8, OnePassed
<1>10. ASSUME NEW c \in GivenUp', Rev(c) = Next1 PROVE FALSE
  <2>1. /\ RepoOf[c] = Target /\ Rev(c)' = Rev(c) /\ comment[c].at = Next1.at /\ Rev(c).id = c
    BY <1>3, <1>9, <1>10, CurrentFacts DEF Bad
  <2>2. ~(comment[c].at < Bound') BY <1>3, <1>8, <2>1 DEF Stamp, Instant, NoTime
  <2>3. ~Passed(c)' BY <2>1, <2>2 DEF Passed
  <2>4. ~Contains(unmarked, SeenKey(Next1)) BY <1>4 DEF Contains
  <2>5. ~(Next1.at < mem'.repos[Target].since) BY <1>3, <1>5 DEF Stamp, Instant, NoTime
  <2>6. ~Consumed(mem, Rev(c))' BY <1>5, <1>10, <2>1, <2>4, <2>5 DEF Consumed
  <2>7. QED BY <2>3, <2>6 DEF GivenUp
<1>11. QED BY <1>5, <1>9, <1>10

\* An answer that is no error settles a score, or rejects what is counted.
LEMMA HearCounts ==
    ASSUME DeliveryInv, KindsHeard, NEW q \in calls, Hear(q)
    PROVE  /\ mem.dropped \in Nat
           /\ \/ mem'.dropped = mem.dropped /\ GivenUp' \subseteq GivenUp
              \/ mem'.dropped = mem.dropped + 1 /\ \E c \in ByBot : GivenUp' \subseteq GivenUp \union {c}
              \/ mem'.dropped = mem.dropped + 1 /\ GivenUp' \subseteq GivenUp
<1> USE DEF DeliveryInv
<1>1. /\ UNCHANGED <<comment, wipedAt>>
      /\ poller.pc = "await" /\ q.heard
      /\ q.phase \in {"accepted", "refused", "rejected", "error"}
  BY DEF Hear, PollerAt
<1>2. Handling /\ poller.page # <<>> /\ poller \in Poller /\ mem \in PollState /\ mem.dropped \in Nat
  BY <1>1 DEF Handling, Types, PollState
<1>3. CASE q.phase = "error"
  <2>1. RetryLater BY <1>3 DEF Hear
  <2>2. QED BY <1>1, <1>2, <2>1, RetryGivesNothingUp
<1>4. CASE q.phase # "error"
  <2>1. mem' = Verdict(mem, q.phase) /\ poller' = PageGoesOn BY <1>4 DEF Hear
  <2>2. /\ mem' \in PollState /\ mem'.resetAt = mem.resetAt /\ mem'.repos = mem.repos
        /\ mem'.dropped = IF q.phase = "rejected" THEN mem.dropped + 1 ELSE mem.dropped
    BY <1>1, <1>2, <1>4, <2>1 DEF Verdict, Drop, PollState
  <2>3. \A r \in Repos :
           /\ mem'.repos[r].since = mem.repos[r].since
           /\ \A i \in DOMAIN mem'.repos[r].seen :
                 \/ Contains(mem.repos[r].seen, mem'.repos[r].seen[i])
                 \/ r = Target /\ mem'.repos[r].seen[i] = SeenKey(Next1)
    <3>1. \A r \in Repos : mem.repos[r].seen \in Seq(Comments \X Instant)
      BY <1>2 DEF PollState, Cursors
    <3>2. \A r \in Repos : \A i \in DOMAIN mem.repos[r].seen :
             Contains(mem.repos[r].seen, mem.repos[r].seen[i])
      BY <3>1 DEF Contains
    <3>3. mem'.repos = mem.repos BY <2>2
    <3>4. QED BY <3>2, <3>3
  <2>4. /\ poller'.page = Tail(poller.page) /\ poller'.todo = poller.todo
        /\ Bound' = Bound /\ Bound \in Stamp
    BY <1>2, <2>1 DEF PageGoesOn, Poller, Bound
  <2>5. Bound <= Bound BY <2>4 DEF Stamp, Instant, NoTime
  <2>6. \A c \in GivenUp' : /\ c \in ByBot /\ Bad(c)
                            /\ c \in GivenUp \/ Rev(c) = Next1
    BY <1>1, <1>2, <2>2, <2>3, <2>4, <2>5, OnePassed
  <2>7. \A c \in GivenUp' : c \in GivenUp \/ c = Next1.id
    BY <2>6, CurrentFacts DEF Bad
  <2>8. CASE q.phase = "rejected"
    <3>1. CASE Next1.id \in ByBot BY <1>2, <2>2, <2>7, <2>8, <3>1
    <3>2. CASE Next1.id \notin ByBot BY <1>2, <2>2, <2>6, <2>7, <2>8, <3>2
    <3>3. QED BY <3>1, <3>2
  <2>9. CASE q.phase # "rejected"
    <3>1. q.rev = Next1 /\ q.rev.body.kind = "score"
      BY <1>1, <1>4, <2>9 DEF OneCall, KindsHeard
    <3>2. \A c \in GivenUp' : Rev(c) # Next1 BY <2>6, <3>1, CurrentFacts DEF Bad
    <3>3. QED BY <1>2, <2>2, <2>6, <2>9, <3>2
  <2>10. QED BY <2>8, <2>9
<1>5. QED BY <1>3, <1>4

\* The scorer answers, or fails, the request the poller waits for; it never
\* forgets it.
LEMMA HeardGoOn ==
    ASSUME DeliveryInv, ScorerStep \/ ScorerCrash
    PROVE  \A rev : BeingSubmitted(rev) => BeingSubmitted(rev)'
<1> SUFFICES ASSUME NEW q \in calls, q.heard PROVE \E p \in calls' : p.heard /\ p.rev = q.rev
  BY DEF BeingSubmitted
<1>1. \A p \in calls : p \in Call BY DEF DeliveryInv, Types
<1>2. CASE ScorerCrash
  <2>1. [q EXCEPT !.phase = "error"] \in calls' BY <1>2 DEF ScorerCrash
  <2>2. QED BY <1>1, <2>1 DEF Call
<1>3. CASE ScorerStep
  <2>1. PICK p \in calls : Judge(p) \/ RecordSolves(p) BY <1>3 DEF ScorerStep
  <2>2. CASE p # q BY <2>1, <2>2 DEF Judge, RecordSolves, Answer
  <2>3. CASE p = q
    <3> DEFINE t == ScoreTime(q.rev.at, now, MaxFutureSkew)
               Answered(phase) == [q EXCEPT !.phase = phase]
               Writing(b) == [q EXCEPT !.phase = "writing", !.iso = t, !.blind = b]
    <3>1. \/ \E phase \in {"rejected", "error", "refused", "accepted"} : Answer(q, phase)
          \/ \E b \in BOOLEAN : calls' = (calls \ {q}) \union {Writing(b)}
      BY <2>1, <2>3 DEF Judge, RecordSolves
    <3>2. \A phase : Answer(q, phase) => Answered(phase) \in calls' BY DEF Answer
    <3>3. \A phase : Answered(phase).heard /\ Answered(phase).rev = q.rev BY <1>1 DEF Call
    <3>4. \A b : Writing(b).heard /\ Writing(b).rev = q.rev BY <1>1 DEF Call
    <3> HIDE DEF Answered, Writing
    <3>5. CASE \E phase \in {"rejected", "error", "refused", "accepted"} : Answer(q, phase)
      BY <3>2, <3>3, <3>5
    <3>6. CASE \E b \in BOOLEAN : calls' = (calls \ {q}) \union {Writing(b)}
      BY <3>4, <3>6
    <3>7. QED BY <3>1, <3>5, <3>6
  <2>4. QED BY <2>2, <2>3
<1>4. QED BY <1>2, <1>3

\* What a step may do to what is given up on, and to the count of it.
LEMMA MemCounts ==
    ASSUME DeliveryInv, KindsHeard, [Next]_vars
    PROVE  /\ mem.dropped \in Nat /\ durable.dropped \in Nat /\ mem'.dropped \in Nat
           /\ \/ mem'.dropped = mem.dropped /\ GivenUp' \subseteq GivenUp
              \/ mem'.dropped = mem.dropped + 1 /\ GivenUp' \subseteq GivenUp
              \/ mem'.dropped = mem.dropped + 1 /\ \E c \in ByBot : GivenUp' \subseteq GivenUp \union {c}
              \/ mem'.dropped = durable.dropped /\ GivenUp' \subseteq GivenUpSaved
              \/ GivenUp' = {}
<1>1. mem.dropped \in Nat /\ durable.dropped \in Nat BY DEF DeliveryInv, Types, PollState
<1>2. mem'.dropped \in Nat BY NextInv DEF DeliveryInv, Types, PollState
<1>3. CASE \E c \in Comments, b \in Bodies : Upsert(c, b)
  <2>1. PICK c \in Comments, b \in Bodies : Upsert(c, b) BY <1>3
  <2>2. mem' = mem BY <2>1 DEF Upsert
  <2>3. QED BY <1>1, <1>2, <2>1, <2>2, UpsertGivesNothingUp
<1>4. CASE Boot
  <2>1. /\ mem' = durable /\ UNCHANGED <<comment, wipedAt>>
        /\ poller.pc = "down" /\ poller' = AtRest("idle")
    BY <1>4 DEF Boot, PollerOnly, PollerAt
  <2>2. poller'.pc = "idle" BY <2>1 DEF AtRest
  <2>3. \A c \in ByBot : ~Passed(c)' BY <2>2 DEF Passed, Handling
  <2>4. GivenUp' \subseteq GivenUpSaved
    BY <2>1, <2>3 DEF GivenUp, GivenUpSaved, Bad, Posted, Consumed, Predates, Rev
  <2>5. QED BY <1>1, <1>2, <2>1, <2>4
<1>5. CASE \E l \in TargetLists : StartTick(l)
  <2>1. PICK l \in TargetLists : StartTick(l) BY <1>5
  <2>2. /\ UNCHANGED <<comment, wipedAt>>
        /\ poller.pc = "idle" /\ poller' = [AtRest("poll") EXCEPT !.todo = l]
        /\ HonourReset(settings.resetAt) \/ HonourReset(NoTime)
    BY <2>1 DEF StartTick, PollerOnly, PollerAt
  <2>3. poller'.pc = "poll" BY <2>2 DEF AtRest
  <2>4. CASE mem' = mem BY <1>1, <1>2, <2>2, <2>3, <2>4, RestGivesNothingUp
  <2>5. CASE mem' # mem
    <3>1. PICK epoch \in {settings.resetAt, NoTime} :
             mem' = [mem EXCEPT !.repos = FreshState.repos, !.resetAt = epoch]
      BY <2>2, <2>5 DEF HonourReset
    <3>2. mem'.repos = FreshState.repos BY <3>1 DEF DeliveryInv, Types, PollState
    <3>3. QED BY <1>1, <1>2, <2>2, <2>3, <3>2, NoCursorsNothingGivenUp
  <2>6. QED BY <2>4, <2>5
<1>6. CASE TargetsUnreadable \/ FetchFails \/ Save
  <2>1. UNCHANGED <<comment, mem, wipedAt>> /\ poller.pc # "await"
    BY <1>6 DEF TargetsUnreadable, FetchFails, Save, PollerOnly, PollerAt
  <2>2. poller'.pc \notin {"handle", "await"}
    BY <1>6, RestingPlaces DEF TargetsUnreadable, FetchFails, Save, PollerAt, DeliveryInv
  <2>3. QED BY <1>1, <1>2, <2>1, <2>2, RestGivesNothingUp
<1>7. CASE Fetch
  <2>1. mem' = mem BY <1>7 DEF Fetch
  <2>2. QED BY <1>1, <1>2, <1>7, <2>1, FetchGivesNothingUp
<1>8. CASE SkipComment BY <1>1, <1>2, <1>8, SkipCounts
<1>9. CASE Submit BY <1>1, <1>2, <1>9, SubmitGivesNothingUp
<1>10. CASE \E q \in calls : Hear(q) BY <1>1, <1>2, <1>10, HearCounts
<1>11. CASE \E q \in calls : LoseAnswer(q)
  <2>1. poller.pc = "await" /\ RetryLater /\ UNCHANGED <<comment, wipedAt>>
    BY <1>11 DEF LoseAnswer, PollerAt
  <2>2. QED BY <1>1, <1>2, <2>1, RetryGivesNothingUp
<1>12. CASE FinishPage BY <1>1, <1>2, <1>12, FinishGivesNothingUp
<1>13. CASE PollerCrash
  <2>1. /\ UNCHANGED comment /\ mem' = FreshState /\ poller' = AtRest("down")
    BY <1>13 DEF PollerCrash
  <2>2. poller'.pc = "down" BY <2>1 DEF AtRest
  <2>3. QED BY <1>1, <1>2, <2>1, <2>2, NoCursorsNothingGivenUp
<1>14. CASE ScorerStep \/ ScorerCrash
  <2>1. UNCHANGED <<comment, mem, poller, wipedAt>>
    BY <1>14 DEF ScorerStep, Judge, RecordSolves, ScorerOnly, ScorerCrash
  <2>2. QED BY <1>1, <1>2, <1>14, <2>1, HeardGoOn, NothingGivenUp
<1>15. CASE (\E a \in Admins : OrganizerStep(a)) \/ TimePasses \/ UNCHANGED vars
  <2>1. UNCHANGED <<comment, mem, poller, calls>> /\ (wipedAt' = wipedAt \/ wipedAt' = now)
    BY <1>15 DEF OrganizerStep, TimePasses, vars, pipelineVars
  <2>2. \A rev : BeingSubmitted(rev) => BeingSubmitted(rev)' BY <2>1 DEF BeingSubmitted
  <2>3. QED BY <1>1, <1>2, <2>1, <2>2, NothingGivenUp
<1>16. QED
  BY <1>3, <1>4, <1>5, <1>6, <1>7, <1>8, <1>9, <1>10, <1>11, <1>12, <1>13, <1>14, <1>15
     DEF Next, PollerStep

\* The same of what the next restart resumes from.
LEMMA SavedCounts ==
    ASSUME DeliveryInv, [Next]_vars
    PROVE  \/ durable' = durable /\ GivenUpSaved' \subseteq GivenUpSaved
           \/ durable' = mem /\ GivenUpSaved' \subseteq GivenUp
<1>1. CASE \E c \in Comments, b \in Bodies : Upsert(c, b)
  <2>1. PICK c \in Comments, b \in Bodies : Upsert(c, b) BY <1>1
  <2>2. durable' = durable BY <2>1 DEF Upsert
  <2>3. QED BY <2>1, <2>2, UpsertGivesNothingUp
<1>2. CASE Save /\ durable' = mem
  <2>1. UNCHANGED <<comment, wipedAt>> /\ poller.pc = "save" BY <1>2 DEF Save, PollerAt
  <2>2. \A rev : ~BeingSubmitted(rev) BY <2>1, NobodyListens
  <2>3. GivenUpSaved' \subseteq GivenUp
    BY <1>2, <2>1, <2>2 DEF GivenUp, GivenUpSaved, Bad, Posted, Consumed, Predates, Rev
  <2>4. QED BY <1>2, <2>3
<1>3. CASE /\ ~ \E c \in Comments, b \in Bodies : Upsert(c, b)
           /\ ~(Save /\ durable' = mem)
  <2>1. UNCHANGED <<comment, durable>> /\ (wipedAt' = wipedAt \/ wipedAt' = now)
    BY <1>3 DEF Next, vars, pipelineVars, PollerStep, Boot, StartTick, TargetsUnreadable, Fetch,
           FetchFails, SkipComment, Submit, Hear, LoseAnswer, FinishPage, Save, PollerOnly, PollerCrash,
           ScorerStep, Judge, RecordSolves, ScorerOnly, ScorerCrash, OrganizerStep, TimePasses
  <2>2. \A c \in ByBot : Bad(c) => (Predates(durable, Rev(c)) => Predates(durable, Rev(c))')
    <3> SUFFICES ASSUME NEW c \in ByBot, Bad(c), Predates(durable, Rev(c))
                 PROVE  Predates(durable, Rev(c))'
      OBVIOUS
    <3>1. /\ Rev(c).at \in Nat /\ Rev(c).at = comment[c].at /\ comment[c].at <= GitHubNow
      BY CurrentFacts DEF Bad, DeliveryInv, Timely
    <3>2. Rev(c)' = Rev(c) BY <2>1 DEF Rev
    <3>3. now \in Nat /\ GitHubNow <= now + GitHubSkew /\ GitHubNow \in Nat /\ GitHubSkew \in Nat
      BY GitHubClock, PipelineAssumption DEF DeliveryInv, AdminInv, AdminTypeOK, Instant
    <3>4. wipedAt' = now => wipedAt' # NoTime /\ Rev(c).at <= wipedAt' + GitHubSkew
      BY <3>1, <3>3 DEF NoTime
    <3>5. QED BY <2>1, <3>2, <3>4 DEF Predates
  <2>3. QED BY <2>1, <2>2, SavedStays
<1>4. QED BY <1>1, <1>2, <1>3

LEMMA CountedInv ==
    ASSUME DeliveryInv, Counted, [Next]_vars
    PROVE  Counted'
<1>1. KindsHeard BY DEF Counted
<1>2. KindsHeard' BY <1>1, KindsHeardInv
<1>3. /\ GivenUp \subseteq ByBot /\ GivenUpSaved \subseteq ByBot
      /\ GivenUp' \subseteq ByBot /\ GivenUpSaved' \subseteq ByBot
  BY DEF GivenUp, GivenUpSaved
<1>4. Cardinality(GivenUp) <= mem.dropped /\ Cardinality(GivenUpSaved) <= durable.dropped
  BY DEF Counted
<1>5. mem.dropped \in Nat /\ durable.dropped \in Nat /\ mem'.dropped \in Nat BY <1>1, MemCounts
<1> DEFINE G == GivenUp
           S == GivenUpSaved
<1>6. Cardinality(G') <= mem'.dropped
  <2>1. \A T \in {G, S}, n \in {mem.dropped, durable.dropped} : Cardinality(T) <= n =>
           /\ G' \subseteq T => Cardinality(G') <= n
           /\ \A c \in ByBot : G' \subseteq T \union {c} => Cardinality(G') <= n + 1
           /\ G' = {} => \A m \in Nat : Cardinality(G') <= m
    BY <1>3, <1>5, FewerCounted
  <2>2. \/ mem'.dropped = mem.dropped /\ G' \subseteq G
        \/ mem'.dropped = mem.dropped + 1 /\ G' \subseteq G
        \/ mem'.dropped = mem.dropped + 1 /\ \E c \in ByBot : G' \subseteq G \union {c}
        \/ mem'.dropped = durable.dropped /\ G' \subseteq S
        \/ G' = {}
    BY <1>1, MemCounts
  <2>3. mem'.dropped = mem.dropped + 1 /\ G' \subseteq G => Cardinality(G') <= mem'.dropped
    <3>1. IsFiniteSet(G')
      <4>1. IsFiniteSet(Comments) /\ ByBot \subseteq Comments BY PipelineAssumption
      <4>2. G' \subseteq Comments BY <1>3, <4>1
      <4>3. QED BY <4>1, <4>2, FS_Subset
    <3>2. Cardinality(G') \in Nat BY <3>1, FS_CardinalityType
    <3>3. G' \subseteq G => Cardinality(G') <= mem.dropped BY <1>4, <2>1
    <3>4. QED BY <1>5, <3>2, <3>3
  <2> HIDE DEF G, S
  <2>4. QED BY <1>4, <1>5, <2>1, <2>2, <2>3 DEF G, S
<1>7. Cardinality(S') <= durable'.dropped
  <2>1. \A T \in {G, S}, n \in {mem.dropped, durable.dropped} : Cardinality(T) <= n =>
           (S' \subseteq T => Cardinality(S') <= n)
    BY <1>3, <1>5, FewerCounted
  <2>2. \/ durable' = durable /\ S' \subseteq S
        \/ durable' = mem /\ S' \subseteq G
    BY SavedCounts
  <2>3. QED BY <1>4, <2>1, <2>2
<1>8. QED BY <1>2, <1>6, <1>7 DEF Counted

LEMMA CountedInit == Init => Counted
<1> SUFFICES ASSUME Init PROVE Counted
  OBVIOUS
<1>1. \A c \in Comments : ~Posted(c) BY DEF Init, Posted
<1>2. GivenUp = {} /\ GivenUpSaved = {}
  BY <1>1, PipelineAssumption DEF GivenUp, GivenUpSaved, Bad
<1>3. Cardinality({}) = 0 BY FS_EmptySet
<1>4. mem.dropped = 0 /\ durable.dropped = 0 BY FreshStateType DEF Init
<1>5. KindsHeard BY DEF Init, KindsHeard
<1>6. QED BY <1>2, <1>3, <1>4, <1>5 DEF Counted

\* What was given up on is at least what is unusable and consumed.
LEMMA CountedImpliesDrops == DeliveryInv /\ Counted => DropsAreCounted
<1> SUFFICES ASSUME DeliveryInv, Counted PROVE DropsAreCounted
  OBVIOUS
<1>1. /\ GivenUp \subseteq ByBot /\ Unusable(mem) \subseteq GivenUp
      /\ GivenUpSaved \subseteq ByBot /\ Unusable(durable) \subseteq GivenUpSaved
  BY DEF GivenUp, GivenUpSaved, Unusable, Bad
<1>2. mem.dropped \in Nat /\ durable.dropped \in Nat BY DEF DeliveryInv, Types, PollState
<1>3. Cardinality(GivenUp) <= mem.dropped /\ Cardinality(GivenUpSaved) <= durable.dropped
  BY DEF Counted
<1>4. Unusable(mem) \subseteq ByBot /\ Unusable(durable) \subseteq ByBot BY <1>1
<1>5. Cardinality(Unusable(mem)) <= mem.dropped BY <1>1, <1>2, <1>3, <1>4, FewerCounted
<1>6. Cardinality(Unusable(durable)) <= durable.dropped BY <1>1, <1>2, <1>3, <1>4, FewerCounted
<1>7. QED BY <1>5, <1>6 DEF DropsAreCounted

(***************************************************************************)
(* Types.                                                                   *)
(***************************************************************************)
\* The dedupe lists stay within their cap.
Capped == \A r \in Repos : /\ Len(mem.repos[r].seen) <= SeenCap
                           /\ Len(durable.repos[r].seen) <= SeenCap

LEMMA CappedInv ==
    ASSUME DeliveryInv, Capped, [Next]_vars
    PROVE  Capped'
<1> USE DEF DeliveryInv
<1>1. /\ mem \in PollState /\ durable \in PollState /\ SeenCap \in Nat \ {0}
      /\ \A r \in Repos : FreshState.repos[r].seen = <<>>
  BY FreshStateType, PipelineAssumption DEF Types
<1>2. Len(<<>>) = 0 OBVIOUS
<1> DEFINE Fits(st) == \A r \in Repos : Len(st.repos[r].seen) <= SeenCap
<1>3. Fits(FreshState) BY <1>1, <1>2
<1>4. Fits(mem) /\ Fits(durable) BY DEF Capped
<1>5. durable' = durable \/ durable' = mem BY SavedCounts
<1>6. Fits(durable') BY <1>4, <1>5
<1>7. ASSUME NEW st \in PollState, Fits(st), Pending
      PROVE  Fits(MarkSeen(st, Target, Next1))
  <2>1. Handling /\ poller.page # <<>> BY <1>7 DEF Pending, PollerAt, Handling
  <2>2. Target \in Repos /\ Next1 \in Revision BY <2>1, Next1Facts
  <2> DEFINE m == MarkSeen(st, Target, Next1)
  <2>3. /\ \A r \in Repos : r # Target => m.repos[r].seen = st.repos[r].seen
        /\ Len(st.repos[Target].seen) <= SeenCap => Len(m.repos[Target].seen) <= SeenCap
    BY <2>2, MarkSeenFacts
  <2> HIDE DEF m
  <2>4. Fits(m) BY <1>7, <2>2, <2>3
  <2>5. QED BY <2>4 DEF m
<1>8. CASE SkipComment \/ Submit
  <2>1. Pending /\ Fits(MarkSeen(mem, Target, Next1))
    BY <1>1, <1>4, <1>7, <1>8 DEF SkipComment, Submit
  <2> DEFINE m == MarkSeen(mem, Target, Next1)
  <2>2. m \in PollState
    <3>1. Handling /\ poller.page # <<>> BY <2>1 DEF Pending, PollerAt, Handling
    <3>2. Target \in Repos /\ Next1 \in Revision BY <3>1, Next1Facts
    <3>3. QED BY <1>1, <3>2, MarkSeenFacts
  <2>3. mem' = m \/ mem' = Drop(m) BY <1>8 DEF SkipComment, Submit, Target
  <2> HIDE DEF m
  <2>4. Drop(m).repos = m.repos BY <2>2 DEF Drop, PollState
  <2>5. Fits(m) BY <2>1 DEF m
  <2>6. Fits(mem') BY <2>3, <2>4, <2>5
  <2>7. QED BY <1>6, <2>6 DEF Capped
<1>9. ASSUME RetryLater, poller.pc = "await" PROVE Fits(mem')
  <2>1. PICK unmarked \in Filtered(Cursor.seen, ToSet(Cursor.seen) \ {SeenKey(Next1)}) :
           mem' = [mem EXCEPT !.repos[Target].seen = unmarked]
    BY <1>9 DEF RetryLater, Target
  <2>2. Target \in Repos /\ Cursor = mem.repos[Target] /\ Cursor.seen \in Seq(Comments \X Instant)
    BY <1>9, CursorFacts
  <2>3. unmarked \in Seq(Comments \X Instant) /\ Len(unmarked) <= Len(Cursor.seen)
    BY <2>2, FilteredFacts
  <2>4. Len(unmarked) <= SeenCap
    <3>1. Len(unmarked) \in Nat /\ Len(Cursor.seen) \in Nat BY <2>2, <2>3
    <3>2. Len(Cursor.seen) <= SeenCap BY <1>4, <2>2
    <3>3. QED BY <1>1, <2>3, <3>1, <3>2
  <2> DEFINE m == [mem EXCEPT !.repos[Target].seen = unmarked]
  <2>5. /\ m.repos[Target].seen = unmarked
        /\ \A x \in Repos : x # Target => m.repos[x].seen = mem.repos[x].seen
    BY <1>1, <2>2 DEF PollState, Cursors
  <2> HIDE DEF m
  <2>6. Fits(m) BY <1>4, <2>4, <2>5
  <2>7. QED BY <2>1, <2>6 DEF m
<1>10. CASE \E q \in calls : Hear(q) \/ LoseAnswer(q)
  <2>1. poller.pc = "await" BY <1>10 DEF Hear, LoseAnswer, PollerAt
  <2>2. PICK q \in calls : Hear(q) \/ LoseAnswer(q) BY <1>10
  <2>3. CASE RetryLater BY <1>6, <1>9, <2>1, <2>3 DEF Capped
  <2>4. CASE ~RetryLater
    <3>1. mem' = Verdict(mem, q.phase) /\ q.phase \in {"accepted", "refused", "rejected"}
      BY <2>2, <2>4 DEF Hear, LoseAnswer
    <3>2. mem'.repos = mem.repos BY <1>1, <3>1 DEF Verdict, Drop, PollState
    <3>3. QED BY <1>4, <1>6, <3>2 DEF Capped
  <2>5. QED BY <2>3, <2>4
<1>11. CASE \E l \in TargetLists : StartTick(l)
  <2>1. mem' = mem \/ \E epoch \in {settings.resetAt, NoTime} :
             mem' = [mem EXCEPT !.repos = FreshState.repos, !.resetAt = epoch]
    BY <1>11 DEF StartTick, HonourReset
  <2>2. mem'.repos = mem.repos \/ mem'.repos = FreshState.repos BY <1>1, <2>1 DEF PollState
  <2>3. QED BY <1>3, <1>4, <1>6, <2>2 DEF Capped
<1>12. CASE FinishPage
  <2>1. /\ poller.pc = "handle"
        /\ mem' = [mem EXCEPT
              !.repos[Target].since = Bound,
              !.repos[Target].etag  = IF poller.stopAt # NoTime THEN {} ELSE poller.etag]
    BY <1>12 DEF FinishPage, PollerAt, Target, Bound
  <2> DEFINE e == IF poller.stopAt # NoTime THEN {} ELSE poller.etag
             m == [mem EXCEPT !.repos[Target].since = Bound, !.repos[Target].etag = e]
  <2>2. mem' = m BY <2>1
  <2> HIDE DEF e
  <2>3. \A x \in Repos : m.repos[x].seen = mem.repos[x].seen
    BY <1>1 DEF PollState, Cursors
  <2> HIDE DEF m
  <2>4. QED BY <1>4, <1>6, <2>2, <2>3 DEF Capped
<1>13. CASE Boot \/ PollerCrash
  <2>1. mem' = durable \/ mem' = FreshState BY <1>13 DEF Boot, PollerCrash
  <2>2. QED BY <1>3, <1>4, <1>6, <2>1 DEF Capped
<1>14. CASE mem' = mem BY <1>4, <1>6, <1>14 DEF Capped
<1>15. \/ mem' = mem
       \/ \E l \in TargetLists : StartTick(l)
       \/ \E q \in calls : Hear(q) \/ LoseAnswer(q)
       \/ SkipComment \/ Submit \/ FinishPage \/ Boot \/ PollerCrash
  BY DEF Next, vars, pipelineVars, PollerStep, TargetsUnreadable, Fetch, FetchFails, Save, Upsert,
         ScorerStep, Judge, RecordSolves, ScorerOnly, ScorerCrash, OrganizerStep, TimePasses
<1>16. QED BY <1>8, <1>10, <1>11, <1>12, <1>13, <1>14, <1>15

LEMMA TypesImplyTypeOK == DeliveryInv /\ Capped => TypeOK
<1> SUFFICES ASSUME DeliveryInv, Capped PROVE TypeOK
  OBVIOUS
<1> USE DEF DeliveryInv
<1>1. AdminTypeOK BY DEF AdminInv
<1>2. ASSUME NEW st \in {mem, durable}
      PROVE  /\ st.ingested \in Nat /\ st.dropped \in Nat /\ st.resetAt \in Stamp
             /\ \A r \in Repos :
                   /\ st.repos[r].since \in Stamp
                   /\ Len(st.repos[r].seen) <= SeenCap
                   /\ st.repos[r].seen \in Seq(Comments \X Instant)
  BY DEF Types, Capped, PollState, Cursors
<1>3. PollerAt("await") <=> Cardinality({q \in calls : q.heard}) = 1
  <2> DEFINE H == {q \in calls : q.heard}
  <2>1. CASE PollerAt("await")
    <3>1. PICK q \in calls : q.heard BY <2>1 DEF OneCall, PollerAt
    <3>2. H = {q} BY <3>1 DEF OneCall
    <3>3. Cardinality({q}) = 1 BY FS_Singleton
    <3>4. QED BY <2>1, <3>2, <3>3
  <2>2. CASE ~PollerAt("await")
    <3>1. H = {} BY <2>2 DEF OneCall, PollerAt
    <3>2. Cardinality({}) = 0 BY FS_EmptySet
    <3>3. QED BY <2>2, <3>1, <3>2
  <2>3. QED BY <2>1, <2>2
<1>4. QED BY <1>1, <1>2, <1>3 DEF TypeOK, Types, Poller

\* Nothing the poller gives up on goes uncounted, in the process or across a
\* restart, however the scorer and the poller fail; the dedupe lists stay
\* within their cap, one request is listened to at a time, and no solve is
\* timed in the future: PipelineInv.
THEOREM PipelineIsSound == Spec => []PipelineInv
<1> DEFINE Inv == Counted /\ Capped
<1>1. Init => Inv
  <2>1. Init => Capped
    <3>1. SeenCap \in Nat \ {0} /\ Len(<<>>) = 0 BY PipelineAssumption
    <3>2. \A r \in Repos : FreshState.repos[r].seen = <<>> BY FreshStateType
    <3>3. QED BY <3>1, <3>2 DEF Init, Capped
  <2>2. QED BY <2>1, CountedInit
<1>2. DeliveryInv /\ Inv /\ [Next]_vars => Inv' BY CountedInv, CappedInv
<1>3. DeliveryInv /\ Inv => PipelineInv
  BY CountedImpliesDrops, TypesImplyTypeOK DEF PipelineInv, DeliveryInv, OnTime
<1> HIDE DEF Inv
<1>4. QED BY <1>1, <1>2, <1>3, DeliveryIsInvariant, PTL DEF Spec
=============================================================================
