------------------------------ MODULE Graders ------------------------------
(***************************************************************************)
(* The three graders of the web app: jeopardy flags (classic-store.ts),     *)
(* quiz answers (quiz-store.ts) and AI challenges (ai-store.ts).  A behaviour *)
(* is the history of one module, `mod`; the three keep the same keys under   *)
(* their own prefixes.                                                       *)
(*                                                                         *)
(* A submission is a request that reads the settings, then the contestant's *)
(* rows, then (classic) the records, the stories and the roster, takes the  *)
(* time and at last runs one script.  Requests of several tabs, teammates   *)
(* and tasks interleave between those round trips, and with organizers who  *)
(* edit an item, reset a contestant or wipe the event.  Upstash runs a       *)
(* pipeline's commands in order but not as one: other scripts run between.   *)
(***************************************************************************)
EXTENDS Integers, Sequences, FiniteSets, Functions

CONSTANTS
    Modules,          \* the graders a behaviour may be of: classic, quiz, ai
    Logins, Items,
    Forms, Key,       \* answers a contestant may give, normalized; the authored one
    Records,          \* catalogue records an organizer may write
    Catalogues,       \* the catalogues an event may open with: [Items -> Records]
    Chain,            \* the steps of the one story, in order: a sequence of items
    Slots,            \* requests in flight
    NoRecord, NoAnswer, NoRow, NoTeam, Teams,
    Launch,           \* the settings before an organizer changes them
    Settings,         \* settings an organizer may save
    BakedSettings,    \* the defaults used when the settings cannot be read
    Rosters,          \* the teams an event may open with
    Allowances,       \* the submissions a behaviour may have, and how many of
                      \* each kind of event
    MaxTime

Nothing == [phase |-> "free"]
Submissions == [login : Logins, item : Items, form : Forms, dry : BOOLEAN, event : BOOLEAN]
Rows  == [points : Nat, at : Nat]
Spent == [n : Nat, lastAt : Nat]
Limits == Settings \union {Launch, BakedSettings}

ASSUME GraderAssumption ==
    /\ Modules \subseteq {"classic", "quiz", "ai"} /\ MaxTime \in Nat
    /\ IsFiniteSet(Logins) /\ IsFiniteSet(Items) /\ IsFiniteSet(Settings)
    /\ Key \in Forms /\ NoTeam \in Teams /\ Chain \in Seq(Items)
    /\ Limits \subseteq [open : BOOLEAN, cooldown : Nat, cap : Nat]
    /\ \A r \in Records : r.points \in Nat
    /\ Catalogues \subseteq [Items -> Records \union {NoRecord}]
    /\ Rosters \subseteq [Logins -> [slug : Teams, since : Nat]]
    /\ \A a \in Allowances : "subs" \in DOMAIN a /\ a.subs \subseteq Submissions
    /\ NoRow \notin Nat \union Items \union Rows \union Spent

VARIABLES
    mod,
    clock,
    setting,      \* [open, cooldown, cap]: cap 0 is no cap
    record,       \* ctf:<mod>:challenges (or questions)
    answer,       \* ctf:<mod>:flagnorm (or key)
    solves,       \* ctf:<mod>:solves:<login> (or answers): [points, at]
    attempts,     \* ctf:<mod>:attempts:<login>: [n, lastAt]
    points,       \* ctf:<mod>:points
    solved,       \* ctf:<mod>:solved (or answered)
    solvecount,   \* ctf:<mod>:solvecount: none for the quiz
    lastAt,       \* ctf:<mod>:lastAt
    team,         \* ctf:user:<login>: team, and since when
    req,          \* the requests in flight
    authoring,    \* the commands an organizer's edit has still to run
    clearing,     \* the commands of a contestant's reset still to run (quiz)
    wiping,       \* the commands of the master reset still to run
    left,         \* what is left of the behaviour's allowance
    torn,         \* history: an award landed between the commands of a reset
    shifted       \* history: someone changed team, or an item was edited

rows   == <<solves, attempts>>
sums   == <<points, solved, solvecount, lastAt>>
store  == <<rows, sums>>
event  == <<mod, clock, setting>>
board  == <<record, answer>>
jobs   == <<authoring, clearing, wiping>>
graderVars == <<event, board, store, team, req, jobs, left, torn, shifted>>

\* An event-only AI challenge has no flag.
AnswerOf(rec, form) == IF mod = "ai" /\ rec.mode = "event" THEN NoAnswer ELSE form

Spends(kind) == left[kind] > 0 /\ left' = [left EXCEPT ![kind] = @ - 1]
Wiping   == wiping # <<>>
Clearing == clearing # <<>>

GraderInit ==
    /\ mod \in Modules
    /\ clock = 0
    /\ setting = Launch
    /\ record \in Catalogues
    /\ answer = [i \in Items |-> AnswerOf(record[i], Key)]
    /\ solves = [l \in Logins |-> [i \in Items |-> NoRow]]
    /\ attempts = [l \in Logins |-> [i \in Items |-> NoRow]]
    /\ points = [l \in Logins |-> 0]
    /\ solved = [l \in Logins |-> 0]
    /\ solvecount = [i \in Items |-> 0]
    /\ lastAt = [l \in Logins |-> NoRow]
    /\ team \in Rosters
    /\ req = [s \in Slots |-> Nothing]
    /\ authoring = <<>> /\ clearing = <<>> /\ wiping = <<>>
    /\ left \in Allowances
    /\ torn = FALSE /\ shifted = FALSE
-----------------------------------------------------------------------------
(***************************************************************************)
(* The scripts.  r is the request: what its ARGV and KEYS carry.            *)
(***************************************************************************)
Solved(r)  == solves[r.login][r.item] # NoRow
Tries(r)   == IF attempts[r.login][r.item] = NoRow THEN 0 ELSE attempts[r.login][r.item].n
Exhausted(r) == r.cap > 0 /\ Tries(r) >= r.cap
Cooling(r, now) ==
    /\ r.cooldown > 0 /\ Tries(r) > 0
    /\ now < attempts[r.login][r.item].lastAt + r.cooldown
Worth(i)   == IF record[i] = NoRecord THEN 0 ELSE record[i].points

\* classicHidden: a record that is missing is not hidden.
Hidden(i) == record[i] # NoRecord /\ ~record[i].shown

\* storyLockLua: a member opens the step if the script finds the row of the
\* step before it, and the member's own record still names the viewer's team
\* since before that solve.
Opens(m, r) ==
    /\ solves[m][r.prereq] # NoRow
    /\ IF team[m].slug = NoTeam THEN r.crew = NoTeam
       ELSE team[m].slug = r.crew /\ solves[m][r.prereq].at >= team[m].since
Locked(r) == r.prereq \in Items /\ ~\E m \in r.mates : Opens(m, r)

\* Defect: the script trusts the gate with the cooldown.
SubmitVerdictNoCooldown(r) ==
    IF ~r.dry /\ Hidden(r.item) THEN "missing"
    ELSE IF Solved(r) THEN "already"
    ELSE IF ~r.dry /\ Locked(r) THEN "locked"
    ELSE IF answer[r.item] = NoAnswer THEN "missing"
    ELSE IF answer[r.item] # r.form THEN "incorrect" ELSE "correct"

\* Defect: the script trusts the page to hide a locked step.
SubmitVerdictNoLock(r) ==
    IF ~r.dry /\ Hidden(r.item) THEN "missing"
    ELSE IF Solved(r) THEN "already"
    ELSE IF answer[r.item] = NoAnswer THEN "missing"
    ELSE IF ~r.dry /\ Cooling(r, r.now) THEN "cooldown"
    ELSE IF answer[r.item] # r.form THEN "incorrect" ELSE "correct"

SubmitVerdict(r) ==
    IF ~r.dry /\ Hidden(r.item) THEN "missing"
    ELSE IF Solved(r) THEN "already"
    ELSE IF ~r.dry /\ Locked(r) THEN "locked"
    ELSE IF answer[r.item] = NoAnswer THEN "missing"
    ELSE IF ~r.dry /\ Cooling(r, r.now) THEN "cooldown"
    ELSE IF answer[r.item] # r.form THEN "incorrect" ELSE "correct"

GradeVerdict(r) ==
    IF answer[r.item] = NoAnswer THEN "missing"
    ELSE IF Solved(r) THEN "already"
    ELSE IF ~r.dry /\ Exhausted(r) THEN "exhausted"
    ELSE IF ~r.dry /\ Cooling(r, r.now) THEN "cooldown"
    ELSE IF answer[r.item] # r.form THEN "incorrect" ELSE "correct"

\* Defect: the script trusts the gate that the item is not solved yet.
AwardVerdictAgain(r) ==
    IF record[r.item] = NoRecord THEN "missing"
    ELSE IF r.event THEN IF record[r.item].mode = "flag" THEN "mode" ELSE "correct"
    ELSE IF answer[r.item] = NoAnswer THEN "missing"
    ELSE IF ~r.dry /\ Cooling(r, r.now) THEN "cooldown"
    ELSE IF answer[r.item] # r.form THEN "incorrect" ELSE "correct"

AwardVerdict(r) ==
    IF record[r.item] = NoRecord THEN "missing"
    ELSE IF Solved(r) THEN "already"
    ELSE IF r.event THEN IF record[r.item].mode = "flag" THEN "mode" ELSE "correct"
    ELSE IF answer[r.item] = NoAnswer THEN "missing"
    ELSE IF ~r.dry /\ Cooling(r, r.now) THEN "cooldown"
    ELSE IF answer[r.item] # r.form THEN "incorrect" ELSE "correct"

\* An answer that was compared spends an attempt, right or wrong.
SpendAttempt(r, verdict) ==
    attempts' = IF verdict \in {"correct", "incorrect"} /\ ~r.dry /\ ~r.event
                THEN [attempts EXCEPT ![r.login][r.item] = [n |-> Tries(r) + 1, lastAt |-> r.now]]
                ELSE attempts

\* The solve row and the totals; the latest award time is kept, since two
\* scripts may run in the other order than their requests took the time.
BankSolve(r) ==
    /\ solves' = [solves EXCEPT ![r.login][r.item] = [points |-> Worth(r.item), at |-> r.now]]
    /\ points' = [points EXCEPT ![r.login] = @ + Worth(r.item)]
    /\ solved' = [solved EXCEPT ![r.login] = @ + 1]
    /\ lastAt' = [lastAt EXCEPT ![r.login] = IF @ = NoRow \/ @ < r.now THEN r.now ELSE @]
    /\ torn' = (torn \/ Wiping \/ Clearing)
CountSolver(r) == solvecount' = [solvecount EXCEPT ![r.item] = @ + 1]

Banks(r, verdict) == verdict = "correct" /\ ~r.dry
-----------------------------------------------------------------------------
(***************************************************************************)
(* A request, from its arrival to its script.                               *)
(***************************************************************************)
Requests == [phase : {"gate", "story", "script"}, login : Logins, item : Items, form : Forms,
             dry : BOOLEAN, event : BOOLEAN, cooldown : Nat, cap : Nat, now : Nat,
             cooling : BOOLEAN, done : BOOLEAN,
             prereq : Items \union {NoRow}, crew : Teams, mates : SUBSET Logins]

\* The settings are read first: a failed read is live scoring under the baked
\* limits.  A preview is not refused by a closed event.  A signed event has no
\* wrong answer: no cooldown, and no form that counts.
Arrive(s, sub) ==
    /\ req[s] = Nothing /\ Spends("requests")
    /\ sub.event => mod = "ai"
    /\ \E read \in {setting, BakedSettings} :
          /\ read # setting => left.faults > 0
          /\ sub.dry \/ read.open
          /\ req' = [req EXCEPT ![s] =
                [phase |-> "gate", login |-> sub.login, item |-> sub.item, form |-> sub.form,
                 dry |-> sub.dry, event |-> sub.event,
                 cooldown |-> IF sub.event THEN 0 ELSE read.cooldown,
                 cap |-> IF mod = "quiz" THEN read.cap ELSE 0,
                 now |-> 0, cooling |-> FALSE, done |-> FALSE,
                 prereq |-> NoRow, crew |-> NoTeam, mates |-> {}]]
    /\ UNCHANGED <<event, board, store, team, jobs, torn, shifted>>

Refuse(s) == req' = [req EXCEPT ![s] = Nothing]
Enter(s, phase, now) == req' = [req EXCEPT ![s] = [@ EXCEPT !.phase = phase, !.now = now]]

\* evaluateGate's look at the rows, outside the script.  Classic carries a
\* "solved" or "cooldown" on to the story read, which may leave it to the script.
ClassicGate(s) ==
    /\ mod = "classic"
    /\ LET r == req[s] IN
       req' = [req EXCEPT ![s] = [r EXCEPT !.phase = "story", !.done = Solved(r),
                                           !.cooling = ~r.dry /\ ~Solved(r) /\ Cooling(r, clock)]]

QuizGate(s) ==
    /\ mod = "quiz"
    /\ LET r == req[s] IN
       IF Solved(r) \/ (~r.dry /\ (Exhausted(r) \/ Cooling(r, clock)))
       THEN Refuse(s) ELSE Enter(s, "script", clock)

AiGate(s) ==
    /\ mod = "ai"
    /\ LET r == req[s] IN
       IF Solved(r) \/ (~r.dry /\ Cooling(r, clock)) THEN Refuse(s) ELSE Enter(s, "script", clock)

Gate(s) ==
    /\ req[s] # Nothing /\ req[s].phase = "gate"
    /\ ClassicGate(s) \/ QuizGate(s) \/ AiGate(s)
    /\ UNCHANGED <<event, board, store, team, jobs, left, torn, shifted>>

\* The visible records decide the chain, so that a hidden or deleted step is
\* skipped; the item itself is always part of it.  A step waits on the last of
\* those before it.
InChain(j, i) == record[j] # NoRecord /\ (~Hidden(j) \/ j = i)
Earlier(i) == {k \in DOMAIN Chain : InChain(Chain[k], i) /\
                 \E n \in DOMAIN Chain : k < n /\ Chain[n] = i /\ InChain(i, i)}
StepBefore(i) ==
    IF Earlier(i) = {} THEN NoRow
    ELSE Chain[CHOOSE k \in Earlier(i) : \A n \in Earlier(i) : n <= k]

Mates(l) == IF team[l].slug = NoTeam THEN {l} ELSE {m \in Logins : team[m].slug = team[l].slug}

\* submitFlag between its gate and its script: stories and records, then the
\* roster.  What the gate refused stays refused, unless telling so would give
\* a hidden or locked step away.
Story(s) ==
    /\ req[s] # Nothing /\ req[s].phase = "story"
    /\ LET r == req[s]
           prereq == StepBefore(r.item)
           concealed == ~r.dry /\ Hidden(r.item)
           deferred == concealed \/ (r.cooling /\ prereq # NoRow)
       IN IF (r.done \/ r.cooling) /\ ~deferred THEN Refuse(s)
          ELSE req' = [req EXCEPT ![s] =
                 [@ EXCEPT !.phase = "script", !.now = clock, !.prereq = prereq,
                           !.crew = IF prereq = NoRow THEN NoTeam ELSE team[r.login].slug,
                           !.mates = IF prereq = NoRow THEN {} ELSE Mates(r.login)]]
    /\ UNCHANGED <<event, board, store, team, jobs, left, torn, shifted>>

Settle(r, verdict, counted) ==
    /\ SpendAttempt(r, verdict)
    /\ IF Banks(r, verdict)
       THEN BankSolve(r) /\ (IF counted THEN CountSolver(r) ELSE UNCHANGED solvecount)
       ELSE UNCHANGED <<solves, sums, torn>>

RunSubmit(s) == mod = "classic" /\ Settle(req[s], SubmitVerdict(req[s]), TRUE)
RunGrade(s)  == mod = "quiz"    /\ Settle(req[s], GradeVerdict(req[s]), FALSE)
RunAward(s)  == mod = "ai"      /\ Settle(req[s], AwardVerdict(req[s]), TRUE)

RunScript(s) ==
    /\ req[s] # Nothing /\ req[s].phase = "script"
    /\ RunSubmit(s) \/ RunGrade(s) \/ RunAward(s)
    /\ Refuse(s)
    /\ UNCHANGED <<event, board, team, jobs, left, shifted>>

\* A round trip fails, or the task dies: the request ends where it is.
RequestFails(s) ==
    /\ req[s] # Nothing /\ Spends("faults")
    /\ Refuse(s)
    /\ UNCHANGED <<event, board, store, team, jobs, torn, shifted>>
-----------------------------------------------------------------------------
(***************************************************************************)
(* The organizers, the clock and the roster.                                *)
(***************************************************************************)
SaveSettings(new) ==
    /\ setting # new /\ Spends("saves") /\ setting' = new
    /\ UNCHANGED <<mod, clock, board, store, team, req, jobs, torn, shifted>>

\* upsertChallenge, upsertQuestion, upsertAiChallenge: the record, then its
\* answer.
Upsert(i, new, form) ==
    /\ authoring = <<>> /\ Spends("edits")
    /\ authoring' = << [do |-> "record", item |-> i, to |-> new],
                       [do |-> "answer", item |-> i,
                        to |-> AnswerOf(new, form)] >>
    /\ UNCHANGED <<event, board, store, team, req, clearing, wiping, torn, shifted>>

\* deleteChallenge, deleteQuestion, deleteAiChallenge: rows and totals stay.
Delete(i) ==
    /\ authoring = <<>> /\ record[i] # NoRecord /\ Spends("edits")
    /\ authoring' = << [do |-> "record", item |-> i, to |-> NoRecord],
                       [do |-> "answer", item |-> i, to |-> NoAnswer] >>
    /\ UNCHANGED <<event, board, store, team, req, clearing, wiping, torn, shifted>>

RunAuthoring ==
    /\ authoring # <<>>
    /\ LET cmd == Head(authoring) IN
       IF cmd.do = "record"
       THEN record' = [record EXCEPT ![cmd.item] = cmd.to] /\ UNCHANGED answer
       ELSE answer' = [answer EXCEPT ![cmd.item] = cmd.to] /\ UNCHANGED record
    /\ authoring' = Tail(authoring)
    /\ shifted' = TRUE
    /\ UNCHANGED <<event, store, team, req, clearing, wiping, left, torn>>

\* RESET_MODULE_SOLVES_SCRIPT, for classic and AI: one script, which counts a
\* solver less on every item whose row it deletes.
ResetSolves(l) ==
    /\ mod \in {"classic", "ai"} /\ Spends("resets")
    /\ solves' = [solves EXCEPT ![l] = [i \in Items |-> NoRow]]
    /\ attempts' = [attempts EXCEPT ![l] = [i \in Items |-> NoRow]]
    /\ points' = [points EXCEPT ![l] = 0]
    /\ solved' = [solved EXCEPT ![l] = 0]
    /\ lastAt' = [lastAt EXCEPT ![l] = NoRow]
    /\ solvecount' = [i \in Items |-> solvecount[i] - (IF solves[l][i] = NoRow THEN 0 ELSE 1)]
    /\ UNCHANGED <<event, board, team, req, jobs, torn, shifted>>

\* The quiz keys of resetProgressOf: a pipeline, in this order.
QuizClear == <<"rows", "attempts", "points", "solved", "lastAt">>
ResetAnswers(l) ==
    /\ mod = "quiz" /\ ~Clearing /\ Spends("resets")
    /\ clearing' = [k \in DOMAIN QuizClear |-> [do |-> QuizClear[k], of |-> {l}]]
    /\ UNCHANGED <<event, board, store, team, req, authoring, wiping, torn, shifted>>

\* Defect: the totals go first, the rows behind them last.
WipeTotalsFirst ==
    <<"users", "points", "solved">> \o (IF mod = "quiz" THEN <<>> ELSE <<"solvecount">>)
    \o <<"lastAt", "rows", "attempts", "freeze">>

\* RESET_PREFIXES from the users on, for the module's keys, and the script at
\* the end that freezes the event.
WipeOrder ==
    <<"users", "rows", "attempts", "points", "solved">>
    \o (IF mod = "quiz" THEN <<>> ELSE <<"solvecount">>)
    \o <<"lastAt", "freeze">>
StartWipe ==
    /\ ~Wiping /\ Spends("wipes")
    /\ wiping' = [k \in DOMAIN WipeOrder |-> [do |-> WipeOrder[k], of |-> Logins]]
    /\ UNCHANGED <<event, board, store, team, req, authoring, clearing, torn, shifted>>

\* One command of a reset: a key, or a prefix scanned and deleted.
Command(cmd) ==
    LET none == [i \in Items |-> NoRow]
        Less(f, blank) == [l \in Logins |-> IF l \in cmd.of THEN blank ELSE f[l]]
        If(what, then, else) == IF cmd.do = what THEN then ELSE else
    IN /\ team' = If("users", Less(team, [slug |-> NoTeam, since |-> 0]), team)
       /\ solves' = If("rows", Less(solves, none), solves)
       /\ attempts' = If("attempts", Less(attempts, none), attempts)
       /\ points' = If("points", Less(points, 0), points)
       /\ solved' = If("solved", Less(solved, 0), solved)
       /\ solvecount' = If("solvecount", [i \in Items |-> 0], solvecount)
       /\ lastAt' = If("lastAt", Less(lastAt, NoRow), lastAt)
       /\ setting' = If("freeze", [setting EXCEPT !.open = FALSE], setting)
       /\ shifted' = If("users", TRUE, shifted)

RunClear ==
    /\ Clearing /\ Command(Head(clearing)) /\ clearing' = Tail(clearing)
    /\ UNCHANGED <<mod, clock, board, req, authoring, wiping, left, torn>>

RunWipe ==
    /\ Wiping /\ Command(Head(wiping)) /\ wiping' = Tail(wiping)
    /\ UNCHANGED <<mod, clock, board, req, authoring, clearing, left, torn>>

\* A command of the wipe fails: resetEvent throws with the deletes before it
\* standing, and the organizer runs it again from the top.
RunWipeAgain ==
    /\ Wiping /\ Spends("faults")
    /\ wiping' = [k \in DOMAIN WipeOrder |-> [do |-> WipeOrder[k], of |-> Logins]]
    /\ UNCHANGED <<event, board, store, team, req, authoring, clearing, torn, shifted>>

\* A player leaves, joins or moves (team-store.ts): the record is stamped.
ChangeTeam(l, to) ==
    /\ team[l].slug # to /\ Spends("moves")
    /\ team' = [team EXCEPT ![l] = [slug |-> to, since |-> clock]]
    /\ shifted' = TRUE
    /\ UNCHANGED <<event, board, store, req, jobs, torn>>

Tick ==
    /\ clock < MaxTime /\ clock' = clock + 1
    /\ UNCHANGED <<mod, setting, board, store, team, req, jobs, left, torn, shifted>>
-----------------------------------------------------------------------------
GraderNext ==
    \/ \E s \in Slots, sub \in left.subs : Arrive(s, sub)
    \/ \E s \in Slots : Gate(s) \/ Story(s) \/ RunScript(s) \/ RequestFails(s)
    \/ \E new \in Settings : SaveSettings(new)
    \/ \E i \in Items : Delete(i) \/ \E new \in Records, form \in Forms : Upsert(i, new, form)
    \/ \E l \in Logins : ResetSolves(l) \/ ResetAnswers(l) \/ \E to \in Teams : ChangeTeam(l, to)
    \/ RunAuthoring \/ StartWipe \/ RunWipe \/ RunWipeAgain \/ RunClear \/ Tick

GraderSpec == GraderInit /\ [][GraderNext]_graderVars
-----------------------------------------------------------------------------
\* Every key holds what its parser accepts, and every request what its handler
\* read before.
GraderTypeOK ==
    /\ mod \in Modules /\ clock \in 0..MaxTime
    /\ setting \in [open : BOOLEAN, cooldown : Nat, cap : Nat]
    /\ record \in [Items -> Records \union {NoRecord}]
    /\ answer \in [Items -> Forms \union {NoAnswer}]
    /\ solves \in [Logins -> [Items -> Rows \union {NoRow}]]
    /\ attempts \in [Logins -> [Items -> Spent \union {NoRow}]]
    /\ points \in [Logins -> Nat] /\ solved \in [Logins -> Nat] /\ solvecount \in [Items -> Int]
    /\ lastAt \in [Logins -> Nat \union {NoRow}]
    /\ team \in [Logins -> [slug : Teams, since : Nat]]
    /\ req \in [Slots -> Requests \union {Nothing}]
    /\ torn \in BOOLEAN /\ shifted \in BOOLEAN

Banked(l)  == {i \in Items : solves[l][i] # NoRow}
Solvers(i) == {l \in Logins : solves[l][i] # NoRow}
Earned(l)  == SumFunction([i \in Banked(l) |-> solves[l][i].points])
AtRest     == ~Wiping /\ ~Clearing

\* When no reset is under way, no total counts more than the rows behind it
\* ("stale points ... with no answers behind them", admin-store.ts): every
\* reset deletes the rows before the totals, so that an award amid it can only
\* leave a row too many.
TotalsBacked ==
    AtRest => /\ \A l \in Logins : points[l] <= Earned(l) /\ solved[l] <= Cardinality(Banked(l))
              /\ \A i \in Items : solvecount[i] <= Cardinality(Solvers(i))

\* Unless an award fell amid a reset, the totals are exactly the rows, and the
\* award time is that of the latest row, in whatever order the scripts ran.
TotalsExact ==
    AtRest /\ ~torn =>
       /\ \A l \in Logins :
             /\ points[l] = Earned(l) /\ solved[l] = Cardinality(Banked(l))
             /\ IF Banked(l) = {} THEN lastAt[l] = NoRow
                ELSE lastAt[l] \in {solves[l][i].at : i \in Banked(l)}
                     /\ \A i \in Banked(l) : solves[l][i].at <= lastAt[l]
       /\ mod # "quiz" => \A i \in Items : solvecount[i] = Cardinality(Solvers(i))

\* Requests that all read the rows before any script ran cannot spend more
\* attempts than the largest cap any of them was given.
LargestCap == CHOOSE c \in {s.cap : s \in Limits} : \A s \in Limits : s.cap <= c
AttemptsWithinCap ==
    mod = "quiz" /\ (\A s \in Limits : s.cap > 0) =>
       \A l \in Logins, i \in Items : attempts[l][i] # NoRow => attempts[l][i].n <= LargestCap

\* Where every cooldown is positive, two graded attempts of a login on an item
\* are one apart, also when the later script carries the earlier time.
AttemptsSpaced ==
    [][\A l \in Logins, i \in Items :
          /\ \A s \in Limits : s.cooldown > 0
          /\ attempts[l][i] # NoRow /\ attempts'[l][i] # NoRow
          /\ attempts'[l][i] # attempts[l][i]
          => \E s \in Limits : attempts'[l][i].lastAt >= attempts[l][i].lastAt + s.cooldown]_graderVars

\* Keys of their types, totals that are backed, and exact where nothing was torn.
GraderInv == GraderTypeOK /\ TotalsBacked /\ TotalsExact

\* Neither cap nor cooldown is passed by requests that read before either wrote.
AttemptsMetered == []AttemptsWithinCap /\ AttemptsSpaced

\* While nobody moves and no item is edited, a later step of the story is
\* banked only when a member of the solver's team holds the step before it.
StoryInOrder ==
    [][\A l \in Logins, i \in Items :
          /\ mod = "classic" /\ ~shifted /\ StepBefore(i) # NoRow
          /\ solves[l][i] = NoRow /\ solves'[l][i] # NoRow
          => \E m \in Mates(l) : solves[m][StepBefore(i)] # NoRow]_graderVars

\* "Decided inside the script, so a join cannot race it" (classic-team.ts): a
\* step is banked only when the solver's own team holds the step before it.
StepFollowsTeam ==
    [][\A l \in Logins, i \in Items :
          /\ mod = "classic" /\ StepBefore(i) # NoRow
          /\ solves[l][i] = NoRow /\ solves'[l][i] # NoRow
          => \E m \in Mates(l) : solves[m][StepBefore(i)] # NoRow]_graderVars

\* "the question hash and the answer-key hash can never observably disagree"
\* (quiz-store.ts): nothing is banked against an answer without its record.
NoSolveOfADeletedItem ==
    [][\A l \in Logins, i \in Items :
          solves[l][i] = NoRow /\ solves'[l][i] # NoRow => record[i] # NoRecord]_graderVars

\* No item is ever solved by fewer than nobody.
CountsAreNatural == \A i \in Items : solvecount[i] >= 0

\* The grader's keys implement the abstract tally.
Tallied == INSTANCE Tally WITH
    Unbanked <- NoRow, Worths <- {0} \union {r.points : r \in Records}, total <- points,
    bank <- [l \in Logins |-> [i \in Items |->
               IF solves[l][i] = NoRow THEN NoRow ELSE solves[l][i].points]]
ImplementsTally == Tallied!TallySpec
=============================================================================
