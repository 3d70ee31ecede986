------------------------------ MODULE Metrics ------------------------------
(***************************************************************************)
(* computeEventMetrics (metrics-store.ts): an organizer's click reads the    *)
(* box in a dozen round trips while players go on playing, and folds what it *)
(* read into a funnel, a row for each challenge, a timeline and team points. *)
(* A read that fails costs its own figures, and a caveat says so.            *)
(***************************************************************************)
EXTENDS Integers, Sequences, FiniteSets, FiniteSetsExt, SequencesExt, TLC

CONSTANTS
    Names, Player,        \* logins as they are spelt; whose each is
    PlayerOrder,          \* the players in the order of their logins
    Goals, ModuleOf,      \* what can be earned, and in which module
    Boxes,                \* the boxes a behaviour may find, each with its allowance
    MaxContestants, MaxBuckets, BucketWidths, DayWidth,
    Unread, NoTime, NoMetrics, LastTick

VARIABLES
    tick,
    box,       \* what is stored: [rosters, earned, tried, bought, ever, known], by spelling,
               \* and the mode of the board's source
    click,     \* what the reads of the click returned so far
    quietly,   \* nothing has changed since the click
    metrics,   \* what the panel shows
    may
metricsVars == <<tick, box, click, quietly, metrics, may>>

Allowed(kind) == may[kind] > 0 /\ may' = [may EXCEPT ![kind] = @ - 1]
Players == Range(PlayerOrder)
AppModules == {"quiz", "classic", "ai"}
Of(mod) == {g \in Goals : ModuleOf[g] = mod}
SpellingsOf(p) == {n \in Names : Player[n] = p}
Whom(names) == {Player[n] : n \in names}
-----------------------------------------------------------------------------
(***************************************************************************)
(* What the reads return.                                                    *)
(***************************************************************************)
Has(n, g) == box.earned[n][g] # NoTime
\* The hashes of points know whoever earned something in the module, the
\* scorer's answer and the solves of the poller whoever solved a fork's flaw.
PointsRead == [mod \in AppModules |-> [n \in {m \in Names : \E g \in Of(mod) : Has(m, g)} |->
                                           Cardinality({g \in Of(mod) : Has(n, g)})]]
SpentRead == {n \in Names : \E g \in Goals : box.bought[n][g] # NoTime}
ScorerRead == [n \in {m \in Names : \E g \in Of("sd") : Has(m, g)} |->
                  Cardinality({g \in Of("sd") : Has(n, g)})]
SolvesRead == {<<Player[n], g, box.earned[n][g]>> : <<n, g>> \in {<<m, h>> \in Names \X Of("sd") : Has(m, h)}}
OwnRead(n) == [earned |-> [g \in Goals \ Of("sd") |-> box.earned[n][g]], tried |-> box.tried[n],
               bought |-> box.bought[n], ever |-> n \in box.ever]
\* The board, when it can be read: a goal counts once for a team (Board).
BoardRead ==
    [s \in DOMAIN box.rosters |->
        Cardinality({g \in Goals : \E n \in box.rosters[s] : Has(n, g)})]

Round == <<"teams", "totals", "scorer", "solves", "users", "own", "board">>
Answer(read) ==
    CASE read = "teams"  -> box.rosters
      [] read = "totals" -> [points |-> PointsRead, spent |-> SpentRead, whole |-> TRUE]
      [] read = "scorer" -> IF box.mode = "live" THEN ScorerRead ELSE <<>>
      [] read = "solves" -> SolvesRead
      [] read = "users"  -> box.known
      [] read = "board"  -> BoardRead
-----------------------------------------------------------------------------
(***************************************************************************)
(* Whom the fold is of.                                                      *)
(***************************************************************************)
Or(value, otherwise) == IF value = Unread THEN otherwise ELSE value
Rostered(c) == UNION Range(c.teams)
Scoring(c) == UNION {DOMAIN c.totals.points[mod] : mod \in AppModules}
SdPlayers(c) == {solve[1] : solve \in Or(c.solves, {})}

\* A player is read under every spelling the box holds for them.
SpeltIn(c) == Rostered(c) \union Scoring(c) \union c.totals.spent
              \union DOMAIN Or(c.scorer, <<>>) \union Or(c.users, {})
Contestants(c) ==
    Whom(Rostered(c) \union Scoring(c) \union DOMAIN Or(c.scorer, <<>>) \union Or(c.users, {}))
    \union SdPlayers(c)

\* Defect: a player is read under the lowercased login alone.
ReadsOfOne(c, p) == {CHOOSE n \in SpellingsOf(p) : TRUE}
ReadsOf(c, p) == SpellingsOf(p) \intersect SpeltIn(c)

InOrder(set) == SelectSeq(PlayerOrder, LAMBDA p : p \in set)
Folded(c) ==
    LET all == InOrder(Contestants(c)) IN ToSet(SubSeq(all, 1, Min({Len(all), MaxContestants})))

\* The rows of a player across the spellings: the first row of an item stays.
MergedRow(c, p, field, g) ==
    LET holding == {n \in ReadsOf(c, p) : c.own[n][field][g] \notin {NoTime, 0}}
    IN  IF holding = {} THEN NoTime ELSE c.own[CHOOSE n \in holding : TRUE][field][g]
EarnedAt(c, p, g) == MergedRow(c, p, "earned", g)
Tries(c, p, g) == LET n == MergedRow(c, p, "tried", g) IN IF n = NoTime THEN 0 ELSE n
AppGoals == Goals \ Of("sd")
-----------------------------------------------------------------------------
(***************************************************************************)
(* The figures.                                                              *)
(***************************************************************************)
HasTried(c, p) == \E g \in AppGoals : Tries(c, p, g) > 0
HasEarned(c, p) ==
    \/ \E g \in AppGoals : EarnedAt(c, p, g) # NoTime
    \/ p \in SdPlayers(c) \/ \E n \in DOMAIN Or(c.scorer, <<>>) : Player[n] = p
Ever(c, p) == \E n \in ReadsOf(c, p) : c.own[n].ever
HowMany(set, what(_)) == Cardinality({e \in set : what(e)})

Funnel(c) ==
    LET all == Folded(c)
        scored == HowMany(all, LAMBDA p : HasEarned(c, p))
        attempted == HowMany(all, LAMBDA p : HasTried(c, p) \/ HasEarned(c, p))
    IN  [onATeam |-> Cardinality(Whom(Rostered(c))), ever |-> HowMany(all, LAMBDA p : Ever(c, p)),
         attempted |-> attempted, scored |-> scored, stuck |-> Max({0, attempted - scored})]

\* Whoever earned it tried it, though no attempt may be on record.
\* Defect: the rate is of those with an attempt on record.
TriersOnRecord(tries, solves) == tries
Triers(tries, solves) == Max({tries, solves})
Stat(c, g) ==
    LET solvers == {p \in Folded(c) : EarnedAt(c, p, g) # NoTime}
        triers == {p \in Folded(c) : Tries(c, p, g) > 0}
    IN  [solves |-> Cardinality(solvers),
         triers |-> Triers(Cardinality(triers), Cardinality(solvers)),
         attempts |-> MapThenSumSet(LAMBDA p : Tries(c, p, g), triers),
         taken |-> MapThenSumSet(LAMBDA p : Max({1, Tries(c, p, g)}), solvers),
         helped |-> HowMany(solvers, LAMBDA p :
                        /\ ModuleOf[g] # "quiz" /\ MergedRow(c, p, "bought", g) # NoTime
                        /\ MergedRow(c, p, "bought", g) <= EarnedAt(c, p, g))]

\* Of the hints bought for what was earned: those bought in time, and after.
SolveTime(c, p, g) ==
    IF ModuleOf[g] # "sd" THEN EarnedAt(c, p, g)
    ELSE LET of == {s \in Or(c.solves, {}) : s[1] = p /\ s[2] = g}
         IN  IF of = {} THEN NoTime ELSE (CHOOSE s \in of : TRUE)[3]
Hints(c) ==
    LET used == {<<p, g>> \in Folded(c) \X Goals :
                    MergedRow(c, p, "bought", g) # NoTime /\ SolveTime(c, p, g) # NoTime}
        intime(u) == MergedRow(c, u[1], "bought", u[2]) <= SolveTime(c, u[1], u[2])
    IN  [before |-> HowMany(used, intime), after |-> HowMany(used, LAMBDA u : ~intime(u)),
         buyers |-> Cardinality(Whom(c.totals.spent))]

\* solveTimeline: the narrowest buckets that fit the panel; past the widest,
\* whole days are added until they do.
Fits(first, last, width) == last \div width - first \div width + 1 <= MaxBuckets
Width(first, last) ==
    LET some == {k \in DOMAIN BucketWidths : Fits(first, last, BucketWidths[k])}
        days == {DayWidth * k : k \in 1..last + 1}
    IN  IF some # {} THEN BucketWidths[Min(some)]
        ELSE Min({w \in days : Fits(first, last, w)})
Solves(c) == {<<p, g>> \in Folded(c) \X AppGoals : EarnedAt(c, p, g) # NoTime}
Timeline(c) ==
    LET at(s) == EarnedAt(c, s[1], s[2])
        times == {at(s) : s \in Solves(c)}
        width == Width(Min(times), Max(times))
        start == Min(times) \div width
    IN  IF times = {} THEN <<>>
        ELSE [i \in 1..Max(times) \div width - start + 1 |->
                 HowMany(Solves(c), LAMBDA s : at(s) \div width - start + 1 = i)]

\* The board's points; the members' own if the board cannot be read.
\* Of the spellings of a login one stays.
PointsOf(hash, p) ==
    LET spelt == SpellingsOf(p) \intersect DOMAIN hash
    IN  IF spelt = {} THEN 0 ELSE hash[CHOOSE n \in spelt : TRUE]
OwnPoints(c, p) ==
    PointsOf(Or(c.scorer, <<>>), p) + MapThenSumSet(LAMBDA mod : PointsOf(c.totals.points[mod], p), AppModules)
TeamPoints(c) ==
    [s \in DOMAIN c.teams |->
        IF c.board = Unread THEN MapThenSumSet(LAMBDA n : OwnPoints(c, Player[n]), c.teams[s])
        ELSE IF s \in DOMAIN c.board THEN c.board[s] ELSE 0]

Caveats(c) ==
    (IF box.mode = "mock" THEN {"mock"} ELSE {})
    \union {read \in {"scorer", "solves", "users", "board"} : c[read] = Unread}
    \union (IF Cardinality(Contestants(c)) > MaxContestants THEN {"cap"} ELSE {})

Figures(c) ==
    [funnel |-> Funnel(c), stats |-> [g \in AppGoals |-> Stat(c, g)], hints |-> Hints(c),
     timeline |-> Timeline(c), points |-> TeamPoints(c),
     players |-> [mod \in AppModules |-> Cardinality(Whom(DOMAIN c.totals.points[mod]))]
                 @@ ("sd" :> Cardinality(SdPlayers(c)))]
-----------------------------------------------------------------------------
MetricsInit ==
    /\ tick = 1 /\ quietly = TRUE /\ metrics = NoMetrics /\ click = <<>>
    /\ \E b \in Boxes : box = b.box /\ may = b.may

\* The next round trip: one for each spelling where the rows are read.
NextRead ==
    LET left == SelectSeq(Round, LAMBDA r : r \notin DOMAIN click \/
                    (r = "own" /\ \E p \in Folded(click) : ~(ReadsOf(click, p) \subseteq DOMAIN click.own)))
    IN  IF left = <<>> THEN "done" ELSE Head(left)

Click ==
    /\ metrics = NoMetrics /\ click = <<>> /\ Allowed("clicks")
    /\ click' = ("teams" :> Answer("teams")) /\ quietly' = TRUE
    /\ UNCHANGED <<tick, box, metrics>>

ReadNext ==
    /\ click # <<>> /\ NextRead \notin {"own", "done"}
    /\ click' = IF NextRead = "users" THEN click @@ [users |-> Answer("users"), own |-> <<>>]
                ELSE click @@ (NextRead :> Answer(NextRead))
    /\ UNCHANGED <<tick, box, quietly, metrics, may>>

ReadOwn ==
    /\ click # <<>> /\ NextRead = "own"
    /\ \E p \in Folded(click) : \E n \in ReadsOf(click, p) \ DOMAIN click.own :
         click' = [click EXCEPT !.own = @ @@ (n :> OwnRead(n))]
    /\ UNCHANGED <<tick, box, quietly, metrics, may>>

\* The scorer, a page of a scan or the board cannot be read.
ReadIsLost ==
    /\ click # <<>> /\ NextRead \in {"scorer", "solves", "users", "board"}
    /\ NextRead = "scorer" => box.mode = "live"
    /\ Allowed("faults")
    /\ click' = IF NextRead = "users" THEN click @@ [users |-> Unread, own |-> <<>>] ELSE click @@ (NextRead :> Unread)
    /\ UNCHANGED <<tick, box, quietly, metrics>>

\* One command of the pipeline of totals fails: its reply has no result.
TotalsFallShort ==
    /\ click # <<>> /\ NextRead = "totals" /\ Allowed("faults")
    /\ \E mod \in AppModules :
         click' = click @@ [totals |-> [points |-> [PointsRead EXCEPT ![mod] = <<>>], spent |-> SpentRead,
                                        whole |-> FALSE]]
    /\ UNCHANGED <<tick, box, quietly, metrics>>

\* A player's rows cannot be read: so much would be missing that the panel
\* shows an error.
PanelFails ==
    /\ click # <<>> /\ NextRead \in {"totals", "own"} /\ Allowed("faults")
    /\ click' = <<>>
    /\ UNCHANGED <<tick, box, quietly, metrics>>

Show ==
    /\ click # <<>> /\ NextRead = "done"
    /\ metrics' = [figures |-> Figures(click), caveats |-> Caveats(click)]
    /\ UNCHANGED <<tick, box, click, quietly, may>>

\* What the players do meanwhile.
Play(changed) ==
    /\ box' = changed /\ quietly' = FALSE /\ tick' = tick + 1 /\ tick < LastTick
    /\ UNCHANGED <<click, metrics>>
Earn(n, g) ==
    /\ Allowed("plays") /\ ~Has(n, g) /\ (g \in AppGoals => n \in UNION Range(box.rosters))
    /\ Play([box EXCEPT !.earned[n][g] = tick, !.tried[n][g] = IF g \in AppGoals THEN @ + 1 ELSE @])
Miss(n, g) ==
    /\ Allowed("plays") /\ g \in AppGoals /\ ~Has(n, g) /\ n \in UNION Range(box.rosters)
    /\ Play([box EXCEPT !.tried[n][g] = @ + 1])
Leave(n) ==
    /\ Allowed("plays") /\ \E s \in DOMAIN box.rosters : n \in box.rosters[s]
    /\ Play([box EXCEPT !.rosters = [s \in DOMAIN @ |-> @[s] \ {n}]])
\* The app spells a player as they first signed in.
Enter(n, s) ==
    /\ \A m \in box.known : Player[m] = Player[n] => m = n
    /\ Allowed("plays") /\ s \in DOMAIN box.rosters /\ n \notin UNION Range(box.rosters)
    /\ Play([box EXCEPT !.rosters[s] = @ \union {n}, !.ever = @ \union {n}, !.known = @ \union {n}])

MetricsNext ==
    \/ metrics # NoMetrics /\ metrics' = NoMetrics /\ click' = <<>> /\ UNCHANGED <<tick, box, quietly, may>>
    \/ metrics = NoMetrics /\
         \/ Click \/ ReadNext \/ ReadOwn \/ ReadIsLost \/ TotalsFallShort \/ PanelFails \/ Show
         \/ \E n \in Names, g \in Goals : Earn(n, g) \/ Miss(n, g)
         \/ \E n \in Names : Leave(n)
         \/ \E n \in Names, s \in DOMAIN box.rosters : Enter(n, s)
-----------------------------------------------------------------------------
(***************************************************************************)
(* What the box holds: the figures a click ought to show.                    *)
(***************************************************************************)
HasGot(p, g) == \E n \in SpellingsOf(p) : Has(n, g)
Tried(p, g) == \E n \in SpellingsOf(p) : box.tried[n][g] > 0
TrueFunnel ==
    [onATeam |-> Cardinality(Whom(UNION Range(box.rosters))), ever |-> Cardinality(Whom(box.ever)),
     attempted |-> HowMany(Players, LAMBDA p : \E g \in Goals : Tried(p, g) \/ HasGot(p, g)),
     scored |-> HowMany(Players, LAMBDA p : \E g \in Goals : HasGot(p, g)),
     stuck |-> HowMany(Players, LAMBDA p : (\E g \in Goals : Tried(p, g)) /\ \A g \in Goals : ~HasGot(p, g))]
TrueSolves(g) == HowMany(Players, LAMBDA p : HasGot(p, g))
TrueAttempts(g) == MapThenSumSet(LAMBDA n : box.tried[n][g], Names)
TrueHints ==
    LET used == {<<n, g>> \in Names \X Goals : box.bought[n][g] # NoTime /\ HasGot(Player[n], g)}
        late(u) == \A n \in SpellingsOf(Player[u[1]]) : Has(n, u[2]) => box.earned[n][u[2]] < box.bought[u[1]][u[2]]
    IN  [before |-> HowMany(used, LAMBDA u : ~late(u)), after |-> HowMany(used, late)]

Shown == metrics # NoMetrics
F == metrics.figures
Exact ==
    /\ F.funnel = TrueFunnel
    /\ \A g \in AppGoals : F.stats[g].solves = TrueSolves(g) /\ F.stats[g].attempts = TrueAttempts(g)
    /\ F.hints.before = TrueHints.before /\ F.hints.after = TrueHints.after

\* A click on a box that stands still shows what the box holds: every player
\* who was ever on a team, tried or scored is found, whatever they spell and
\* whatever they left (audit F7, the RTS event).  So long as every command of
\* the pipeline of totals answers, figures that are short, of a failed read or
\* past the cap, carry a caveat, and none is too high.
SaysWhenShort ==
    Shown /\ quietly /\ click.totals.whole =>
        /\ metrics.caveats \ {"mock", "board"} = {} => Exact
        /\ \A k \in DOMAIN TrueFunnel \ {"stuck"} : F.funnel[k] <= TrueFunnel[k]
        /\ \A s \in DOMAIN F.points :
             IF "board" \in metrics.caveats /\ metrics.caveats \intersect {"scorer", "cap"} = {}
             THEN box.mode = "live" => F.points[s] >= BoardRead[s]
             ELSE "board" \notin metrics.caveats => F.points[s] = BoardRead[s]

\* However the reads fall between the moves of the players, no rate is above
\* one and nobody is counted as further than they are counted before; the
\* timeline holds each solve once, begins and ends with one and fits the panel.
FiguresConsistent ==
    Shown =>
        /\ F.funnel.scored <= F.funnel.attempted
        /\ F.funnel.stuck = F.funnel.attempted - F.funnel.scored
        /\ \A g \in AppGoals : LET stat == F.stats[g] IN
             stat.helped <= stat.solves /\ stat.solves <= stat.triers /\ stat.solves <= stat.taken
        /\ FoldLeft(+, 0, F.timeline) = MapThenSumSet(LAMBDA g : F.stats[g].solves, AppGoals)
        /\ Len(F.timeline) <= MaxBuckets
        /\ F.timeline # <<>> => F.timeline[1] > 0 /\ F.timeline[Len(F.timeline)] > 0

\* What an organizer reads off the panel: exact or marked short, and coherent.
MetricsInv == SaysWhenShort /\ FiguresConsistent

\* "Player records could not be read: ever on a team may miss players": the
\* caveat names one figure of those that are short.
ShortfallsNamed ==
    Shown /\ quietly /\ F.funnel.attempted < TrueFunnel.attempted
        => metrics.caveats \intersect {"solves", "scorer", "cap"} # {}

\* "This module's own convention is to SAY a number is short": a command of
\* the pipeline of totals that fails is folded as an empty hash.
EveryShortfallSaid ==
    Shown /\ quietly /\ ~Exact => metrics.caveats \ {"mock", "board"} # {}
=============================================================================
