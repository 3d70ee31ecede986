------------------------------- MODULE Board -------------------------------
(***************************************************************************)
(* The leaderboard: the fold (source, module contributions, team standings, *)
(* hint penalties, score adjustments, series) and its memo (folded.ts).      *)
(*                                                                         *)
(* A fold is a request's walk over the store, one round trip after another,  *)
(* while contestants score, change team and buy hints and an organizer       *)
(* resets one of them.  seen holds what its reads returned so far; the board *)
(* it serves, Entries(seen) and Standings(seen), is computed from that alone. *)
(*                                                                         *)
(* A login has a spelling: the scorer keeps the pull request author's, the   *)
(* other stores the session's.  Lower[l] is the person a spelling is of.     *)
(***************************************************************************)
EXTENDS Integers, Sequences, FiniteSets, FiniteSetsExt, SequencesExt, TLC

CONSTANTS
    Logins, Lower,    \* spellings; the person of each
    Items,
    Worlds,           \* the events a behaviour may be of
    Slots, Tasks,     \* folds running at once; app tasks
    NoRow, NoTeam, Failed, NoBoard,
    Ttl,              \* LEADERBOARD_FOLD_TTL_MS, in ticks
    TopN,             \* SERIES_TOP_N
    Never,            \* the activity time of a row that has none: after every time
    MaxTime

StoredRow == [points : Nat, at : Nat]
NoFold    == [seen |-> <<>>]     \* where no fold runs
ASSUME BoardAssumption ==
    /\ IsFiniteSet(Items) /\ NoRow \notin StoredRow /\ NoFold \notin Slots
    /\ \A w \in Worlds :
         /\ w.event.live \subseteq {"sd", "quiz", "classic", "ai"} /\ w.event.players \subseteq Logins
         /\ w.rows \in [{"sd", "quiz", "classic", "ai"} -> [Logins -> [Items -> StoredRow \union {NoRow}]]]

VARIABLES
    world,     \* what no action changes: [live, catalogue, chain, players]
    clock,
    rows,      \* ctf:<mod>:solves:<login> (or answers): [points, at]; "sd" is the
               \* scorer's, by target and author
    member,    \* ctf:user:<login>: [slug, since]
    spent,     \* ctf:hints:spent
    adjust,    \* ctf:adjustments, net by slug
    folds,     \* the folds running
    memo,      \* folded.ts in each task: [gen, cached, inflight, under]
    reset,     \* the last reset of a contestant: [phase, task, login, todo]
    shown,     \* the fold that just ended
    left       \* what is left of the behaviour's allowance

store == <<rows, member, spent, adjust>>
boardVars == <<world, clock, store, folds, memo, reset, shown, left>>

Mods   == <<"quiz", "classic", "ai">>   \* the order withAppModulePoints adds them in
Apps   == Range(Mods)
People == Range(Lower)
Slugs  == DOMAIN adjust
Spends(kind) == left[kind] > 0 /\ left' = [left EXCEPT ![kind] = @ - 1]
-----------------------------------------------------------------------------
(***************************************************************************)
(* What the reads return.                                                    *)
(***************************************************************************)
Sum(f(_), set) == MapThenSumSet(f, set)
Latest(times)  == IF times \ {Never} = {} THEN Never ELSE Max(times \ {Never})
Tally(earned)  ==     \* of a function from items to what they earned
    [points |-> SumFunction([i \in DOMAIN earned |-> earned[i].points]),
     done   |-> Cardinality(DOMAIN earned),
     at     |-> Latest({earned[i].at : i \in DOMAIN earned})]

\* Defect: an item several hold keeps the solve recorded last.
UnionLatest(held, roster) ==
    LET holders(i) == {l \in roster : held[l][i] # NoRow}
        last(i) == CHOOSE l \in holders(i) : \A m \in holders(i) : held[l][i].at >= held[m][i].at
    IN  [i \in {j \in Items : holders(j) # {}} |-> held[last(i)][i]]

\* The rows a team's members hold in a module: an item several hold counts
\* once, as the earliest of them earned it.
Union(held, roster) ==
    LET holders(i) == {l \in roster : held[l][i] # NoRow}
        first(i) == CHOOSE l \in holders(i) : \A m \in holders(i) : held[l][i].at <= held[m][i].at
    IN  [i \in {j \in Items : holders(j) # {}} |-> held[first(i)][i]]

\* The hashes of running totals, which the graders keep exact (Graders).
Totals(mod) == [l \in Logins |-> Tally(Union(rows[mod], {l}))]

\* listTeams
Rosters ==
    [s \in {member[l].slug : l \in Logins} \ {NoTeam} |-> {l \in Logins : member[l].slug = s}]

\* What the scorer answers: its authors, and the stored teams with the flags
\* their members scored under that very spelling.
Scored ==
    IF "sd" \notin world.live THEN [entries |-> <<>>, crews |-> <<>>]
    ELSE [entries |-> [l \in {m \in Logins : Totals("sd")[m].done > 0} |-> Totals("sd")[l]],
          crews |-> [s \in DOMAIN Rosters |->
                       [members |-> Rosters[s], sum |-> Tally(Union(rows["sd"], Rosters[s]))]]]

\* The round trips of a fold.
Source     == <<"source">>
Own(mod)   == <<"totals", mod>>      \* the totals and the catalogue of a module
ReachTeams == <<"reach", "teams">>   \* reachableByLogin
ReachRows  == <<"reach", "rows">>
ReachOpen  == <<"reach", "opening">>
Teams(mod) == <<"teams", mod>>       \* the members' rows, and the catalogue again
Opening    == <<"teams", "opening">>
Line == << <<"rosters">>, Teams("quiz"), Teams("classic"), Opening, Teams("ai"),
           <<"spent">>, <<"adjust">>, <<"series">> >>

Plan ==
    LET storied == "classic" \in world.live /\ world.chain # <<>>
        live == Apps \intersect world.live
    IN  {Source} \union {Own(mod) : mod \in live}
        \union {r \in ToSet(Line) : r[1] = "teams" => \E mod \in live : r = Teams(mod)}
        \union (IF storied THEN {ReachTeams, ReachRows, ReachOpen, Opening} ELSE {})

\* The reads a read comes after; the modules' own are started together.
Awaits(r) ==
    CASE r = Source        -> {}
      [] r[1] = "totals"   -> {Source}
      [] r = ReachTeams    -> {Source, Own("quiz"), Own("classic")} \intersect Plan
      [] r \in {ReachRows, ReachOpen} -> {ReachTeams}
      [] OTHER             -> Plan \ {Line[k] : k \in {n \in DOMAIN Line :
                                  \E m \in 1..n : Line[m] = r}}

Reply(r) ==
    CASE r = Source        -> Scored
      [] r[1] = "totals"   -> [totals |-> Totals(r[2]), list |-> world.catalogue[r[2]]]
      [] r = ReachTeams    -> Rosters
      [] r = ReachRows     -> rows["classic"]
      [] r \in {ReachOpen, Opening} -> [rows |-> rows["classic"], member |-> member]
      [] r[1] = "rosters"  -> Rosters
      [] r[1] = "teams"    -> [rows |-> rows[r[2]], list |-> world.catalogue[r[2]]]
      [] r[1] = "spent"    -> spent
      [] r[1] = "adjust"   -> adjust
      [] r[1] = "series"   -> rows

\* A read that fails costs its own overlay: see Reject for those that fail
\* the request.
Degraded(r) ==
    CASE r = Source        -> {}
      [] r[1] = "totals"   -> {[Reply(r) EXCEPT !.totals = Failed], [Reply(r) EXCEPT !.list = Failed]}
      [] r[1] = "teams" /\ r # Opening
                           -> {[Reply(r) EXCEPT !.rows = Failed], [Reply(r) EXCEPT !.list = Failed]}
      [] OTHER             -> {Failed}

\* One command of the pipeline fails.  The classic store refuses the whole
\* reply; the quiz and AI stores fold the member as one who solved nothing.
Shortened(r) ==
    IF r = Opening \/ r[1] # "teams" THEN {}
    ELSE IF r[2] = "classic" THEN {[Reply(r) EXCEPT !.rows = Failed]}
    ELSE {[Reply(r) EXCEPT !.rows[l] = [i \in Items |-> NoRow]] : l \in Logins}
-----------------------------------------------------------------------------
(***************************************************************************)
(* The fold's arithmetic.  A row is an entry or a team: id (a login or a     *)
(* slug), points, blocks (what each module contributed), and the scorer's    *)
(* count and time.                                                          *)
(***************************************************************************)
Count(row)    == row.patched + Sum(LAMBDA m : row.blocks[m].done, DOMAIN row.blocks)
Activity(row) == Latest({row.at} \union {row.blocks[m].at : m \in DOMAIN row.blocks})
Gross(row)    == Sum(LAMBDA m : row.blocks[m].points, DOMAIN row.blocks)

Ahead(a, b) ==
    \/ a.points > b.points
    \/ a.points = b.points /\ Count(a) > Count(b)
    \/ a.points = b.points /\ Count(a) = Count(b) /\ Activity(a) < Activity(b)

\* Rows that tie keep their order.
Ranked(seq) ==
    LET place(i) == Cardinality({j \in DOMAIN seq :
                        Ahead(seq[j], seq[i]) \/ (j <= i /\ ~Ahead(seq[i], seq[j]))})
    IN  IF seq = <<>> THEN seq
        ELSE [k \in DOMAIN seq |-> seq[CHOOSE i \in DOMAIN seq : place(i) = k]]

\* solveUnlocks, for the roster of a board: the member's own record decides.
Opened(read, roster) ==
    {i \in Items : \E l \in roster :
        /\ read.rows[l][i] # NoRow
        /\ read.member[l].slug = NoTeam \/ read.rows[l][i].at >= read.member[l].since}

\* classicReachableDenominator
Reachable(list, opened, solved) ==
    LET steps == SelectSeq(world.chain, LAMBDA i : i \in list)
        locked == {steps[k] : k \in {n \in 2..Len(steps) :
                     {steps[n], steps[n-1]} \intersect opened = {} /\ steps[n] \notin solved}}
    IN  [total |-> Cardinality((list \ locked) \union solved \union (opened \ list)),
         locked |-> Cardinality(locked)]

\* Defect: what was done is not counted into what there is to do.
BlockUnclamped(tally, reach) == tally @@ reach

Block(tally, reach) == tally @@ [reach EXCEPT !.total = Max({@, tally.done})]
Nothing == Tally([i \in {} |-> NoRow])

Stored(rosters) == IF rosters = Failed THEN <<>> ELSE rosters

\* mergeTeamRosters: the scorer's crew and the stored roster of one slug are
\* one team; a member both know keeps the stored spelling.
Merged(crews, rosters) ==
    LET stored(s) == IF s \in DOMAIN rosters THEN rosters[s] ELSE {}
        crew(s) == IF s \in DOMAIN crews THEN crews[s].members ELSE {}
    IN  [s \in DOMAIN crews \union DOMAIN rosters |->
            stored(s) \union {l \in crew(s) : Lower[l] \notin {Lower[m] : m \in stored(s)}}]

\* The team store's attribution wins.
TeamIn(all, person, otherwise) ==
    LET of == {s \in DOMAIN all : \E l \in all[s] : Lower[l] = person}
    IN  IF of = {} THEN otherwise ELSE CHOOSE s \in of : TRUE
TeamOf(crews, rosters, person) ==
    TeamIn(rosters, person, TeamIn(Merged(crews, rosters), person, NoTeam))
-----------------------------------------------------------------------------
(***************************************************************************)
(* The entries of a board whose reads returned d.                            *)
(***************************************************************************)
Listed(d, mod)  == IF d[Own(mod)].list = Failed THEN {} ELSE d[Own(mod)].list
Counted(d)      == {mod \in Apps \intersect world.live : d[Own(mod)].totals # Failed}

\* The spelling under which a module knows a person, if it does.
Known(d, mod, p) == {l \in Logins : Lower[l] = p /\ d[Own(mod)].totals[l].done > 0}
TotalOf(d, mod, p) ==
    IF Known(d, mod, p) = {} THEN Nothing
    ELSE d[Own(mod)].totals[CHOOSE l \in Known(d, mod, p) : TRUE]

Plain(set) == [total |-> Cardinality(set), locked |-> 0]

\* reachableByLogin: a read that failed locks nothing.
RowReach(d, p) ==
    LET list == Listed(d, "classic")
        known == Known(d, "classic", p)
        crews == d[Source].crews
        team == TeamOf(crews, d[ReachTeams], p)
        roster == known \union IF team = NoTeam THEN {} ELSE Merged(crews, d[ReachTeams])[team]
    IN  IF world.chain = <<>> \/ list = {} THEN Plain(list)
        ELSE IF known = {} THEN Reachable(list, {}, {})
        ELSE IF Failed \in {d[ReachTeams], d[ReachRows], d[ReachOpen]} THEN Plain(list)
        ELSE Reachable(list, Opened(d[ReachOpen], roster), DOMAIN Union(d[ReachRows], roster))

RowBlock(d, mod, p) ==
    Block(TotalOf(d, mod, p), IF mod = "classic" THEN RowReach(d, p) ELSE Plain(Listed(d, mod)))

\* A block is there for what a person did, and at zero for a catalogue that
\* has something to do.
WithSomeToDo(blocks) == [mod \in {m \in DOMAIN blocks : blocks[m].total > 0} |-> blocks[mod]]
RowBlocks(d, p) == WithSomeToDo([mod \in Counted(d) |-> RowBlock(d, mod, p)])
Earned(d, p) == Sum(LAMBDA m : TotalOf(d, m, p).points, Counted(d))

\* The scorer's share of a row.
Sd(sum) == "sd" :> Block(sum, [total |-> sum.done, locked |-> 0])

\* attributeEntry: the scorer's points are in the row, the others are added.
Attributed(d, l) ==
    LET sum == d[Source].entries[l]
    IN  [id |-> l, team |-> NoTeam, penalty |-> 0, patched |-> 0, at |-> sum.at,
         points |-> sum.points + Earned(d, Lower[l]), blocks |-> RowBlocks(d, Lower[l]) @@ Sd(sum)]

Blank(l) == [id |-> l, team |-> NoTeam, penalty |-> 0, patched |-> 0, at |-> Never,
             points |-> 0, blocks |-> [m \in {} |-> Nothing]]

\* createdEntries: one row for whoever scored in a module and is not there,
\* under the spelling of the first module that reports the person.
Created(d) ==
    LET there == {Lower[l] : l \in DOMAIN d[Source].entries}
        new(mod) == IF mod \notin Counted(d) THEN {}
                    ELSE {p \in People \ there : Known(d, mod, p) # {}}
        row(mod, p) ==
            [Blank(CHOOSE l \in Known(d, mod, p) : TRUE) EXCEPT
                !.points = Earned(d, p), !.blocks = RowBlocks(d, p),
                !.at = Latest({TotalOf(d, m, p).at : m \in Counted(d)})]
        rowsOf(mod, before) == SetToSeq({row(mod, p) : p \in new(mod) \ before})
    IN  rowsOf("quiz", {}) \o rowsOf("classic", new("quiz"))
        \o rowsOf("ai", new("quiz") \union new("classic"))

Contributed(d) == Ranked(SetToSeq({Attributed(d, l) : l \in DOMAIN d[Source].entries}) \o Created(d))

\* withTeamStandings: the team of each row, and a row for each member without.
WithTeams(had, crews, rosters, rostered) ==
    LET team(p) == TeamOf(crews, rosters, p)
        new == {p \in {Lower[l] : l \in rostered} : \A k \in DOMAIN had : Lower[had[k].id] # p}
        spelt(p) == CHOOSE l \in rostered : Lower[l] = p
        placed == [k \in DOMAIN had |-> [had[k] EXCEPT !.team = team(Lower[had[k].id])]]
        zeros == SetToSeq({[Blank(spelt(p)) EXCEPT !.team = team(p)] : p \in new})
    IN  IF rosters = <<>> THEN had ELSE IF new = {} THEN placed ELSE Ranked(placed \o zeros)
Placed(d) ==
    LET rosters == Stored(d[<<"rosters">>])
    IN  WithTeams(Contributed(d), d[Source].crews, rosters,
                  UNION Range(Merged(d[Source].crews, rosters)))

\* withHintPenalties: what the members of a row spent comes off it, to no less
\* than nothing.
Whose(row) == IF "members" \in DOMAIN row THEN {Lower[l] : l \in row.members} ELSE {Lower[row.id]}
Penalised(d, seq) ==
    LET spend(p) == Sum(LAMBDA l : d[<<"spent">>][l], {m \in Logins : Lower[m] = p})
        due(row) == Sum(spend, Whose(row))
    IN  IF d[<<"spent">>] = Failed \/ (\A l \in Logins : d[<<"spent">>][l] = 0) THEN seq
        ELSE Ranked([k \in DOMAIN seq |->
                 [seq[k] EXCEPT !.penalty = due(seq[k]), !.points = Max({0, @ - due(seq[k])})]])

Entries(d) == Penalised(d, Placed(d))
-----------------------------------------------------------------------------
(***************************************************************************)
(* The teams of that board.                                                  *)
(***************************************************************************)
Team(s, members, points, patched, at, blocks) ==
    [id |-> s, members |-> members, points |-> points, patched |-> patched, at |-> at,
     blocks |-> blocks, penalty |-> 0, adjustment |-> 0]

\* The scorer's teams keep their rows; the others start at nothing.
Founded(d) ==
    LET crews == d[Source].crews
        rosters == Stored(d[<<"rosters">>])
        all == Merged(crews, rosters)
    IN  SetToSeq({Team(s, all[s], crews[s].sum.points, 0, crews[s].sum.at, Sd(crews[s].sum)) :
                    s \in DOMAIN crews})
        \o SetToSeq({Team(s, all[s], 0, 0, Never, [m \in {} |-> Nothing]) :
                    s \in DOMAIN rosters \ DOMAIN crews})

\* classicReachableDenominator for a team, with its two fallbacks.
TeamReach(d, members, earned) ==
    LET read == d[Teams("classic")]
        opened == IF world.chain = <<>> THEN DOMAIN earned
                  ELSE IF DOMAIN earned = {} THEN {}
                  ELSE IF d[Opening] = Failed THEN Failed ELSE Opened(d[Opening], members)
    IN  IF Failed \in {read.list, opened} THEN Plain(DOMAIN earned)
        ELSE Reachable(read.list, opened, DOMAIN earned)

\* Defect: a team is given each member's points, an item of two of them twice.
TeamBlockOfEach(d, mod, members) ==
    LET read == d[Teams(mod)]
        earned == Union(read.rows, members)
        each(l) == Tally(Union(read.rows, {l})).points
    IN  Block([Tally(earned) EXCEPT !.points = Sum(each, members)],
              Plain((IF read.list = Failed THEN {} ELSE read.list) \union DOMAIN earned))

TeamBlock(d, mod, members) ==
    LET read == d[Teams(mod)]
        earned == Union(read.rows, members)
    IN  Block(Tally(earned),
              IF mod = "classic" THEN TeamReach(d, members, earned)
              ELSE Plain((IF read.list = Failed THEN {} ELSE read.list) \union DOMAIN earned))

\* attributeTeams: one module's block and points for each team, and a ranking.
WithBlock(row, mod, block) ==
    IF block.total = 0 THEN row
    ELSE [row EXCEPT !.points = @ + block.points, !.blocks = @ @@ (mod :> block)]
WithModule(d, seq, mod) ==
    IF mod \notin world.live \/ seq = <<>> \/ d[Teams(mod)].rows = Failed THEN seq
    ELSE Ranked([k \in DOMAIN seq |->
                    WithBlock(seq[k], mod, TeamBlock(d, mod, seq[k].members))])

\* withScoreAdjustments
Adjusted(d, seq) ==
    IF d[<<"adjust">>] = Failed \/ (\A s \in Slugs : d[<<"adjust">>][s] = 0) THEN seq
    ELSE Ranked([k \in DOMAIN seq |->
             [seq[k] EXCEPT !.adjustment = d[<<"adjust">>][seq[k].id],
                            !.points = IF d[<<"adjust">>][seq[k].id] = 0 THEN @
                                       ELSE Max({0, @ + d[<<"adjust">>][seq[k].id]})]])

Standings(d) ==
    Adjusted(d, Penalised(d, FoldLeft(LAMBDA seq, mod : WithModule(d, seq, mod), Founded(d), Mods)))

\* withModuleSeries: where the lines of the charted rows end.
Charted(seq) == {seq[k] : k \in {n \in DOMAIN seq : n <= TopN}}
\* Defect: the line of a team adds each member's solves.
LineEndOfEach(d, start, charted, people) ==
    LET whose == {l \in charted : Lower[l] \in people}
        each(mod) == Sum(LAMBDA l : Tally(Union(d[<<"series">>][mod], {l})).points, whose)
    IN  start + IF d[<<"series">>] = Failed THEN 0 ELSE Sum(each, Apps \intersect world.live)

LineEnd(d, start, charted, people) ==
    LET whose == {l \in charted : Lower[l] \in people}
    IN  start + IF d[<<"series">>] = Failed THEN 0
                ELSE Sum(LAMBDA mod : Tally(Union(d[<<"series">>][mod], whose)).points,
                         Apps \intersect world.live)
-----------------------------------------------------------------------------
(***************************************************************************)
(* What the store holds: the board a fold ought to serve.                    *)
(***************************************************************************)
Spelt(p) == {l \in Logins : Lower[l] = p}
PersonGross(p, of) == Sum(LAMBDA mod : Sum(LAMBDA l : Totals(mod)[l].points, Spelt(p)), of)
TeamGross(s, of) ==
    LET theirs == UNION {Spelt(Lower[l]) : l \in Rosters[s]}
        got(mod, i) == {rows[mod][l][i] : l \in theirs} \ {NoRow}
        worth(mod, i) == LET soonest == Min({r.at : r \in got(mod, i)})
                         IN  Min({r.points : r \in {g \in got(mod, i) : g.at = soonest}})
    IN  Sum(LAMBDA mod : Sum(LAMBDA i : worth(mod, i), {j \in Items : got(mod, j) # {}}), of)
Scorers == {Lower[l] : l \in {m \in Logins : \E mod \in world.live : Totals(mod)[m].done > 0}}
Here == [people |-> [p \in People |-> PersonGross(p, world.live)],
         teams  |-> [s \in DOMAIN Rosters |-> TeamGross(s, world.live)]]
-----------------------------------------------------------------------------
Init ==
    /\ world \in {w.event : w \in Worlds}
    /\ \E w \in Worlds :
        /\ w.event = world
        /\ rows = w.rows /\ member = w.member /\ spent = w.spent /\ adjust = w.adjust
        /\ left \in w.allowances
    /\ clock = 1
    /\ folds = [s \in Slots |-> NoFold]
    /\ memo = [t \in Tasks |-> [gen |-> 0, cached |-> NoBoard, inflight |-> NoFold, under |-> 0]]
    /\ reset = [phase |-> "none"]
    /\ shown = NoBoard

\* What a request of task t may be served without a fold of its own.
Valid(t) ==
    /\ memo[t].cached # NoBoard /\ memo[t].cached.gen = memo[t].gen
    /\ clock - memo[t].cached.at < Ttl
Shared(t) == memo[t].inflight # NoFold /\ memo[t].under = memo[t].gen

Start(s, t, fresh) ==
    folds' = [folds EXCEPT ![s] = [task |-> t, fresh |-> fresh, gen |-> memo[t].gen, seen |-> <<>>,
                                   quiet |-> TRUE, steady |-> TRUE, whole |-> TRUE, before |-> Here]]

\* getFoldedLeaderboard, for a request the memo cannot answer.
Ask(s, t) ==
    /\ folds[s] = NoFold /\ Spends("asks")
    /\ ~Valid(t) /\ ~Shared(t)
    /\ Start(s, t, FALSE)
    /\ memo' = [memo EXCEPT ![t].inflight = s, ![t].under = memo[t].gen]
    /\ UNCHANGED <<world, clock, store, reset>>

\* ... and for one that wants a fold of its own.
AskFresh(s, t) ==
    /\ folds[s] = NoFold /\ Spends("fresh")
    /\ Start(s, t, TRUE)
    /\ UNCHANGED <<world, clock, store, memo, reset>>

Due(s) == {r \in Plan \ DOMAIN folds[s].seen : Awaits(r) \subseteq DOMAIN folds[s].seen}
Answered(seen, r, reply) == [q \in DOMAIN seen \union {r} |-> IF q = r THEN reply ELSE seen[q]]
Sees(s, r, reply) == folds' = [folds EXCEPT ![s].seen = Answered(@, r, reply)]

Read(s) ==
    /\ folds[s] # NoFold
    /\ \E r \in Due(s) : Sees(s, r, Reply(r))
    /\ UNCHANGED <<world, clock, store, memo, reset, left>>

ReadFails(s) ==
    /\ folds[s] # NoFold /\ Spends("faults")
    /\ \E r \in Due(s) : \E reply \in Degraded(r) : Sees(s, r, reply)
    /\ UNCHANGED <<world, clock, store, memo, reset>>

ReplyShort(s) ==
    /\ folds[s] # NoFold /\ Spends("short")
    /\ \E r \in Due(s) : \E reply \in Shortened(r) :
         folds' = [folds EXCEPT ![s].seen = Answered(@, r, reply), ![s].whole = FALSE]
    /\ UNCHANGED <<world, clock, store, memo, reset>>

\* A fold that ends clears the memo's promise only if it is that promise.
Cleared(t, s) == IF memo[t].inflight = s THEN NoFold ELSE memo[t].inflight

\* The source or the story list cannot be read: the request fails.
Reject(s) ==
    /\ folds[s] # NoFold /\ Spends("faults")
    /\ {Source, Own("classic"), Teams("classic")} \intersect Due(s) # {}
    /\ folds' = [folds EXCEPT ![s] = NoFold]
    /\ memo' = IF folds[s].fresh THEN memo
               ELSE [memo EXCEPT ![folds[s].task].inflight = Cleared(folds[s].task, s)]
    /\ UNCHANGED <<world, clock, store, reset>>

\* Defect: a fold is kept as one of the generation it ended in.
MemoizedLate(t, f) == [at |-> clock, gen |-> memo[t].gen, seen |-> f.seen]

Memoized(t, f) ==
    IF f.gen = memo[t].gen THEN [at |-> clock, gen |-> f.gen, seen |-> f.seen] ELSE memo[t].cached

Finish(s) ==
    /\ folds[s] # NoFold /\ DOMAIN folds[s].seen = Plan
    /\ shown' = [entries |-> Entries(folds[s].seen), standings |-> Standings(folds[s].seen),
                 seen |-> folds[s].seen, quiet |-> folds[s].quiet, steady |-> folds[s].steady,
                 whole |-> folds[s].whole, before |-> folds[s].before]
    /\ folds' = [folds EXCEPT ![s] = NoFold]
    /\ LET t == folds[s].task IN
         memo' = IF folds[s].fresh THEN memo
                 ELSE [memo EXCEPT ![t].cached = Memoized(t, folds[s]), ![t].inflight = Cleared(t, s)]
    /\ UNCHANGED <<world, clock, store, reset, left>>

\* Whatever changes the store disturbs the folds that run; an award only
\* raises what they may find.
Disturbs(award) ==
    folds' = [s \in Slots |-> IF folds[s] = NoFold THEN NoFold
                                  ELSE [folds[s] EXCEPT !.quiet = FALSE, !.steady = @ /\ award]]

Award(mod, l, i) ==
    /\ Spends("awards")
    /\ i \in world.catalogue[mod] /\ rows[mod][l][i] = NoRow
    /\ rows' = [rows EXCEPT ![mod][l][i] = [points |-> 1, at |-> clock]]
    /\ Disturbs(TRUE)
    /\ UNCHANGED <<world, clock, member, spent, adjust, memo, reset>>

Move(l, s) ==
    /\ Spends("moves") /\ member[l].slug # s
    /\ member' = [member EXCEPT ![l] = [slug |-> s, since |-> clock]]
    /\ Disturbs(FALSE)
    /\ UNCHANGED <<world, clock, rows, spent, adjust, memo, reset>>

Buy(l) ==
    /\ Spends("hints")
    /\ spent' = [spent EXCEPT ![l] = @ + 1]
    /\ Disturbs(FALSE)
    /\ UNCHANGED <<world, clock, rows, member, adjust, memo, reset>>

Adjust(s, points) ==
    /\ Spends("adjustments") /\ s \in DOMAIN Rosters
    /\ adjust' = [adjust EXCEPT ![s] = @ + points]
    /\ Disturbs(FALSE)
    /\ UNCHANGED <<world, clock, rows, member, spent, memo, reset>>

\* resetUserProgress, between beginScoreLowering and endScoreLowering.
Outdated(t) == [memo EXCEPT ![t].gen = @ + 1]

BeginReset(t, l) ==
    /\ reset.phase # "open" /\ Spends("resets")
    /\ memo' = Outdated(t)
    /\ reset' = [phase |-> "open", task |-> t, login |-> l, todo |-> <<"classic", "ai", "quiz">>]
    /\ UNCHANGED <<world, clock, store, folds>>

ResetModule ==
    /\ reset.phase = "open" /\ reset.todo # <<>>
    /\ rows' = [rows EXCEPT ![Head(reset.todo)][reset.login] = [i \in Items |-> NoRow]]
    /\ spent' = IF Head(reset.todo) = "quiz" THEN [spent EXCEPT ![reset.login] = 0] ELSE spent
    /\ reset' = [reset EXCEPT !.todo = Tail(@)]
    /\ Disturbs(FALSE)
    /\ UNCHANGED <<world, clock, member, adjust, memo, left>>

EndReset ==
    /\ reset.phase = "open" /\ reset.todo = <<>>
    /\ memo' = Outdated(reset.task)
    /\ reset' = [reset EXCEPT !.phase = "over"]
    /\ UNCHANGED <<world, clock, store, folds, left>>

Tick ==
    /\ clock < MaxTime /\ Spends("ticks")
    /\ clock' = clock + 1
    /\ UNCHANGED <<world, store, folds, memo, reset>>

Next ==
    \/ \E s \in Slots : Finish(s)
    \/ /\ shown' = NoBoard
       /\ \/ \E s \in Slots, t \in Tasks : Ask(s, t) \/ AskFresh(s, t)
          \/ \E s \in Slots : Read(s) \/ ReadFails(s) \/ ReplyShort(s) \/ Reject(s)
          \/ \E mod \in world.live, l \in world.players, i \in Items : Award(mod, l, i)
          \/ \E l \in world.players, s \in Slugs \union {NoTeam} : Move(l, s)
          \/ \E l \in world.players : Buy(l) \/ \E t \in Tasks : BeginReset(t, l)
          \/ \E s \in Slugs, points \in {-1, 1} : Adjust(s, points)
          \/ ResetModule \/ EndReset \/ Tick

BoardSpec == Init /\ [][Next]_boardVars
-----------------------------------------------------------------------------
Row(seq, named(_)) == {k \in DOMAIN seq : named(seq[k].id)}
GrossOf(seq, named(_)) == Sum(LAMBDA k : Gross(seq[k]), Row(seq, named))
Whole(d) == /\ Counted(d) = Apps \intersect world.live /\ d[<<"rosters">>] # Failed
            /\ \A mod \in Counted(d) : d[Teams(mod)].rows # Failed

\* The states are of the shape the sections above describe.
BoardTypeOK ==
    /\ clock \in 1..MaxTime
    /\ \A mod \in Apps \union {"sd"}, l \in Logins, i \in Items :
         rows[mod][l][i] = NoRow \/ rows[mod][l][i] \in [points : Nat, at : 0..clock]
    /\ \A l \in Logins : member[l].slug \in Slugs \union {NoTeam} /\ member[l].since \in 0..clock
    /\ spent \in [Logins -> Nat] /\ adjust \in [Slugs -> Int]
    /\ \A s \in Slots : folds[s] = NoFold \/ DOMAIN folds[s].seen \subseteq Plan
    /\ \A t \in Tasks : memo[t].gen \in Nat /\ memo[t].inflight \in Slots \union {NoFold}

\* A fold nobody disturbed serves the scores of the store (withModuleContributions,
\* withTeamStandings): one row for each person with a score or a team and for
\* nobody else, one for each team, each with what it earned in every module
\* whose reads succeeded, an item of two teammates once and at the price of the
\* earliest, in the order of compareStanding, whichever reads failed.
TeamsExact(d) ==
    LET standings == shown.standings
        read == {mod \in Apps \intersect world.live : d[Teams(mod)].rows # Failed} \union {"sd"}
    IN  d[<<"rosters">>] # Failed => \A s \in DOMAIN Rosters :
            /\ Cardinality(Row(standings, LAMBDA id : id = s)) = 1
            /\ GrossOf(standings, LAMBDA id : id = s) = TeamGross(s, read)
BoardExact ==
    (shown # NoBoard /\ shown.quiet /\ shown.whole) =>
        LET d == shown.seen
            entries == shown.entries
            own == Counted(d) \union {"sd"}
            inTeam == IF Stored(d[<<"rosters">>]) = <<>> THEN {} ELSE UNION Range(Rosters)
        IN  /\ {Lower[row.id] : row \in Range(entries)} \subseteq
                 Scorers \union {Lower[l] : l \in inTeam}
            /\ \A p \in People :
                 /\ (p \in {Lower[l] : l \in inTeam} \/ PersonGross(p, own) > 0)
                      => Cardinality(Row(entries, LAMBDA id : Lower[id] = p)) = 1
                 /\ GrossOf(entries, LAMBDA id : Lower[id] = p) = PersonGross(p, own)
            /\ TeamsExact(d)
            /\ \A seq \in {entries, shown.standings} : \A k \in 2..Len(seq) : ~Ahead(seq[k], seq[k-1])

\* The team points of a board are right or missing with their module, never a
\* smaller number (withTeamQuizPoints), one command of a reply lost or not.
TeamPointsNeverShort == (shown # NoBoard /\ shown.quiet) => TeamsExact(shown.seen)

\* The parts of a row account for it, in any board of any fold, racing or
\* short of a read (issue 520): its points are the sum of its blocks, less the
\* hints, moved by the adjustment, and never below nothing.
BlocksReconcile ==
    shown # NoBoard =>
        LET net(row) == Max({0, Gross(row) - row.penalty})
        IN  /\ \A row \in Range(shown.entries) : row.points = net(row)
            /\ \A row \in Range(shown.standings) :
                 row.points = IF row.adjustment = 0 THEN net(row)
                              ELSE Max({0, net(row) + row.adjustment})

\* A fold that scores were awarded under serves no score older than its start
\* and none that was never there, on either view, though its reads are of many
\* moments.
BoardBetween ==
    (shown # NoBoard /\ shown.steady /\ shown.whole /\ Whole(shown.seen)) =>
        LET entries == shown.entries
            standings == shown.standings
        IN  /\ \A p \in People : GrossOf(entries, LAMBDA id : Lower[id] = p)
                                   \in shown.before.people[p] .. Here.people[p]
            /\ \A s \in DOMAIN Here.teams : GrossOf(standings, LAMBDA id : id = s)
                                   \in shown.before.teams[s] .. Here.teams[s]

\* No row has done more than there is to do or shows a module with nothing to
\* do, and a team's jeopardy denominator loses no item: each it could count is
\* counted or locked (classicReachableDenominator).
RatiosHold ==
    shown # NoBoard =>
        LET d == shown.seen
            solved(row) == DOMAIN Union(d[Teams("classic")].rows, row.members)
        IN  /\ \A row \in Range(shown.entries) \union Range(shown.standings) :
                 \A m \in DOMAIN row.blocks \ {"sd"} :
                    row.blocks[m].total >= row.blocks[m].done /\ row.blocks[m].total > 0
            /\ \A row \in Range(shown.standings) :
                 (shown.quiet /\ "classic" \in DOMAIN row.blocks /\ d[Teams("classic")].list # Failed
                  /\ (Opening \in DOMAIN d => d[Opening] # Failed)) =>
                     row.blocks["classic"].total + row.blocks["classic"].locked
                        = Cardinality(d[Teams("classic")].list \union solved(row))

\* Once a reset is over, its own task offers nobody the scores it deleted:
\* neither from its memo nor by sharing a fold that began before (issue 553).
LoweredScoresGone ==
    reset.phase = "over" =>
        LET t == reset.task
            offered == (IF Valid(t) THEN {memo[t].cached} ELSE {})
                       \union (IF Shared(t) THEN {folds[memo[t].inflight]} ELSE {})
        IN  \A b \in offered : \A r \in DOMAIN b.seen :
              r[1] = "totals" /\ b.seen[r].totals # Failed =>
                  b.seen[r].totals[reset.login].points <= Totals(r[2])[reset.login].points

\* A room that lands in one second is one fold: a task never has two folds of
\* one generation running for its memo.
SingleFlight ==
    \A s, r \in Slots :
        (s # r /\ folds[s] # NoFold /\ folds[r] # NoFold /\ folds[s].task = folds[r].task
         /\ ~folds[s].fresh /\ ~folds[r].fresh) => folds[s].gen # folds[r].gen

\* The line of a charted row ends at the gross of that row (issue 415), while
\* every store knows the person by one spelling.
LinesMeetRows(counts(_)) ==
    (shown # NoBoard /\ shown.quiet /\ shown.whole /\ Whole(shown.seen)
     /\ shown.seen[<<"series">>] # Failed) =>
        LET d == shown.seen
            entries == Charted(shown.entries)
            standings == Charted(shown.standings)
            charted == {row.id : row \in entries} \union UNION {row.members : row \in standings}
            scored(row) == IF "sd" \in DOMAIN row.blocks THEN row.blocks["sd"].points ELSE 0
        IN  \A row \in entries \union standings : counts(Whose(row)) =>
                LineEnd(d, scored(row), charted, Whose(row)) = Gross(row)

KnownOnce(people) ==
    \A p \in people : Cardinality({l \in Spelt(p) : \E mod \in world.live : Totals(mod)[l].done > 0}) <= 1
ChartMeetsRow == LinesMeetRows(KnownOnce)
\* ... and the same of every row.
EveryLineMeetsRow == LinesMeetRows(LAMBDA people : TRUE)

\* What holds of every board and every fold: one that nobody disturbed is exact;
\* of any other, its sums, ratios and charts agree and what it shows lies between
\* two moments; folds are shared.
BoardInv ==
    /\ BoardTypeOK /\ BoardExact /\ BlocksReconcile /\ RatiosHold /\ BoardBetween
    /\ ChartMeetsRow /\ SingleFlight
=============================================================================
