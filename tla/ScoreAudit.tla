----------------------------- MODULE ScoreAudit -----------------------------
(***************************************************************************)
(* scripts/score-audit.mjs: a second implementation of the scoring rules,   *)
(* run on a live box and compared with the board the app serves.             *)
(*                                                                         *)
(* The first part is the recompute and the diff, over the store and the      *)
(* boards of Board.  The second is one audit: it reads the store, waits past *)
(* the memo between the store and the page, fetches the page, and reads      *)
(* the store again.  There a store is two numbers, what the scorer holds     *)
(* and what the app holds, and a board is a pair of them.                    *)
(***************************************************************************)
EXTENDS Board

-----------------------------------------------------------------------------
(***************************************************************************)
(* recompute: what every row ought to say.                                   *)
(***************************************************************************)
Live(mod) == mod \in world.live
Authors(p) == {l \in Logins : Lower[l] = p /\ Totals("sd")[l].done > 0}

\* The scorer's rows of a person, in all spellings: each counts.
SdRow(p) == [points |-> Sum(LAMBDA l : Totals("sd")[l].points, Authors(p)),
             done |-> Sum(LAMBDA l : Totals("sd")[l].done, Authors(p)),
             at |-> Latest({Totals("sd")[l].at : l \in Authors(p)})]

\* The aggregate a module keeps for a person.
AppRow(mod, p) ==
    LET spelt == {l \in Logins : Lower[l] = p /\ Totals(mod)[l].done > 0}
    IN  IF spelt = {} THEN Nothing ELSE Totals(mod)[CHOOSE l \in spelt : TRUE]

OwnRow(mod, p) == IF mod = "sd" THEN SdRow(p) ELSE AppRow(mod, p)

\* The flags of a team in a module: the scorer's are joined without regard to
\* case, the app's by the spelling of the roster.
CrewOf(mod, s) ==
    IF mod = "sd" THEN {l \in Logins : \E m \in Rosters[s] : Lower[l] = Lower[m]} ELSE Rosters[s]
CrewRow(mod, s) ==
    LET got(i) == {rows[mod][l][i] : l \in CrewOf(mod, s)} \ {NoRow}
        first(i) == CHOOSE r \in got(i) : \A other \in got(i) : r.at <= other.at
    IN  Tally([i \in {j \in Items : got(j) # {}} |-> first(i)])

Spend(p) == Sum(LAMBDA l : spent[l], {m \in Logins : Lower[m] = p})
ExpectedRow(parts, penalty) ==
    [blocks |-> [mod \in {m \in DOMAIN parts : parts[m].done > 0} |-> parts[mod]],
     penalty |-> penalty,
     points |-> Max({0, Sum(LAMBDA m : parts[m].points, DOMAIN parts) - penalty})]

\* A row for whoever completed something in a live module, and one for each team.
ExpectedEntries ==
    LET parts(p) == [mod \in world.live |-> OwnRow(mod, p)]
    IN  [p \in {q \in People : \E mod \in world.live : OwnRow(mod, q).done > 0} |->
            ExpectedRow(parts(p), Spend(p))]
ExpectedTeams ==
    [s \in DOMAIN Rosters |->
        ExpectedRow([mod \in world.live |-> CrewRow(mod, s)],
                    Sum(Spend, {Lower[l] : l \in Rosters[s]}))]

\* The place of a row may be any that those it ties with take.
Before(a, b) ==
    LET key(row) == <<row.points, Sum(LAMBDA m : row.blocks[m].done, DOMAIN row.blocks),
                      Latest({row.blocks[m].at : m \in DOMAIN row.blocks})>>
    IN  \/ key(a)[1] > key(b)[1]
        \/ key(a)[1] = key(b)[1] /\ (\/ key(a)[2] > key(b)[2]
                                     \/ key(a)[2] = key(b)[2] /\ key(a)[3] < key(b)[3])
BeforeTeam(a, b) == a.points > b.points
RankRange(all, ahead(_, _), id) ==
    LET above == Cardinality({j \in DOMAIN all : ahead(all[j], all[id])})
        tied == Cardinality({j \in DOMAIN all : ~ahead(all[j], all[id]) /\ ~ahead(all[id], all[j])})
    IN  above + 1 .. above + tied
-----------------------------------------------------------------------------
(***************************************************************************)
(* diffBoard: where a served board and the recompute part.                   *)
(***************************************************************************)
BlockDiffs(exp, got) ==
    {<<"block", m>> : m \in DOMAIN exp \ DOMAIN got}
    \union {<<IF got[m].done = 0 THEN "zero block" ELSE "block", m>> : m \in DOMAIN got \ DOMAIN exp}
    \union {<<"block", m>> : m \in {n \in DOMAIN exp \intersect DOMAIN got :
                exp[n].points # got[n].points \/ exp[n].done # got[n].done}}
RowDiffs(exp, got, place, range) ==
    BlockDiffs(exp.blocks, got.blocks)
    \union (IF exp.points # got.points THEN {<<"points">>} ELSE {})
    \union (IF exp.penalty # got.penalty THEN {<<"penalty">>} ELSE {})
    \union (IF place \notin range THEN {<<"rank">>} ELSE {})

Teammates(p) == {s \in DOMAIN Rosters : p \in {Lower[l] : l \in Rosters[s]}}
EntryDiffs(entries) ==
    LET exp == ExpectedEntries
        at(p) == {k \in DOMAIN entries : Lower[entries[k].id] = p}
    IN  UNION {IF at(p) = {} THEN {<<"row", p>>}
               ELSE LET k == Max(at(p)) IN
                    RowDiffs(exp[p], entries[k], k, RankRange(exp, Before, p))
                    \union (IF Teammates(p) # {entries[k].team} \ {NoTeam} THEN {<<"team", p>>} ELSE {})
                 : p \in DOMAIN exp}
        \union {<<"twice", p>> : p \in {q \in People : Cardinality(at(q)) > 1}}
        \union {<<IF entries[k].points = 0 THEN "zero row" ELSE "row", entries[k].id>> :
                    k \in {n \in DOMAIN entries : Lower[entries[n].id] \notin DOMAIN exp}}
TeamDiffs(standings) ==
    LET exp == ExpectedTeams
        at(s) == {k \in DOMAIN standings : standings[k].id = s}
    IN  UNION {IF at(s) = {} THEN {<<"row", s>>}
               ELSE LET k == Max(at(s)) IN
                    RowDiffs(exp[s], standings[k], k, RankRange(exp, BeforeTeam, s))
                    \union (IF {Lower[l] : l \in Rosters[s]} # Whose(standings[k]) THEN {<<"members", s>>} ELSE {})
                 : s \in DOMAIN exp}
        \union {<<"row", standings[k].id>> : k \in {n \in DOMAIN standings : standings[n].id \notin DOMAIN exp}}

Adjusting == \E s \in Slugs : adjust[s] # 0
Diffs == EntryDiffs(shown.entries) \union (IF Adjusting THEN {} ELSE TeamDiffs(shown.standings))

\* A fold that read everything.
Unbroken(d) ==
    \A r \in DOMAIN d :
        /\ d[r] # Failed
        /\ r[1] = "totals" => Failed \notin {d[r].totals, d[r].list}
        /\ r[1] = "teams" /\ r # Opening => Failed \notin {d[r].rows, d[r].list}
Comparable == shown # NoBoard /\ shown.quiet /\ shown.whole /\ Unbroken(shown.seen)

\* The two implementations agree: of a store that did not move, on points,
\* penalties, blocks, teams, rosters and places, the audit faults no board but
\* for what its rules do not know of: a block or a row at zero, and the teams
\* of an event with adjustments.
AuditorAgrees == Comparable => \A diff \in Diffs : diff[1] \in {"zero block", "zero row"}

\* "Exit 0 only when zero board mismatches": what the rules say of a right board.
AuditorPasses == Comparable => EntryDiffs(shown.entries) \union TeamDiffs(shown.standings) = {}
-----------------------------------------------------------------------------
(***************************************************************************)
(* One audit of a running app.                                               *)
(***************************************************************************)
CONSTANTS
    FoldTtl,             \* how long the fold's memo is served, in ticks
    SdWait, Settle,      \* --sd-cache-ms, --settle-ms
    Attempts, MaxNow,
    AuditAllowances      \* what may happen beside the audit
ASSUME AuditAssumption == FoldTtl \in Nat /\ SdWait \in Nat /\ Settle \in Nat
VARIABLES
    now,
    held,      \* what the two stores hold: [sd, app]
    page,      \* the fold in flight: NoPage, or what it read of the scorer and has still to read
    kept,      \* the fold's memo: NoMemo or [board, at]
    audit,     \* [phase, first, board, tries, until, solves], and of its attempt: rising, no
               \* points were taken away
    sdLive, beside
auditVars == <<now, held, page, kept, audit, sdLive, beside>>

NoPage == [todo |-> <<>>, sd |-> 0]
NoMemo == [at |-> 0, board |-> <<>>]
Besides(kind) == beside[kind] > 0 /\ beside' = [beside EXCEPT ![kind] = @ - 1]

AuditInit ==
    /\ now = 1 /\ sdLive \in BOOLEAN /\ beside \in AuditAllowances
    /\ held = [sd |-> 0, app |-> 0]
    /\ page = NoPage /\ kept \in {NoMemo, [board |-> <<0, 0>>, at |-> 1]}
    /\ audit = [phase |-> "first", first |-> <<>>, board |-> <<>>, tries |-> 1, until |-> 0, solves |-> 0,
                rising |-> TRUE]

\* A score lands in one of the stores, or an organizer takes one away.  The
\* memo of a reset on the other app task stays.
Land(part, by) ==
    /\ Besides(IF by > 0 THEN "scores" ELSE "resets") /\ held[part] + by >= 0
    /\ held' = [held EXCEPT ![part] = @ + by]
    /\ audit' = [audit EXCEPT !.rising = @ /\ by > 0]
    /\ UNCHANGED <<now, page, kept, sdLive>>

Remembered == kept # NoMemo /\ now - kept.at < FoldTtl
Folding == page # NoPage
BeginFold == ~Remembered /\ ~Folding /\ page' = [todo |-> <<"sd", "app">>, sd |-> 0]

\* Somebody else opens the board.
Look ==
    /\ Besides("looks") /\ BeginFold
    /\ UNCHANGED <<now, held, kept, audit, sdLive>>

\* The scorer is asked past every cache ("no-store"), then the app's hashes.
FoldReadsSd ==
    /\ Folding /\ Head(page.todo) = "sd"
    /\ page' = [page EXCEPT !.sd = IF sdLive THEN held.sd ELSE 0, !.todo = Tail(@)]
    /\ UNCHANGED <<now, held, kept, audit, sdLive, beside>>
FoldEnds ==
    /\ Folding /\ Head(page.todo) = "app"
    /\ kept' = [board |-> <<page.sd, held.app>>, at |-> now]
    /\ page' = NoPage
    /\ UNCHANGED <<now, held, audit, sdLive, beside>>
Fetching == audit.phase \in {"prime", "compare"} /\ now >= audit.until
\* A fold that fails is not kept, and fails the audit that waits for it.
FoldFails ==
    /\ Folding /\ Besides("faults")
    /\ page' = NoPage
    /\ audit' = IF Fetching THEN [audit EXCEPT !.phase = "failed"] ELSE audit
    /\ UNCHANGED <<now, held, kept, sdLive>>

\* readSnapshot: the scorer's solves, then the app's hashes.
ReadSolves ==
    /\ audit.phase \in {"first", "second"}
    /\ audit' = [audit EXCEPT !.phase = IF @ = "first" THEN "first totals" ELSE "second totals",
                              !.solves = IF sdLive THEN held.sd ELSE 0]
    /\ UNCHANGED <<now, held, page, kept, sdLive, beside>>
\* Defect: the audit does not wait for the memo to expire.
WaitsNone(wait) == now
Waits(wait) == now + wait
ReadTotals ==
    /\ audit.phase = "first totals"
    /\ audit' = [audit EXCEPT !.phase = "prime", !.first = <<audit.solves, held.app>>,
                              !.until = IF sdLive THEN Waits(SdWait) ELSE now]
    /\ UNCHANGED <<now, held, page, kept, sdLive, beside>>

\* A fetch of the page: from the memo, or with the fold in flight, which is
\* begun if there is none.
AskPage ==
    /\ Fetching /\ BeginFold
    /\ UNCHANGED <<now, held, kept, audit, sdLive, beside>>
GetPage ==
    /\ Fetching /\ Remembered /\ ~Folding
    /\ audit' = IF audit.phase = "prime"
                THEN [audit EXCEPT !.phase = "compare", !.until = Waits(Settle)]
                ELSE [audit EXCEPT !.phase = "second", !.board = kept.board]
    /\ UNCHANGED <<now, held, page, kept, sdLive, beside>>

\* The attempt counts if the store reads as it did; else there is another.
Stable == audit.first = <<audit.solves, held.app>>
Conclude ==
    /\ audit.phase = "second totals"
    /\ audit' = IF Stable THEN [audit EXCEPT !.phase = "done"]
                ELSE IF audit.tries < Attempts
                     THEN [audit EXCEPT !.phase = "first", !.tries = @ + 1, !.board = <<>>, !.rising = TRUE]
                ELSE [audit EXCEPT !.phase = "unstable"]
    /\ UNCHANGED <<now, held, page, kept, sdLive, beside>>

\* Folds and fetches are short beside the waits.
Pass ==
    /\ now < MaxNow /\ ~Folding /\ audit.phase \in {"prime", "compare"}
    /\ now < audit.until
    /\ now' = now + 1
    /\ UNCHANGED <<held, page, kept, audit, sdLive, beside>>

AuditNext ==
    \/ \E part \in {"sd", "app"}, by \in {-1, 1} : Land(part, by)
    \/ Look \/ FoldReadsSd \/ FoldEnds \/ FoldFails
    \/ ReadSolves \/ ReadTotals \/ AskPage \/ GetPage \/ Conclude \/ Pass

AuditSpec == AuditInit /\ [][AuditNext]_auditVars

\* The board of an attempt that counts is the board of the store the audit
\* read first: nothing the memo kept from before, whatever lands and whoever
\* else opens the board meanwhile, so long as no points are taken away
\* (auditAttempt).
ComparesWhatItRead == audit.phase = "done" /\ audit.rising => audit.board = audit.first

\* "the compared board a function of the store as S1 read it": points that
\* come and go between the two reads of the store are on the board alone.
ComparesAlways == audit.phase = "done" => audit.board = audit.first
=============================================================================
