------------------------------ MODULE DemoSeed ------------------------------
(***************************************************************************)
(* lib/demo-seed.ts: an organizer fills the board with a fixture, takes the  *)
(* fixture off it again, or resets the event.  A request is one pipeline of  *)
(* commands: others run between any two, one may fail while its neighbours   *)
(* run, and the request may die with any part of it done.  Meanwhile         *)
(* contestants solve, organizers edit the categories and move players.       *)
(*                                                                         *)
(* One module stands for the three (classic: the one with a category list    *)
(* and a count of solvers); every item is worth one point.                   *)
(***************************************************************************)
EXTENDS Integers, Sequences, FiniteSets, SequencesExt

CONSTANTS
    Demo,            \* the fixture's contestants; all of them are its team
    Players,         \* the others
    FixtureItems, OwnItems,
    DemoSolves,      \* of each fixture contestant
    Fixture, FoldOf, \* the fixture's spelling of its category; a name's lowercase
    Names,           \* what an organizer may call a category
    CategoriesMax,
    DemoTeam, OtherTeam, NoTeam, NoRecord,
    Desks,           \* organizers at work
    Days,            \* [list, own, on, uses]: what a behaviour starts with (on: the other team's players) and may do
    Careless         \* which of "list", "move" organizers do without looking

\* A day starts with a list within its limit, which has the category of the
\* organizers' items, and with nobody of the fixture on a team.
ASSUME DemoAssumption ==
    /\ IsFiniteSet(Demo) /\ IsFiniteSet(Players) /\ Demo \intersect Players = {}
    /\ IsFiniteSet(FixtureItems) /\ IsFiniteSet(OwnItems) /\ CategoriesMax \in Nat
    /\ DemoSolves \in [Demo -> SUBSET FixtureItems]
    /\ DemoTeam # OtherTeam /\ NoTeam \notin {DemoTeam, OtherTeam} /\ NoRecord \notin Names \union {Fixture}
    /\ \A day \in Days :
          /\ day.list \in Seq(Names \union {Fixture}) /\ Len(day.list) <= CategoriesMax
          /\ day.own \in Range(day.list) /\ day.on \subseteq Players

VARIABLES
    rows, totals,    \* ctf:classic:solves:<login>, ctf:classic:points
    count,           \* ctf:classic:solvecount
    record,          \* ctf:classic:challenges, the category of each
    list,            \* ctf:classic:categories
    crew, captained, \* ctf:team:<slug>:members and the hash beside it
    pointer,         \* the team of ctf:user:<login>
    desk,            \* the requests that run
    draft,           \* the category list an organizer's panel shows
    uses,            \* what is left of the behaviour's allowance
    answer,          \* history: what the last request answered, if it ran alone
    wiped            \* history: a reset has begun
board == <<rows, totals, count, record, list, crew, captained, pointer>>
demoVars == <<board, desk, draft, uses, answer, wiped>>

Contestants == Demo \union Players
Challenges == FixtureItems \union OwnItems
Takes(kind) == uses[kind] > 0 /\ uses' = [uses EXCEPT ![kind] = @ - 1]
NoRequest == [kind |-> "none"]
-----------------------------------------------------------------------------
(* The commands of each request, in order. *)

PerDemo(command) == [i \in 1..Cardinality(Demo) |-> <<command, SetToSeq(Demo)[i]>>]
SeedCommands ==
    <<<<"team", DemoTeam>>, <<"join", DemoTeam>>>> \o PerDemo("point")
    \o <<<<"categories", Fixture>>>> \o PerDemo("solve") \o PerDemo("total") \o <<<<"raise", DemoTeam>>>>
PairPerDemo(odd, even) ==
    [i \in 1..(2 * Cardinality(Demo)) |-> <<IF i % 2 = 1 THEN odd ELSE even, SetToSeq(Demo)[(i + 1) \div 2]>>]
ClearCommands ==
    <<<<"no team", DemoTeam>>, <<"no crew", DemoTeam>>>> \o PerDemo("no pointer")
    \o PairPerDemo("no solves", "no total")
ResetCommands ==
    <<<<"wipe", "teams">>, <<"wipe", "users">>, <<"wipe", "solves">>, <<"wipe", "totals">>, <<"wipe", "counts">>>>
CommandsOf(kind) ==
    CASE kind = "seed" -> SeedCommands [] kind = "clear" -> ClearCommands [] kind = "reset" -> ResetCommands

\* SEED_CATEGORIES_SCRIPT: the list keeps its order and its spellings; the
\* fixture's name is added unless one of its case is there.
Spelling == IF \E k \in DOMAIN list : FoldOf[list[k]] = FoldOf[Fixture]
            THEN list[CHOOSE k \in DOMAIN list : FoldOf[list[k]] = FoldOf[Fixture]] ELSE Fixture
United == IF Spelling \in Range(list) THEN list ELSE Append(list, Fixture)

\* Defect: the count of solvers is set to the fixture's.
RaisedToFixture(i, floor) == floor

\* RAISE_SOLVECOUNT_SCRIPT
Raised(i, floor) == IF count[i] < floor THEN floor ELSE count[i]
Solvers(i) == {l \in Demo : i \in DemoSolves[l]}

\* A command that Redis refuses changes nothing: the list would be too long.
Refused(c) == c[1] = "categories" /\ Len(United) > CategoriesMax

TeamCommand(c) ==
    /\ captained' = CASE c[1] = "team" -> captained \union {c[2]}
                      [] c[1] = "no team" -> captained \ {c[2]}
                      [] c = <<"wipe", "teams">> -> {}
                      [] OTHER -> captained
    /\ crew' = CASE c[1] = "join" -> [crew EXCEPT ![c[2]] = @ \union Demo]
                 [] c[1] = "no crew" -> [crew EXCEPT ![c[2]] = {}]
                 [] c = <<"wipe", "teams">> -> [s \in DOMAIN crew |-> {}]
                 [] OTHER -> crew
    /\ pointer' = CASE c[1] = "point" -> [pointer EXCEPT ![c[2]] = DemoTeam]
                    [] c[1] = "no pointer" -> [pointer EXCEPT ![c[2]] = NoTeam]
                    [] c = <<"wipe", "users">> -> [l \in Contestants |-> NoTeam]
                    [] OTHER -> pointer

ScoreCommand(c) ==
    /\ rows' = CASE c[1] = "solve" -> [rows EXCEPT ![c[2]] = @ \union DemoSolves[c[2]]]
                 [] c[1] = "no solves" -> [rows EXCEPT ![c[2]] = {}]
                 [] c = <<"wipe", "solves">> -> [l \in Contestants |-> {}]
                 [] OTHER -> rows
    /\ totals' = CASE c[1] = "total" -> [totals EXCEPT ![c[2]] = Cardinality(DemoSolves[c[2]])]
                   [] c[1] = "no total" -> [totals EXCEPT ![c[2]] = 0]
                   [] c = <<"wipe", "totals">> -> [l \in Contestants |-> 0]
                   [] OTHER -> totals
    /\ count' = CASE c[1] = "raise" ->
                       [i \in Challenges |-> IF i \in FixtureItems THEN Raised(i, Cardinality(Solvers(i)))
                                             ELSE count[i]]
                  [] c = <<"wipe", "counts">> -> [i \in Challenges |-> 0]
                  [] OTHER -> count

ContentCommand(c) ==
    IF c[1] = "categories"
    THEN list' = United /\ record' = [i \in Challenges |-> IF i \in FixtureItems THEN Spelling ELSE record[i]]
    ELSE UNCHANGED <<list, record>>

Does(c) == TeamCommand(c) /\ ScoreCommand(c) /\ ContentCommand(c)
-----------------------------------------------------------------------------
\* runDemoSeed, clearDemoData, resetEvent
Request(d, kind) ==
    /\ desk[d] = NoRequest /\ Takes(kind)
    /\ desk' = [desk EXCEPT ![d] = [kind |-> kind, todo |-> CommandsOf(kind), failed |-> FALSE,
                                    alone |-> \A e \in Desks : desk[e] = NoRequest]]
    /\ answer' = "none" /\ wiped' = (wiped \/ kind = "reset")
    /\ UNCHANGED <<board, draft>>

\* The requests that run when something else touches what they write.
Together(d) == [e \in Desks |-> IF e # d /\ desk[e] # NoRequest THEN [desk[e] EXCEPT !.alone = FALSE] ELSE desk[e]]
Executed(d, failed) == [Together(d) EXCEPT ![d].todo = Tail(@), ![d].failed = @ \/ failed]

Command(d) ==
    /\ desk[d] # NoRequest /\ desk[d].todo # <<>>
    /\ LET c == Head(desk[d].todo)
       IN  IF Refused(c) THEN UNCHANGED board ELSE Does(c)
    /\ desk' = Executed(d, Refused(Head(desk[d].todo)))
    /\ UNCHANGED <<draft, uses, answer, wiped>>

\* One command fails.  The other commands of a pipeline run all the same; a
\* reset is a walk that stops.
CommandFails(d) ==
    /\ desk[d] # NoRequest /\ desk[d].todo # <<>> /\ Takes("faults")
    /\ desk' = IF desk[d].kind = "reset" THEN [Together(d) EXCEPT ![d] = NoRequest] ELSE Executed(d, TRUE)
    /\ UNCHANGED <<board, draft, answer, wiped>>

\* The task dies, or the answer is lost: Redis runs the rest of the commands
\* it was sent, while the organizer may ask again.
RequestLost(d) ==
    /\ desk[d] # NoRequest /\ ~desk[d].failed /\ Takes("faults")
    /\ \E rest \in {<<>>, desk[d].todo} :
         desk' = [Together(d) EXCEPT ![d].todo = rest, ![d].failed = TRUE]
    /\ UNCHANGED <<board, draft, answer, wiped>>

\* A failed command is an error, however many neighbours ran.
Respond(d) ==
    /\ desk[d] # NoRequest /\ desk[d].todo = <<>>
    /\ LET alone == desk[d].alone /\ \A e \in Desks \ {d} : desk[e] = NoRequest
       IN  answer' = IF alone /\ ~desk[d].failed THEN desk[d].kind ELSE "none"
    /\ desk' = [Together(d) EXCEPT ![d] = NoRequest]
    /\ UNCHANGED <<board, draft, uses, wiped>>
-----------------------------------------------------------------------------
\* SUBMIT_SCRIPT, of a contestant who is not the fixture's
Submit(l, i) ==
    /\ record[i] # NoRecord /\ i \notin rows[l] /\ Takes("solves")
    /\ rows' = [rows EXCEPT ![l] = @ \union {i}]
    /\ totals' = [totals EXCEPT ![l] = @ + 1]
    /\ count' = [count EXCEPT ![i] = @ + 1]
    /\ UNCHANGED <<record, list, crew, captained, pointer, desk, draft, answer, wiped>>

\* An organizer's panel shows the list, and puts back the whole of it.
ShowList ==
    /\ draft # list /\ draft' = list
    /\ UNCHANGED <<board, desk, uses, answer, wiped>>

PutList(n) ==
    /\ Takes("edits") /\ Len(draft) < CategoriesMax
    /\ "list" \in Careless \/ draft = list
    /\ \A k \in DOMAIN draft : FoldOf[draft[k]] # FoldOf[n]
    /\ list' = Append(draft, n) /\ draft' = list'
    /\ UNCHANGED <<rows, totals, count, record, crew, captained, pointer, desk, answer, wiped>>

\* forceAddToTeam; an organizer who looks leaves the fixture's team alone.
ForceMove(l, s) ==
    /\ Takes("moves") /\ s \in captained /\ l \notin crew[s]
    /\ "move" \in Careless \/ (s # DemoTeam /\ l \in Players)
    /\ crew' = [t \in DOMAIN crew |-> IF t = s THEN crew[t] \union {l}
                                      ELSE IF t = pointer[l] THEN crew[t] \ {l} ELSE crew[t]]
    /\ pointer' = [pointer EXCEPT ![l] = s]
    /\ UNCHANGED <<rows, totals, count, record, list, captained, desk, draft, answer, wiped>>

DemoInit ==
    \E day \in Days :
        /\ list = day.list /\ draft = day.list
        /\ record = [i \in Challenges |-> IF i \in OwnItems THEN day.own ELSE NoRecord]
        /\ rows = [l \in Contestants |-> {}]
        /\ totals = [l \in Contestants |-> 0]
        /\ count = [i \in Challenges |-> 0]
        /\ crew = [s \in {DemoTeam, OtherTeam} |-> IF s = OtherTeam THEN day.on ELSE {}]
        /\ captained = {OtherTeam}
        /\ pointer = [l \in Contestants |-> IF l \in day.on THEN OtherTeam ELSE NoTeam]
        /\ desk = [d \in Desks |-> NoRequest]
        /\ uses = day.uses
        /\ answer = "none" /\ wiped = FALSE

DemoNext ==
    \/ \E d \in Desks, kind \in {"seed", "clear", "reset"} : Request(d, kind)
    \/ \E d \in Desks : Command(d) \/ CommandFails(d) \/ RequestLost(d) \/ Respond(d)
    \/ \E l \in Players, i \in Challenges : Submit(l, i)
    \/ ShowList \/ \E n \in Names : PutList(n)
    \/ \E l \in Contestants, s \in {DemoTeam, OtherTeam} : ForceMove(l, s)

DemoSpec == DemoInit /\ [][DemoNext]_demoVars
-----------------------------------------------------------------------------
DemoTypeOK ==
    /\ rows \in [Contestants -> SUBSET Challenges] /\ totals \in [Contestants -> Nat]
    /\ count \in [Challenges -> Nat]
    /\ record \in [Challenges -> Names \union {Fixture, NoRecord}]
    /\ Len(list) <= CategoriesMax /\ captained \subseteq {DemoTeam, OtherTeam}
    /\ pointer \in [Contestants -> {DemoTeam, OtherTeam, NoTeam}]

\* A challenge is on the board: its category is in the list, whatever the
\* organizer's own categories are called and whoever edits them amid a seed
\* (SEED_CATEGORIES_SCRIPT, demo-seed.ts:145-165).
OnTheBoard == \A i \in Challenges : record[i] # NoRecord => record[i] \in Range(list)

\* A contestant's solves stay in the public count (demo-seed.ts:118-130), and
\* no seed or clear touches a contestant who is not the fixture's.
PlayersKept ==
    ~wiped => \A l \in Players :
        /\ totals[l] = Cardinality(rows[l])
        /\ \A i \in rows[l] : count[i] >= Cardinality({m \in Players : i \in rows[m]})

\* What an answered request says is so, whatever failed before it and was asked
\* again: after a seed the fixture is there once, its totals those of its
\* solves; after a clear nothing of its run is left; after a reset nothing of
\* anybody's.
AnswersTrue ==
    /\ answer = "seed" =>
         /\ DemoTeam \in captained /\ Demo \subseteq crew[DemoTeam]
         /\ \A l \in Demo : /\ pointer[l] = DemoTeam
                            /\ rows[l] = DemoSolves[l] /\ totals[l] = Cardinality(rows[l])
         /\ \A i \in FixtureItems : record[i] # NoRecord /\ count[i] >= Cardinality(Solvers(i))
    /\ answer \in {"clear", "reset"} =>
         /\ DemoTeam \notin captained /\ crew[DemoTeam] = {}
         /\ \A l \in Demo : pointer[l] = NoTeam /\ rows[l] = {} /\ totals[l] = 0
    /\ answer = "reset" => captained = {} /\ \A i \in Challenges : count[i] <= Cardinality({l \in Players : i \in rows[l]})

DemoInv == DemoTypeOK /\ OnTheBoard /\ PlayersKept /\ AnswersTrue
-----------------------------------------------------------------------------
\* "A solve landing mid-seed is counted, not lost" (demo-seed.ts:128-129): the
\* count of a challenge is not below the number of those who solved it.
EverySolverCounted ==
    answer = "seed" => \A i \in Challenges : count[i] >= Cardinality({l \in Contestants : i \in rows[l]})

\* A player's team is a team that is there.
NobodyOnAGhost == answer # "none" => \A l \in Contestants : pointer[l] # NoTeam => pointer[l] \in captained

\* A player is on the one team the pointer names.
OneTeamEach == answer = "seed" => \A s \in captained : \A l \in crew[s] : pointer[l] = s
=============================================================================
