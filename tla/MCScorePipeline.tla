-------------------------- MODULE MCScorePipeline --------------------------
(***************************************************************************)
(* Small instances of the score pipeline.  Two comments of one contestant   *)
(* on one repository (two pull requests claiming the same challenge) are    *)
(* enough for order, retry and first-write questions; a third, not the      *)
(* bot's, moves the cursor without being a score.  A fourth is another         *)
(* contestant's, on a second repository.                                     *)
(***************************************************************************)
EXTENDS ScorePipeline

CONSTANTS a1, c1, c2, c3, c4, r1, r2, alice, bob, x, y

Score(ids) == [kind |-> "score", solved |-> ids]
Other(kind) == [kind |-> kind, solved |-> {}]

Launched == [NewEvent EXCEPT !.startsAt = 0]
HandFrozen == [Launched EXCEPT !.paused = TRUE]

\* One repository, one contestant.
OneRepo == [c \in Comments |-> r1]
OneAuthor == [c \in Comments |-> alice]
OnlyR1 == {<<r1>>}

\* Two repositories, of which the organizer may poll one or both.
TwoRepos == [c \in Comments |-> IF c = c4 THEN r2 ELSE r1]
TwoAuthors == [c \in Comments |-> IF c = c4 THEN bob ELSE alice]
AnyList == {<<r1>>, <<r1, r2>>, <<r2>>}

LaunchedOnly == {Launched}
LaunchedOrFrozen == {Launched, HandFrozen}

ScoreOnly == {Score({x})}
ScoreBodies == {NoBody, Score({x})}
EveryBody == {NoBody, Other("bad"), Other("foreign"), Score({x}), Score({x, y})}

\* The run on delivery explores two families of states: long histories of three
\* comments of one repository, and short ones of two repositories with every
\* kind of comment.  A state outside both is not explored further.
Unposted(some) == \A c \in some : ~Posted(c)
Says(bodies) == \A c \in Comments : comment[c].body \in bodies
WithinOneRepository ==
    /\ Unposted({c4}) /\ Says(ScoreBodies) /\ poller.todo \in {<<>>, <<r1>>}
    /\ mem.repos[r2] = NoCursor
    /\ faults + crashes = 2 => edits <= 1
WithinTwoRepositories ==
    /\ Unposted({c2, c3}) /\ poller.todo \in {<<>>, <<r1, r2>>, <<r2>>}
    /\ now <= 1 /\ edits <= 2 /\ faults + crashes <= 1
    /\ comment[c4].body \in {NoBody, Other("foreign"), Score({x})}
    /\ comment[c1].body \in {NoBody, Other("bad"), Score({x, y})}
WithinEither == WithinOneRepository \/ WithinTwoRepositories

NoPatches == {}
FreezePatches == { [NoPatch EXCEPT !.paused = "set"], [NoPatch EXCEPT !.paused = "clear"] }
FreezeAndLaunch == { [NoPatch EXCEPT !.paused = "set"],
                     [NoPatch EXCEPT !.paused = "clear", !.startsAt = 0] }
=============================================================================
