------------------------------ MODULE MCBoard ------------------------------
(***************************************************************************)
(* Three events: a quiz with two teams; a jeopardy story beside the scorer,  *)
(* whose crew is a stored team under another spelling; all three modules.    *)
(***************************************************************************)
EXTENDS Board
CONSTANTS s1, s2, t1, t2, ann, bob, bobSd, cid, x, y, z, reds, blues

MCLower == (ann :> "ann") @@ (bob :> "bob") @@ (bobSd :> "bob") @@ (cid :> "cid")

Got(p, t) == [points |-> p, at |-> t]
Empty == [l \in Logins |-> [i \in Items |-> NoRow]]
Rows(sd, q, c, a) == ("sd" :> sd) @@ ("quiz" :> q) @@ ("classic" :> c) @@ ("ai" :> a)
In(s, t) == [slug |-> s, since |-> t]
Zero(S) == [e \in S |-> 0]
Only(mods, items) == [mod \in Apps \union {"sd"} |-> IF mod \in mods THEN items ELSE {}]

Allow(asks, fresh, faults, short, awards, moves, hints, adjustments, resets, ticks) ==
    [asks |-> asks, fresh |-> fresh, faults |-> faults, short |-> short, awards |-> awards,
     moves |-> moves, hints |-> hints, adjustments |-> adjustments, resets |-> resets, ticks |-> ticks]

\* Two members answered x, bob first and at another price; nobody saw y.
QuizNight ==
    [event |-> [live |-> {"quiz"}, chain |-> <<>>, catalogue |-> Only({"quiz"}, {x, y}), players |-> {ann, bob}],
     rows |-> Rows(Empty, [Empty EXCEPT ![ann][x] = Got(2, 1), ![bob][x] = Got(3, 0)], Empty, Empty),
     member |-> [l \in Logins |-> IF l \in {ann, bob} THEN In(reds, 1) ELSE IF l = cid THEN In(blues, 0) ELSE In(NoTeam, 0)],
     spent |-> Zero(Logins), adjust |-> Zero({reds, blues}),
     allowances |-> {Allow(1, 0, 1, 0, 0, 1, 1, 1, 0, 0), Allow(1, 0, 0, 0, 2, 0, 0, 0, 0, 0),
                     Allow(3, 0, 0, 0, 0, 0, 0, 0, 1, 0), Allow(2, 0, 0, 0, 0, 0, 0, 0, 1, 1), Allow(1, 0, 0, 1, 0, 0, 0, 0, 0, 0)}]

\* A story beside the scorer; z is a challenge bob solved, since deleted.
Saga ==
    [event |-> [live |-> {"sd", "classic"}, chain |-> <<x, y>>, catalogue |-> Only({"classic"}, {x, y}),
                players |-> {ann, bob}],
     rows |-> Rows([Empty EXCEPT ![bob][x] = Got(2, 0), ![ann][x] = Got(2, 1)], Empty,
                   [Empty EXCEPT ![ann][x] = Got(1, 0), ![bob][z] = Got(2, 1)], Empty),
     member |-> [l \in Logins |-> IF l \in {ann, bob} THEN In(reds, 1) ELSE In(NoTeam, 0)],
     spent |-> [Zero(Logins) EXCEPT ![ann] = 2], adjust |-> [Zero({reds, blues}) EXCEPT ![reds] = -1],
     allowances |-> {Allow(1, 0, 1, 0, 1, 0, 0, 0, 0, 0), Allow(1, 0, 1, 0, 0, 1, 0, 0, 0, 0)}]

\* Every module, no teams; the scorer spells bob in another way, ann keeps a
\* challenge since deleted.
Everything ==
    [event |-> [live |-> {"sd", "quiz", "classic", "ai"}, chain |-> <<>>, catalogue |-> Only(Apps, {x}),
                players |-> {bob}],
     rows |-> Rows([Empty EXCEPT ![bobSd][x] = Got(1, 1)], Empty, [Empty EXCEPT ![ann][x] = Got(1, 1)],
                   [Empty EXCEPT ![ann] = [i \in Items |-> IF i \in {x, z} THEN Got(1, 1) ELSE NoRow]]),
     member |-> [l \in Logins |-> In(NoTeam, 0)],
     spent |-> [Zero(Logins) EXCEPT ![bob] = 1], adjust |-> Zero({reds, blues}),
     allowances |-> {Allow(1, 0, 1, 0, 1, 0, 0, 0, 0, 0), Allow(1, 1, 0, 0, 0, 0, 0, 0, 0, 0)}]

MCWorlds == {QuizNight, Saga, Everything}
MCSymmetry == Permutations(Slots) \union Permutations(Tasks)
=============================================================================
