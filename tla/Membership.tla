----------------------------- MODULE Membership -----------------------------
(***************************************************************************)
(* What the team rosters promise to the public standings: rosters that      *)
(* share nobody, each with a captain of its own, changed by one person or   *)
(* one team at a time.  apps/web/src/lib/team-store.ts keeps that promise   *)
(* over four kinds of Redis key; TeamStore implements this specification.   *)
(***************************************************************************)
CONSTANTS Players, Slugs, Nobody

VARIABLES roster, captain
rosterVars == <<roster, captain>>

Unplaced(p) == \A s \in Slugs : p \notin roster[s]
Stands(s) == roster[s] # {}

\* A roster that empties takes its captain with it.
Without(p, s) ==
    /\ roster' = [roster EXCEPT ![s] = @ \ {p}]
    /\ captain' = IF roster[s] = {p} THEN [captain EXCEPT ![s] = Nobody] ELSE captain

MayLeave(p, s) == p \in roster[s] /\ (captain[s] # p \/ roster[s] = {p})

Found(p, s) ==
    /\ Unplaced(p) /\ ~Stands(s)
    /\ roster' = [roster EXCEPT ![s] = {p}]
    /\ captain' = [captain EXCEPT ![s] = p]

Enter(p, s) ==
    /\ Unplaced(p) /\ Stands(s)
    /\ roster' = [roster EXCEPT ![s] = @ \union {p}]
    /\ UNCHANGED captain

Exit(p, s) == MayLeave(p, s) /\ Without(p, s)

\* An organizer moves a player between two teams in one step.
Move(p, from, to) ==
    /\ from # to /\ MayLeave(p, from) /\ Stands(to)
    /\ roster' = [roster EXCEPT ![from] = @ \ {p}, ![to] = @ \union {p}]
    /\ captain' = IF roster[from] = {p} THEN [captain EXCEPT ![from] = Nobody] ELSE captain

Appoint(p, s) ==
    /\ p \in roster[s]
    /\ captain' = [captain EXCEPT ![s] = p]
    /\ UNCHANGED roster

Dissolve(s) ==
    /\ roster' = [roster EXCEPT ![s] = {}]
    /\ captain' = [captain EXCEPT ![s] = Nobody]

MembershipInit ==
    /\ roster = [s \in Slugs |-> {}]
    /\ captain = [s \in Slugs |-> Nobody]

MembershipNext ==
    \E s \in Slugs :
        \/ Dissolve(s)
        \/ \E p \in Players :
              Found(p, s) \/ Enter(p, s) \/ Exit(p, s) \/ Appoint(p, s)
        \/ \E p \in Players, t \in Slugs : Move(p, s, t)

MembershipSpec == MembershipInit /\ [][MembershipNext]_rosterVars
=============================================================================
