----------------------------- MODULE TeamStore -----------------------------
(***************************************************************************)
(* Teams, as apps/web/src/lib/team-store.ts and the single-script organizer *)
(* overrides of admin-ops-store.ts write them: one hash per team, a set of  *)
(* its members, the team field of each player's record and the reverse      *)
(* index from join code to team, which must agree.  Every mutation is one   *)
(* Lua script, but what it is handed - the team a join code led to, the     *)
(* size cap, a free join code, the player's team - was read one or two      *)
(* round trips before, and many requests run at once.                       *)
(*                                                                          *)
(* A team's name is represented by the slug it makes.  The registration     *)
(* window only refuses requests (or, unreadable, does not), so a request    *)
(* here may always be refused; joinedAt goes wherever the team field goes.  *)
(***************************************************************************)
EXTENDS Naturals, FiniteSets

CONSTANTS
    Players, Slugs, Codes,
    Slots,        \* requests the app handles at once, at most
    Caps,         \* the team sizes an organizer may set
    DefaultCap,   \* TEAM_MAX_MEMBERS, 4 in the code
    Nobody, NoSlug, NoCode

ASSUME TeamAssumption ==
    /\ IsFiniteSet(Players)
    /\ Nobody \notin Players /\ NoSlug \notin Slugs /\ NoCode \notin Codes
    /\ Caps \subseteq Nat \ {0} /\ DefaultCap \in Nat \ {0}

VARIABLES
    team,      \* ctf:team:<slug>: captain, name and join code
    members,   \* ctf:team:<slug>:members
    user,      \* the team field of ctf:user:<login>
    codes,     \* ctf:joincode:<code>
    cap,       \* the size cap in force
    request,   \* the request each slot has in flight
    everCaps,  \* history: the caps that have been in force
    overfull   \* history: teams an organizer has put a player on past the cap

stored == <<team, members, user, codes>>
teamVars == <<stored, cap, request, everCaps, overfull>>

NoTeam == [captain |-> Nobody, name |-> NoSlug, code |-> NoCode]
Team == [captain : Players, name : Slugs, code : Codes]

\* cap is what the request read, NoCap when the organizer overrides it.
NoCap == 0
Idle == [op |-> "none", login |-> Nobody, slug |-> NoSlug, code |-> NoCode, cap |-> NoCap]
Request == [op : {"none", "create", "resolved", "join", "leave", "regenerate", "forceAdd"},
            login : Players \union {Nobody}, slug : Slugs \union {NoSlug},
            code : Codes \union {NoCode}, cap : Nat]

TeamTypeOK ==
    /\ team \in [Slugs -> Team \union {NoTeam}]
    /\ members \in [Slugs -> SUBSET Players]
    /\ user \in [Players -> Slugs \union {NoSlug}]
    /\ codes \in [Codes -> Slugs \union {NoSlug}]
    /\ cap \in Nat
    /\ request \in [Slots -> Request]
    /\ everCaps \subseteq Nat
    /\ overfull \subseteq Slugs

Exists(s) == team[s] # NoTeam
IsCaptain(p, s) == team[s].captain = p

(***************************************************************************)
(* What a request reads before its script runs.                             *)
(***************************************************************************)
Send(k, r) ==
    /\ request[k] = Idle
    /\ request' = [request EXCEPT ![k] = r]
    /\ UNCHANGED <<stored, cap, everCaps, overfull>>

Done(k) == request' = [request EXCEPT ![k] = Idle]

\* A code is drawn until one is free; out of 31^6, two requests in flight do
\* not draw the same one.
Drawable(c) == codes[c] = NoSlug /\ \A k \in Slots : request[k].code # c

\* createSoloTeam's retry after a taken name is one more such request.
SendCreate(k, p, s, c) ==
    Drawable(c) /\ Send(k, [Idle EXCEPT !.op = "create", !.login = p, !.slug = s, !.code = c])

SendRegenerate(k, p, s, c) ==
    Drawable(c) /\ Send(k, [Idle EXCEPT !.op = "regenerate", !.login = p, !.slug = s, !.code = c])

ResolveCode(k, p, c) ==
    codes[c] # NoSlug /\ Send(k, [Idle EXCEPT !.op = "resolved", !.login = p, !.slug = codes[c]])

\* The cap in force, or the default when it cannot be read.
ReadableCaps == {cap, DefaultCap}

ReadCap(k) ==
    /\ request[k].op = "resolved"
    /\ \E n \in ReadableCaps :
          request' = [request EXCEPT ![k].op = "join", ![k].cap = n]
    /\ UNCHANGED <<stored, cap, everCaps, overfull>>

SendLeave(k, p) ==
    user[p] # NoSlug /\ Send(k, [Idle EXCEPT !.op = "leave", !.login = p, !.slug = user[p]])

SendForceAdd(k, p, s) ==
    \E n \in ReadableCaps \union {NoCap} :
        Send(k, [Idle EXCEPT !.op = "forceAdd", !.login = p, !.slug = s, !.cap = n])

(***************************************************************************)
(* The scripts a contestant's request ends with.                            *)
(***************************************************************************)
\* Defect: the comparison admits one more.
OverFull(s, n) == Cardinality(members[s]) > n

Full(s, n) == Cardinality(members[s]) >= n

\* Defect: the join code is left behind.
CodesKept(s) == codes

\* What deleting team s and its join code leaves.
CodesWithout(s) == IF Exists(s) THEN [codes EXCEPT ![team[s].code] = NoSlug] ELSE codes

\* p leaves the roster of s, which goes when it empties.
Leaving(p, s) ==
    /\ members' = [members EXCEPT ![s] = @ \ {p}]
    /\ IF members[s] \ {p} = {}
       THEN /\ team' = [team EXCEPT ![s] = NoTeam]
            /\ codes' = CodesWithout(s)
            /\ overfull' = overfull \ {s}
       ELSE UNCHANGED <<team, codes, overfull>>

\* Defect: off by one, a captain leaves a pair.
StrandsPair(p, s) == IsCaptain(p, s) /\ Cardinality(members[s]) > 2

StrandsTeam(p, s) == IsCaptain(p, s) /\ Cardinality(members[s]) > 1

LandCreate(k) ==
    LET r == request[k] IN
    /\ r.op = "create"
    /\ IF user[r.login] # NoSlug \/ Exists(r.slug)
       THEN UNCHANGED stored
       ELSE /\ team' = [team EXCEPT ![r.slug] = [captain |-> r.login, name |-> r.slug, code |-> r.code]]
            /\ members' = [members EXCEPT ![r.slug] = @ \union {r.login}]
            /\ user' = [user EXCEPT ![r.login] = r.slug]
            /\ codes' = [codes EXCEPT ![r.code] = r.slug]
    /\ Done(k) /\ UNCHANGED <<cap, everCaps, overfull>>

\* Defect: the join script trusts an earlier check that the player is free.
JoinUnchecked(k) ==
    LET r == request[k] IN
    /\ r.op = "join"
    /\ IF ~Exists(r.slug) \/ Full(r.slug, r.cap)
       THEN UNCHANGED <<members, user>>
       ELSE /\ members' = [members EXCEPT ![r.slug] = @ \union {r.login}]
            /\ user' = [user EXCEPT ![r.login] = r.slug]
    /\ Done(k) /\ UNCHANGED <<team, codes, cap, everCaps, overfull>>

LandJoin(k) ==
    LET r == request[k] IN
    /\ r.op = "join"
    /\ IF user[r.login] # NoSlug \/ ~Exists(r.slug) \/ Full(r.slug, r.cap)
       THEN UNCHANGED <<members, user>>
       ELSE /\ members' = [members EXCEPT ![r.slug] = @ \union {r.login}]
            /\ user' = [user EXCEPT ![r.login] = r.slug]
    /\ Done(k) /\ UNCHANGED <<team, codes, cap, everCaps, overfull>>

LandLeave(k) ==
    LET r == request[k] IN
    /\ r.op = "leave"
    /\ IF user[r.login] # r.slug \/ StrandsTeam(r.login, r.slug)
       THEN UNCHANGED <<stored, overfull>>
       ELSE /\ Leaving(r.login, r.slug)
            /\ user' = [user EXCEPT ![r.login] = NoSlug]
    /\ Done(k) /\ UNCHANGED <<cap, everCaps>>

\* Defect: the regenerate script does not check the team and its captain.
RegenerateUnchecked(k) ==
    LET r == request[k] IN
    /\ r.op = "regenerate"
    /\ team' = [team EXCEPT ![r.slug].code = r.code]
    /\ codes' = [codes EXCEPT ![r.code] = r.slug]
    /\ Done(k) /\ UNCHANGED <<members, user, cap, everCaps, overfull>>

LandRegenerate(k) ==
    LET r == request[k] IN
    /\ r.op = "regenerate"
    /\ IF ~IsCaptain(r.login, r.slug)
       THEN UNCHANGED <<team, codes>>
       ELSE /\ team' = [team EXCEPT ![r.slug].code = r.code]
            /\ codes' = [codes EXCEPT ![team[r.slug].code] = NoSlug, ![r.code] = r.slug]
    /\ Done(k) /\ UNCHANGED <<members, user, cap, everCaps, overfull>>

(***************************************************************************)
(* The captain's requests that read nothing first.  p is the caller.        *)
(***************************************************************************)
RemoveMember(p, s, m) ==
    /\ IsCaptain(p, s) /\ m \in members[s] /\ m # p
    /\ members' = [members EXCEPT ![s] = @ \ {m}]
    /\ user' = [user EXCEPT ![m] = NoSlug]
    /\ UNCHANGED <<team, codes, cap, request, everCaps, overfull>>

Rename(p, s, n) ==
    /\ IsCaptain(p, s) /\ (n = s \/ ~Exists(n))
    /\ team' = [team EXCEPT ![s].name = n]
    /\ UNCHANGED <<members, user, codes, cap, request, everCaps, overfull>>

Transfer(p, s, m) ==
    /\ IsCaptain(p, s) /\ m \in members[s]
    /\ team' = [team EXCEPT ![s].captain = m]
    /\ UNCHANGED <<members, user, codes, cap, request, everCaps, overfull>>

Disband(p, s) ==
    /\ IsCaptain(p, s)
    /\ user' = [q \in Players |-> IF q \in members[s] THEN NoSlug ELSE user[q]]
    /\ team' = [team EXCEPT ![s] = NoTeam]
    /\ members' = [members EXCEPT ![s] = {}]
    /\ codes' = CodesWithout(s)
    /\ overfull' = overfull \ {s}
    /\ UNCHANGED <<cap, request, everCaps>>

(***************************************************************************)
(* The organizer's overrides.                                               *)
(***************************************************************************)
ForceRemove(s, m) ==
    /\ Exists(s) /\ ~IsCaptain(m, s) /\ m \in members[s]
    /\ members' = [members EXCEPT ![s] = @ \ {m}]
    /\ user' = IF user[m] = s THEN [user EXCEPT ![m] = NoSlug] ELSE user
    /\ UNCHANGED <<team, codes, cap, request, everCaps, overfull>>

\* Defect: the new captain need not be a member.
ForceTransferAny(s, m) ==
    /\ Exists(s)
    /\ team' = [team EXCEPT ![s].captain = m]
    /\ UNCHANGED <<members, user, codes, cap, request, everCaps, overfull>>

ForceTransfer(s, m) ==
    /\ Exists(s) /\ m \in members[s]
    /\ team' = [team EXCEPT ![s].captain = m]
    /\ UNCHANGED <<members, user, codes, cap, request, everCaps, overfull>>

\* The player leaves the team they are on, as Leave would, and joins this one.
Adding(p, s, n) ==
    LET from == user[p]
        moves == from # NoSlug /\ from # s
        left == IF moves THEN [members EXCEPT ![from] = @ \ {p}] ELSE members
        empties == moves /\ left[from] = {}
        kept == IF empties THEN overfull \ {from} ELSE overfull
    IN  /\ members' = [left EXCEPT ![s] = @ \union {p}]
        /\ team' = IF empties THEN [team EXCEPT ![from] = NoTeam] ELSE team
        /\ codes' = IF empties THEN CodesWithout(from) ELSE codes
        /\ user' = [user EXCEPT ![p] = s]
        /\ overfull' = IF n = NoCap THEN kept \union {s} ELSE kept

AddRefused(p, s, n) ==
    \/ ~Exists(s)
    \/ user[p] = s /\ p \in members[s]
    \/ p \notin members[s] /\ n # NoCap /\ Full(s, n)
    \/ user[p] \notin {NoSlug, s} /\ StrandsTeam(p, user[p])

LandForceAdd(k) ==
    LET r == request[k] IN
    /\ r.op = "forceAdd"
    /\ IF AddRefused(r.login, r.slug, r.cap) THEN UNCHANGED <<stored, overfull>>
       ELSE Adding(r.login, r.slug, r.cap)
    /\ Done(k) /\ UNCHANGED <<cap, everCaps>>

SetCap(n) ==
    /\ cap' = n
    /\ everCaps' = everCaps \union {n}
    /\ UNCHANGED <<stored, request, overfull>>

\* A request that fails before its script.
LoseRequest(k) ==
    /\ request[k] # Idle
    /\ Done(k) /\ UNCHANGED <<stored, cap, everCaps, overfull>>

TeamInit ==
    /\ team = [s \in Slugs |-> NoTeam]
    /\ members = [s \in Slugs |-> {}]
    /\ user = [p \in Players |-> NoSlug]
    /\ codes = [c \in Codes |-> NoSlug]
    /\ cap = DefaultCap
    /\ request = [k \in Slots |-> Idle]
    /\ everCaps = {DefaultCap}
    /\ overfull = {}

Requests(k) ==
    \/ \E p \in Players, s \in Slugs, c \in Codes : SendCreate(k, p, s, c) \/ SendRegenerate(k, p, s, c)
    \/ \E p \in Players, c \in Codes : ResolveCode(k, p, c)
    \/ ReadCap(k)
    \/ \E p \in Players : SendLeave(k, p)
    \/ \E p \in Players, s \in Slugs : SendForceAdd(k, p, s)
    \/ LoseRequest(k)

Scripts(k) ==
    LandCreate(k) \/ LandJoin(k) \/ LandLeave(k) \/ LandRegenerate(k) \/ LandForceAdd(k)

CaptainStep(p, s) ==
    \/ \E m \in Players : RemoveMember(p, s, m) \/ Transfer(p, s, m)
    \/ \E n \in Slugs : Rename(p, s, n)
    \/ Disband(p, s)

OverrideStep(s, m) == ForceRemove(s, m) \/ ForceTransfer(s, m)

TeamNext ==
    \/ \E k \in Slots : Requests(k) \/ Scripts(k)
    \/ \E p \in Players, s \in Slugs : CaptainStep(p, s) \/ OverrideStep(s, p)
    \/ \E n \in Caps : SetCap(n)

TeamSpec == TeamInit /\ [][TeamNext]_teamVars

(***************************************************************************)
(* Properties.                                                              *)
(***************************************************************************)
\* A player's record and the rosters never disagree, whatever requests race:
\* so a player is on one roster at most and counts for the team they see.
RosterAgrees == \A p \in Players, s \in Slugs : p \in members[s] <=> user[p] = s

\* No team outlives its captain's membership or its last member, and nobody is
\* on the roster of a team that is gone: a captainless team could not be
\* managed or disbanded by anyone on it.
CaptainOnRoster == \A s \in Slugs :
    IF Exists(s) THEN team[s].captain \in members[s] ELSE members[s] = {}

\* A team's join code leads to it and no code leads to a team that is gone or
\* has changed its code, through racing regenerations, disbands and creates.
CodesAgree == \A c \in Codes, s \in Slugs :
    codes[c] = s <=> Exists(s) /\ team[s].code = c

\* Players racing for a team's last slot never take it past every cap that has
\* been in force, however stale the cap each join read, unless an organizer
\* overrode the cap for that team.
CapHolds == \A s \in Slugs :
    s \in overfull \/ \E n \in everCaps : Cardinality(members[s]) <= n

\* The rosters and captains are those of the abstract specification.
CaptainOf == [s \in Slugs |-> team[s].captain]
Board == INSTANCE Membership WITH roster <- members, captain <- CaptainOf
ImplementsMembership == Board!MembershipSpec

\* Two teams never carry names that make the same slug.
NamesAreUnique == \A s, t \in Slugs :
    Exists(s) /\ Exists(t) /\ team[s].name = team[t].name => s = t
=============================================================================
