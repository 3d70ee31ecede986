---------------------------- MODULE TeamSupport ----------------------------
(***************************************************************************)
(* The organizer operations on teams that are not one script: disbanding a  *)
(* team (forceDisbandTeam) and deleting a contestant (deleteUser), both of  *)
(* apps/web/src/lib/admin-ops-store.ts.  Each reads what it will undo in    *)
(* one round trip and then sends the writes as a pipeline, whose commands   *)
(* Redis runs in order with other requests' scripts between them.           *)
(***************************************************************************)
EXTENDS TeamStore, Sequences
LOCAL SequenceOps == INSTANCE SequencesExt

VARIABLES support     \* the pipeline the organizer's request still has to run
supportVars == <<teamVars, support>>

\* The commands: clear a player's team field, drop a roster, a team or a join
\* code, take a player off a roster.
Command == [do : {"clearUser"}, login : Players]
           \union [do : {"dropRoster", "dropTeam"}, slug : Slugs]
           \union [do : {"dropCode"}, code : Codes]
           \union [do : {"offRoster"}, login : Players, slug : Slugs]

SupportIdle == support = <<>>

\* The read of forceDisbandTeam, and the writes it decides on: the members in
\* whatever order SMEMBERS lists them.
ReadDisband(s) ==
    /\ SupportIdle /\ Exists(s)
    /\ \E order \in SequenceOps!SetToSeqs(members[s]) :
          support' = [i \in DOMAIN order |-> [do |-> "clearUser", login |-> order[i]]]
                     \o << [do |-> "dropRoster", slug |-> s], [do |-> "dropTeam", slug |-> s],
                           [do |-> "dropCode", code |-> team[s].code] >>
    /\ UNCHANGED teamVars

\* The read of deleteUser, which refuses a captain; the contestant's progress
\* is reset before the writes are sent.
ReadDelete(p) ==
    /\ SupportIdle
    /\ user[p] # NoSlug => ~IsCaptain(p, user[p])
    /\ support' = (IF user[p] = NoSlug THEN <<>>
                   ELSE << [do |-> "offRoster", login |-> p, slug |-> user[p]] >>)
                  \o << [do |-> "clearUser", login |-> p] >>
    /\ UNCHANGED teamVars

RunCommand ==
    /\ ~SupportIdle
    /\ support' = Tail(support)
    /\ LET cmd == Head(support) IN
       \/ /\ cmd.do = "clearUser"
          /\ user' = [user EXCEPT ![cmd.login] = NoSlug]
          /\ UNCHANGED <<team, members, codes, overfull>>
       \/ /\ cmd.do = "dropRoster"
          /\ members' = [members EXCEPT ![cmd.slug] = {}]
          /\ UNCHANGED <<team, user, codes, overfull>>
       \/ /\ cmd.do = "dropTeam"
          /\ team' = [team EXCEPT ![cmd.slug] = NoTeam]
          /\ overfull' = overfull \ {cmd.slug}
          /\ UNCHANGED <<members, user, codes>>
       \/ /\ cmd.do = "dropCode"
          /\ codes' = [codes EXCEPT ![cmd.code] = NoSlug]
          /\ UNCHANGED <<team, members, user, overfull>>
       \/ /\ cmd.do = "offRoster"
          /\ members' = [members EXCEPT ![cmd.slug] = @ \ {cmd.login}]
          /\ UNCHANGED <<team, user, codes, overfull>>
    /\ UNCHANGED <<cap, request, everCaps>>

SupportInit == TeamInit /\ support = <<>>

SupportNext ==
    \/ TeamNext /\ UNCHANGED support
    \/ \E s \in Slugs : ReadDisband(s)
    \/ \E p \in Players : ReadDelete(p)
    \/ RunCommand

SupportSpec == SupportInit /\ [][SupportNext]_supportVars

(***************************************************************************)
(* Properties, once the organizer's request is done.                        *)
(***************************************************************************)
\* A join code never leads to a team that is gone, so /join/<code> never shows
\* a ghost.
CodesLeadToTeams == SupportIdle => \A c \in Codes : codes[c] # NoSlug => Exists(codes[c])

\* A member set and the record that points at it never disagree.
RosterAgreesAtRest == SupportIdle => RosterAgrees
=============================================================================
