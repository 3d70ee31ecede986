---------------------------- MODULE Stores_proofs ----------------------------
(***************************************************************************)
(* The two stores that many requests write at once: the teams, and what the *)
(* organizers put up.                                                       *)
(*                                                                          *)
(* For any players, teams, join codes, caps and number of requests in       *)
(* flight: the four kinds of key agree, the cap holds, and the rosters and  *)
(* captains behave as Membership says.                                      *)
(*                                                                          *)
(* For any items, categories, files, caps and number of requests in flight, *)
(* crashes included: the stored totals are exact and within their caps, a   *)
(* listed file has its chunks and a chunk its file, the lists are well      *)
(* formed, and a lone request leaves the categories covered.                *)
(***************************************************************************)
EXTENDS TeamStore, Content, Sums, FiniteSetTheorems, SequenceTheorems, TLAPS

(***************************************************************************)
(* The inductive invariant.  The scripts check the caller and the team but  *)
(* trust the join code they are handed, so beyond the agreement of the keys *)
(* it says what makes that code safe: one drawn and not yet stored is still *)
(* free and nobody else's.                                                  *)
(***************************************************************************)
Drawing(k) == request[k].op \in {"create", "regenerate"}

Formed == \A k \in Slots : request[k].op # "none" =>
              request[k].login \in Players /\ request[k].slug \in Slugs
DrawsFree == \A k \in Slots : Drawing(k) =>
                 request[k].code \in Codes /\ codes[request[k].code] = NoSlug
DrawsDistinct == \A j, k \in Slots : Drawing(k) /\ j # k => request[j].code # request[k].code

TeamInv ==
    /\ TeamTypeOK
    /\ RosterAgrees
    /\ CaptainOnRoster
    /\ CodesAgree
    /\ Formed
    /\ DrawsFree
    /\ DrawsDistinct

USE TeamAssumption

LEMMA TeamInitInv == TeamInit => TeamInv
<1> SUFFICES ASSUME TeamInit PROVE TeamInv OBVIOUS
<1> USE DEF TeamInit
<1>1. TeamTypeOK BY DEF TeamTypeOK, Request, Idle, NoCap
<1>2. RosterAgrees BY DEF RosterAgrees
<1>3. CaptainOnRoster BY DEF CaptainOnRoster, Exists
<1>4. CodesAgree BY DEF CodesAgree, Exists
<1>5. Formed BY DEF Formed, Idle
<1>6. DrawsFree /\ DrawsDistinct BY DEF DrawsFree, DrawsDistinct, Drawing, Idle
<1>7. QED BY <1>1, <1>2, <1>3, <1>4, <1>5, <1>6 DEF TeamInv

(***************************************************************************)
(* Requests.                                                                *)
(***************************************************************************)
\* What the keys say does not depend on the requests in flight.
LEMMA StoredKept ==
    ASSUME RosterAgrees, CaptainOnRoster, CodesAgree, UNCHANGED stored
    PROVE  RosterAgrees' /\ CaptainOnRoster' /\ CodesAgree'
BY DEF stored, RosterAgrees, CaptainOnRoster, CodesAgree, Exists

\* A request that draws a code nobody has, or draws none, is well formed.
LEMMA SendInv ==
    ASSUME TeamInv, NEW k \in Slots, NEW r \in Request, Send(k, r),
           r.login \in Players, r.slug \in Slugs,
           IF r.op \in {"create", "regenerate"} THEN r.code \in Codes /\ Drawable(r.code)
           ELSE r.code = NoCode
    PROVE  TeamInv'
<1> USE DEF TeamInv, Send
<1>1. request' \in [Slots -> Request] /\ request'[k] = r
      /\ \A j \in Slots : j # k => request'[j] = request[j]
  BY DEF TeamTypeOK
<1>2. UNCHANGED <<team, members, user, codes, cap, everCaps, overfull>> BY DEF stored
<1>3. TeamTypeOK' BY <1>1, <1>2 DEF TeamTypeOK
<1>4. RosterAgrees' /\ CaptainOnRoster' /\ CodesAgree' BY StoredKept
<1>5. Formed' BY <1>1 DEF Formed
<1>6. DrawsFree' BY <1>1, <1>2 DEF DrawsFree, Drawing, Drawable
<1>7. DrawsDistinct'
  <2>1. SUFFICES ASSUME NEW i \in Slots, NEW j \in Slots, Drawing(j)', i # j
                 PROVE  request'[i].code # request'[j].code
    BY DEF DrawsDistinct
  <2>2. CASE i = k BY <1>1, <2>1, <2>2 DEF DrawsFree, Drawing, Drawable
  <2>3. CASE j = k BY <1>1, <2>1, <2>3 DEF Drawing, Drawable
  <2>4. CASE i # k /\ j # k BY <1>1, <2>1, <2>4 DEF DrawsDistinct, Drawing
  <2>5. QED BY <2>2, <2>3, <2>4
<1>8. QED BY <1>3, <1>4, <1>5, <1>6, <1>7

\* A request that is done leaves the others well formed as long as it stores no
\* code but its own.
LEMMA DoneInv ==
    ASSUME TeamInv, NEW k \in Slots, Done(k),
           \A c \in Codes : \/ codes'[c] = NoSlug \/ codes[c] # NoSlug
                            \/ Drawing(k) /\ c = request[k].code
    PROVE  request' \in [Slots -> Request] /\ Formed' /\ DrawsFree' /\ DrawsDistinct'
<1> USE DEF TeamInv, Done
<1>1. request' \in [Slots -> Request] /\ request'[k] = Idle
      /\ \A j \in Slots : j # k => request'[j] = request[j]
  BY DEF TeamTypeOK, Request, Idle, NoCap
<1>2. Formed' BY <1>1 DEF Formed, Idle
<1>3. DrawsFree'
  <2>1. SUFFICES ASSUME NEW j \in Slots, Drawing(j)'
                 PROVE  request'[j].code \in Codes /\ codes'[request'[j].code] = NoSlug
    BY DEF DrawsFree
  <2>2. j # k BY <1>1, <2>1 DEF Drawing, Idle
  <2>3. request'[j] = request[j] /\ Drawing(j) BY <1>1, <2>1, <2>2 DEF Drawing
  <2>4. Drawing(k) => request[j].code # request[k].code
    BY <2>2, <2>3 DEF DrawsDistinct
  <2>5. QED BY <2>3, <2>4 DEF DrawsFree
<1>4. DrawsDistinct'
  <2>1. SUFFICES ASSUME NEW i \in Slots, NEW j \in Slots, Drawing(j)', i # j
                 PROVE  request'[i].code # request'[j].code
    BY DEF DrawsDistinct
  <2>2. j # k BY <1>1, <2>1 DEF Drawing, Idle
  <2>3. request'[j] = request[j] /\ Drawing(j) BY <1>1, <2>1, <2>2 DEF Drawing
  <2>4. CASE i = k BY <1>1, <2>3, <2>4 DEF Idle, DrawsFree
  <2>5. CASE i # k BY <1>1, <2>1, <2>3, <2>5 DEF DrawsDistinct
  <2>6. QED BY <2>4, <2>5
<1>5. QED BY <1>1, <1>2, <1>3, <1>4

\* The steps that only start a request.
LEMMA RequestsInv == ASSUME TeamInv, NEW k \in Slots, Requests(k) PROVE TeamInv'
<1>1. ASSUME NEW p \in Players, NEW s \in Slugs, NEW c \in Codes, SendCreate(k, p, s, c)
      PROVE  TeamInv'
  <2> DEFINE r == [Idle EXCEPT !.op = "create", !.login = p, !.slug = s, !.code = c]
  <2>1. r \in Request /\ r.login = p /\ r.slug = s /\ r.code = c /\ r.op = "create"
    BY DEF Request, Idle, NoCap
  <2>2. Send(k, r) /\ Drawable(c) BY <1>1 DEF SendCreate
  <2> HIDE DEF r
  <2>3. QED BY <2>1, <2>2, SendInv
<1>2. ASSUME NEW p \in Players, NEW s \in Slugs, NEW c \in Codes, SendRegenerate(k, p, s, c)
      PROVE  TeamInv'
  <2> DEFINE r == [Idle EXCEPT !.op = "regenerate", !.login = p, !.slug = s, !.code = c]
  <2>1. r \in Request /\ r.login = p /\ r.slug = s /\ r.code = c /\ r.op = "regenerate"
    BY DEF Request, Idle, NoCap
  <2>2. Send(k, r) /\ Drawable(c) BY <1>2 DEF SendRegenerate
  <2> HIDE DEF r
  <2>3. QED BY <2>1, <2>2, SendInv
<1>3. ASSUME NEW p \in Players, NEW c \in Codes, ResolveCode(k, p, c)
      PROVE  TeamInv'
  <2> DEFINE r == [Idle EXCEPT !.op = "resolved", !.login = p, !.slug = codes[c]]
  <2>1. codes[c] \in Slugs BY <1>3 DEF ResolveCode, TeamInv, TeamTypeOK
  <2>2. r \in Request /\ r.login = p /\ r.slug \in Slugs /\ r.code = NoCode /\ r.op = "resolved"
    BY <2>1 DEF Request, Idle, NoCap
  <2>3. Send(k, r) BY <1>3 DEF ResolveCode
  <2> HIDE DEF r
  <2>4. QED BY <2>2, <2>3, SendInv
<1>4. ASSUME NEW p \in Players, SendLeave(k, p)
      PROVE  TeamInv'
  <2> DEFINE r == [Idle EXCEPT !.op = "leave", !.login = p, !.slug = user[p]]
  <2>1. user[p] \in Slugs BY <1>4 DEF SendLeave, TeamInv, TeamTypeOK
  <2>2. r \in Request /\ r.login = p /\ r.slug \in Slugs /\ r.code = NoCode /\ r.op = "leave"
    BY <2>1 DEF Request, Idle, NoCap
  <2>3. Send(k, r) BY <1>4 DEF SendLeave
  <2> HIDE DEF r
  <2>4. QED BY <2>2, <2>3, SendInv
<1>5. ASSUME NEW p \in Players, NEW s \in Slugs, SendForceAdd(k, p, s)
      PROVE  TeamInv'
  <2>1. PICK n \in ReadableCaps \union {NoCap} :
               Send(k, [Idle EXCEPT !.op = "forceAdd", !.login = p, !.slug = s, !.cap = n])
    BY <1>5 DEF SendForceAdd
  <2> DEFINE r == [Idle EXCEPT !.op = "forceAdd", !.login = p, !.slug = s, !.cap = n]
  <2>2. n \in Nat BY DEF ReadableCaps, NoCap, TeamInv, TeamTypeOK
  <2>3. r \in Request /\ r.login = p /\ r.slug = s /\ r.code = NoCode /\ r.op = "forceAdd"
    BY <2>2 DEF Request, Idle, NoCap
  <2>4. Send(k, r) BY <2>1
  <2> HIDE DEF r
  <2>5. QED BY <2>3, <2>4, SendInv
<1>6. ASSUME ReadCap(k) PROVE TeamInv'
  <2> USE DEF TeamInv
  <2>1. PICK n \in ReadableCaps :
               request' = [request EXCEPT ![k].op = "join", ![k].cap = n]
    BY <1>6 DEF ReadCap
  <2>2. n \in Nat BY DEF ReadableCaps, TeamTypeOK
  <2>3. request[k] \in Request /\ request[k].op = "resolved" BY <1>6 DEF ReadCap, TeamTypeOK
  <2>4. request' \in [Slots -> Request]
        /\ request'[k] = [request[k] EXCEPT !.op = "join", !.cap = n]
        /\ \A j \in Slots : j # k => request'[j] = request[j]
    BY <2>1, <2>2, <2>3 DEF TeamTypeOK, Request
  <2>5. request'[k].op = "join" /\ request'[k].login = request[k].login
        /\ request'[k].slug = request[k].slug /\ request'[k].code = request[k].code
    BY <2>3, <2>4 DEF Request
  <2>6. UNCHANGED <<team, members, user, codes, cap, everCaps, overfull>>
    BY <1>6 DEF ReadCap, stored
  <2>7. TeamTypeOK' BY <2>4, <2>6 DEF TeamTypeOK
  <2>8. RosterAgrees' /\ CaptainOnRoster' /\ CodesAgree' BY <2>6, StoredKept DEF stored
  <2>9. \A j \in Slots : /\ Drawing(j)' => Drawing(j)
                         /\ request'[j].code = request[j].code
                         /\ request'[j].login = request[j].login
                         /\ request'[j].slug = request[j].slug
                         /\ request'[j].op # "none" => request[j].op # "none"
    BY <2>3, <2>4, <2>5 DEF Drawing
  <2>10. Formed' BY <2>9 DEF Formed
  <2>11. DrawsFree' /\ DrawsDistinct' BY <2>6, <2>9 DEF DrawsFree, DrawsDistinct
  <2>12. QED BY <2>7, <2>8, <2>10, <2>11
<1>7. ASSUME LoseRequest(k) PROVE TeamInv'
  <2> USE DEF TeamInv
  <2>1. UNCHANGED <<team, members, user, codes, cap, everCaps, overfull>> /\ Done(k)
    BY <1>7 DEF LoseRequest, stored
  <2>2. \A c \in Codes : codes'[c] = NoSlug \/ codes[c] # NoSlug BY <2>1
  <2>3. request' \in [Slots -> Request] /\ Formed' /\ DrawsFree' /\ DrawsDistinct'
    BY <2>1, <2>2, DoneInv
  <2>4. RosterAgrees' /\ CaptainOnRoster' /\ CodesAgree' BY <2>1, StoredKept DEF stored
  <2>5. QED BY <2>1, <2>3, <2>4 DEF TeamTypeOK
<1>8. QED BY <1>1, <1>2, <1>3, <1>4, <1>5, <1>6, <1>7 DEF Requests

(***************************************************************************)
(* Scripts.                                                                 *)
(***************************************************************************)
\* A captain who may leave is on the roster alone.
LEMMA OnlyMember ==
    ASSUME TeamInv, NEW s \in Slugs, NEW p \in members[s], Cardinality(members[s]) <= 1
    PROVE  members[s] = {p}
<1>1. IsFiniteSet(members[s]) BY FS_Subset DEF TeamInv, TeamTypeOK
<1>2. Cardinality(members[s]) \in Nat BY <1>1, FS_CardinalityType
<1>3. Cardinality(members[s]) # 0 BY <1>1, FS_EmptySet
<1>4. Cardinality(members[s]) = 1 BY <1>2, <1>3
<1>5. \E x : members[s] = {x} BY <1>1, <1>4, FS_Singleton
<1>6. QED BY <1>5

\* A team's code is the one the index leads to it by.
LEMMA CodeOf ==
    ASSUME TeamInv, NEW s \in Slugs, Exists(s)
    PROVE  /\ team[s] \in Team /\ team[s].code \in Codes /\ codes[team[s].code] = s
           /\ team[s].captain \in Players
BY DEF TeamInv, TeamTypeOK, Exists, Team, CodesAgree

\* The code index once team s and its code are deleted.
LEMMA CodesWithoutFacts ==
    ASSUME TeamInv, NEW s \in Slugs
    PROVE  /\ CodesWithout(s) \in [Codes -> Slugs \union {NoSlug}]
           /\ \A c \in Codes : CodesWithout(s)[c] = IF codes[c] = s THEN NoSlug ELSE codes[c]
<1>1. CASE Exists(s)
  <2>1. CodesWithout(s) = [codes EXCEPT ![team[s].code] = NoSlug] BY <1>1 DEF CodesWithout
  <2>2. \A c \in Codes : codes[c] = s <=> c = team[s].code
    BY <1>1, CodeOf DEF TeamInv, CodesAgree
  <2>3. codes \in [Codes -> Slugs \union {NoSlug}] BY DEF TeamInv, TeamTypeOK
  <2>4. QED BY <2>1, <2>2, <2>3
<1>2. CASE ~Exists(s)
  <2>1. CodesWithout(s) = codes BY <1>2 DEF CodesWithout
  <2>2. \A c \in Codes : codes[c] # s BY <1>2 DEF TeamInv, CodesAgree
  <2>3. codes \in [Codes -> Slugs \union {NoSlug}] BY DEF TeamInv, TeamTypeOK
  <2>4. QED BY <2>1, <2>2, <2>3
<1>3. QED BY <1>1, <1>2

\* A script that changes nothing but ends its request.
LEMMA NothingStored ==
    ASSUME TeamInv, NEW k \in Slots, Done(k), UNCHANGED <<stored, cap, everCaps, overfull>>
    PROVE  TeamInv'
<1> USE DEF TeamInv
<1>1. UNCHANGED <<team, members, user, codes, cap, everCaps, overfull>> BY DEF stored
<1>2. \A c \in Codes : codes'[c] = NoSlug \/ codes[c] # NoSlug BY <1>1
<1>3. request' \in [Slots -> Request] /\ Formed' /\ DrawsFree' /\ DrawsDistinct'
  BY <1>2, DoneInv
<1>4. RosterAgrees' /\ CaptainOnRoster' /\ CodesAgree' BY StoredKept
<1>5. QED BY <1>1, <1>3, <1>4 DEF TeamTypeOK

LEMMA LandCreateInv == ASSUME TeamInv, NEW k \in Slots, LandCreate(k) PROVE TeamInv'
<1> DEFINE r == request[k]
<1> USE DEF TeamInv
<1>1. r.op = "create" /\ Done(k) /\ UNCHANGED <<cap, everCaps, overfull>>
  BY DEF LandCreate
<1>2. r \in Request /\ r.login \in Players /\ r.slug \in Slugs /\ r.code \in Codes
      /\ Drawing(k) /\ codes[r.code] = NoSlug
  BY <1>1 DEF TeamTypeOK, Formed, DrawsFree, Drawing
<1>3. CASE user[r.login] # NoSlug \/ Exists(r.slug)
  <2>1. UNCHANGED stored BY <1>3 DEF LandCreate
  <2>2. QED BY <2>1, <1>1, NothingStored
<1>4. CASE ~(user[r.login] # NoSlug \/ Exists(r.slug))
  <2> DEFINE new == [captain |-> r.login, name |-> r.slug, code |-> r.code]
  <2>1. /\ team' = [team EXCEPT ![r.slug] = new]
        /\ members' = [members EXCEPT ![r.slug] = @ \union {r.login}]
        /\ user' = [user EXCEPT ![r.login] = r.slug]
        /\ codes' = [codes EXCEPT ![r.code] = r.slug]
    BY <1>4 DEF LandCreate
  <2>2. members[r.slug] = {} /\ user[r.login] = NoSlug BY <1>2, <1>4 DEF CaptainOnRoster
  <2>3. new \in Team /\ new.captain = r.login /\ new.code = r.code /\ new # NoTeam
    BY <1>2 DEF Team, NoTeam
  <2> HIDE DEF new
  <2>4. /\ team' \in [Slugs -> Team \union {NoTeam}] /\ team'[r.slug] = new
        /\ \A s \in Slugs : s # r.slug => team'[s] = team[s]
    BY <2>1, <2>3, <1>2 DEF TeamTypeOK
  <2>5. /\ members' \in [Slugs -> SUBSET Players] /\ members'[r.slug] = {r.login}
        /\ \A s \in Slugs : s # r.slug => members'[s] = members[s]
    BY <2>1, <2>2, <1>2 DEF TeamTypeOK
  <2>6. /\ user' \in [Players -> Slugs \union {NoSlug}] /\ user'[r.login] = r.slug
        /\ \A p \in Players : p # r.login => user'[p] = user[p]
    BY <2>1, <1>2 DEF TeamTypeOK
  <2>7. /\ codes' \in [Codes -> Slugs \union {NoSlug}] /\ codes'[r.code] = r.slug
        /\ \A c \in Codes : c # r.code => codes'[c] = codes[c]
    BY <2>1, <1>2 DEF TeamTypeOK
  <2>8. \A c \in Codes : codes'[c] = NoSlug \/ codes[c] # NoSlug \/ (Drawing(k) /\ c = r.code)
    BY <2>7, <1>2
  <2>9. request' \in [Slots -> Request] /\ Formed' /\ DrawsFree' /\ DrawsDistinct'
    BY <1>1, <2>8, DoneInv
  <2>10. TeamTypeOK' BY <1>1, <2>4, <2>5, <2>6, <2>7, <2>9 DEF TeamTypeOK
  <2>11. RosterAgrees' BY <1>2, <2>2, <2>5, <2>6 DEF RosterAgrees
  <2>12. CaptainOnRoster' BY <2>3, <2>4, <2>5 DEF CaptainOnRoster, Exists
  <2>13. CodesAgree'
    <3>1. SUFFICES ASSUME NEW c \in Codes, NEW s \in Slugs
                   PROVE  codes'[c] = s <=> (Exists(s)' /\ team'[s].code = c)
      BY DEF CodesAgree
    <3>2. CASE s = r.slug
      <4>1. \A d \in Codes : codes[d] # s BY <1>4, <3>2 DEF CodesAgree
      <4>2. QED BY <2>3, <2>4, <2>7, <3>2, <4>1 DEF Exists
    <3>3. CASE s # r.slug
      <4>1. Exists(s)' <=> Exists(s) BY <2>4, <3>3 DEF Exists
      <4>2. Exists(s) => team[s].code # r.code BY <1>2, CodeOf
      <4>3. QED BY <1>2, <2>4, <2>7, <3>3, <4>1, <4>2 DEF CodesAgree
    <3>4. QED BY <3>2, <3>3
  <2>14. QED BY <2>9, <2>10, <2>11, <2>12, <2>13
<1>5. QED BY <1>3, <1>4

LEMMA LandJoinInv == ASSUME TeamInv, NEW k \in Slots, LandJoin(k) PROVE TeamInv'
<1> DEFINE r == request[k]
<1> USE DEF TeamInv
<1>1. r.op = "join" /\ Done(k) /\ UNCHANGED <<team, codes, cap, everCaps, overfull>>
  BY DEF LandJoin
<1>2. r \in Request /\ r.login \in Players /\ r.slug \in Slugs
  BY <1>1 DEF TeamTypeOK, Formed
<1>3. CASE user[r.login] # NoSlug \/ ~Exists(r.slug) \/ Full(r.slug, r.cap)
  <2>1. UNCHANGED <<members, user>> BY <1>3 DEF LandJoin
  <2>2. QED BY <2>1, <1>1, NothingStored DEF stored
<1>4. CASE ~(user[r.login] # NoSlug \/ ~Exists(r.slug) \/ Full(r.slug, r.cap))
  <2>1. /\ members' = [members EXCEPT ![r.slug] = @ \union {r.login}]
        /\ user' = [user EXCEPT ![r.login] = r.slug]
    BY <1>4 DEF LandJoin
  <2>2. user[r.login] = NoSlug BY <1>4
  <2>3. \A c \in Codes : codes'[c] = NoSlug \/ codes[c] # NoSlug BY <1>1
  <2>4. request' \in [Slots -> Request] /\ Formed' /\ DrawsFree' /\ DrawsDistinct'
    BY <1>1, <2>3, DoneInv
  <2>5. /\ members' \in [Slugs -> SUBSET Players]
        /\ \A s \in Slugs : members'[s] = IF s = r.slug THEN members[s] \union {r.login} ELSE members[s]
    BY <2>1, <1>2 DEF TeamTypeOK
  <2>6. /\ user' \in [Players -> Slugs \union {NoSlug}]
        /\ \A p \in Players : user'[p] = IF p = r.login THEN r.slug ELSE user[p]
    BY <2>1, <1>2 DEF TeamTypeOK
  <2>7. TeamTypeOK' BY <1>1, <2>4, <2>5, <2>6 DEF TeamTypeOK
  <2>8. RosterAgrees' BY <1>2, <2>2, <2>5, <2>6 DEF RosterAgrees
  <2>9. CaptainOnRoster' BY <1>1, <1>4, <2>5 DEF CaptainOnRoster, Exists
  <2>10. CodesAgree' BY <1>1 DEF CodesAgree, Exists
  <2>11. QED BY <2>4, <2>7, <2>8, <2>9, <2>10
<1>5. QED BY <1>3, <1>4

\* What is left when p leaves s: the other members, or nothing at all.
LEMMA LeavingFacts ==
    ASSUME TeamInv, NEW s \in Slugs, NEW p \in members[s], ~StrandsTeam(p, s), Leaving(p, s)
    PROVE  /\ members' = [members EXCEPT ![s] = @ \ {p}]
           /\ team' \in [Slugs -> Team \union {NoTeam}]
           /\ codes' \in [Codes -> Slugs \union {NoSlug}]
           /\ overfull' \subseteq overfull
           /\ \A t \in Slugs : t # s => team'[t] = team[t]
           /\ team'[s] = IF members[s] = {p} THEN NoTeam ELSE team[s]
           /\ \A c \in Codes : codes'[c] = IF members[s] = {p} /\ codes[c] = s THEN NoSlug ELSE codes[c]
           /\ members[s] # {p} => team[s].captain # p
<1> USE DEF TeamInv
<1>1. members[s] # {p} => team[s].captain # p
  <2>1. SUFFICES ASSUME members[s] # {p}, team[s].captain = p PROVE FALSE OBVIOUS
  <2>2. Cardinality(members[s]) \in Nat
    BY FS_Subset, FS_CardinalityType DEF TeamTypeOK
  <2>3. Cardinality(members[s]) <= 1 BY <2>1, <2>2 DEF StrandsTeam, IsCaptain
  <2>4. QED BY <2>1, <2>3, OnlyMember
<1>2. members' = [members EXCEPT ![s] = @ \ {p}] BY DEF Leaving
<1>3. CASE members[s] = {p}
  <2>1. team' = [team EXCEPT ![s] = NoTeam] /\ codes' = CodesWithout(s) /\ overfull' = overfull \ {s}
    BY <1>3 DEF Leaving
  <2>2. QED BY <1>1, <1>2, <1>3, <2>1, CodesWithoutFacts DEF TeamTypeOK
<1>4. CASE members[s] # {p}
  <2>1. UNCHANGED <<team, codes, overfull>> BY <1>4 DEF Leaving
  <2>2. QED BY <1>1, <1>2, <1>4, <2>1 DEF TeamTypeOK
<1>5. QED BY <1>3, <1>4

LEMMA LandLeaveInv == ASSUME TeamInv, NEW k \in Slots, LandLeave(k) PROVE TeamInv'
<1> DEFINE p == request[k].login
           s == request[k].slug
<1> USE DEF TeamInv
<1>1. request[k].op = "leave" /\ Done(k) /\ UNCHANGED <<cap, everCaps>>
  BY DEF LandLeave
<1>2. p \in Players /\ s \in Slugs BY <1>1 DEF TeamTypeOK, Formed
<1>3. CASE user[p] # s \/ StrandsTeam(p, s)
  <2>1. UNCHANGED <<stored, overfull>> BY <1>3 DEF LandLeave
  <2>2. QED BY <2>1, <1>1, NothingStored
<1>4. CASE ~(user[p] # s \/ StrandsTeam(p, s))
  <2>1. Leaving(p, s) /\ user' = [user EXCEPT ![p] = NoSlug] BY <1>4 DEF LandLeave
  <2>2. p \in members[s] BY <1>2, <1>4 DEF RosterAgrees
  <2> HIDE DEF p, s
  <2>3. /\ members' = [members EXCEPT ![s] = @ \ {p}]
        /\ team' \in [Slugs -> Team \union {NoTeam}]
        /\ codes' \in [Codes -> Slugs \union {NoSlug}]
        /\ overfull' \subseteq overfull
        /\ \A t \in Slugs : t # s => team'[t] = team[t]
        /\ team'[s] = IF members[s] = {p} THEN NoTeam ELSE team[s]
        /\ \A c \in Codes : codes'[c] = IF members[s] = {p} /\ codes[c] = s THEN NoSlug ELSE codes[c]
        /\ members[s] # {p} => team[s].captain # p
    BY <1>2, <1>4, <2>1, <2>2, LeavingFacts
  <2>4. \A c \in Codes : codes'[c] = NoSlug \/ codes[c] # NoSlug BY <2>3
  <2>5. request' \in [Slots -> Request] /\ Formed' /\ DrawsFree' /\ DrawsDistinct'
    BY <1>1, <2>4, DoneInv
  <2>6. /\ members' \in [Slugs -> SUBSET Players]
        /\ \A t \in Slugs : members'[t] = IF t = s THEN members[s] \ {p} ELSE members[t]
    BY <1>2, <2>3 DEF TeamTypeOK
  <2>7. /\ user' \in [Players -> Slugs \union {NoSlug}]
        /\ \A q \in Players : user'[q] = IF q = p THEN NoSlug ELSE user[q]
    BY <1>2, <2>1 DEF TeamTypeOK
  <2>8. TeamTypeOK' BY <1>1, <2>3, <2>5, <2>6, <2>7 DEF TeamTypeOK
  <2>9. RosterAgrees' BY <1>2, <2>2, <2>6, <2>7 DEF RosterAgrees
  <2>10. CaptainOnRoster' BY <2>2, <2>3, <2>6 DEF CaptainOnRoster, Exists
  <2>11. CodesAgree' BY <2>2, <2>3 DEF CodesAgree, Exists
  <2>12. QED BY <2>5, <2>8, <2>9, <2>10, <2>11
<1>5. QED BY <1>3, <1>4

LEMMA LandRegenerateInv == ASSUME TeamInv, NEW k \in Slots, LandRegenerate(k) PROVE TeamInv'
<1> DEFINE s == request[k].slug
           new == request[k].code
           old == team[s].code
<1> USE DEF TeamInv
<1>1. /\ request[k].op = "regenerate" /\ Done(k)
      /\ UNCHANGED <<members, user, cap, everCaps, overfull>>
  BY DEF LandRegenerate
<1>2. /\ request[k].login \in Players /\ s \in Slugs /\ new \in Codes
      /\ Drawing(k) /\ codes[new] = NoSlug
  BY <1>1 DEF TeamTypeOK, Formed, DrawsFree, Drawing
<1>3. CASE ~IsCaptain(request[k].login, s)
  <2>1. UNCHANGED <<team, codes>> BY <1>3 DEF LandRegenerate
  <2>2. QED BY <2>1, <1>1, NothingStored DEF stored
<1>4. CASE IsCaptain(request[k].login, s)
  <2>1. /\ team' = [team EXCEPT ![s].code = new]
        /\ codes' = [codes EXCEPT ![old] = NoSlug, ![new] = s]
    BY <1>4 DEF LandRegenerate
  <2>2. Exists(s) BY <1>2, <1>4 DEF IsCaptain, Exists, NoTeam
  <2>3. team[s] \in Team /\ old \in Codes /\ codes[old] = s BY <1>2, <2>2, CodeOf
  <2> HIDE DEF s, new, old
  <2>4. /\ team' \in [Slugs -> Team \union {NoTeam}]
        /\ team'[s] \in Team /\ team'[s].code = new /\ team'[s].captain = team[s].captain
        /\ \A t \in Slugs : t # s => team'[t] = team[t]
    BY <1>2, <2>1, <2>3 DEF TeamTypeOK, Team
  <2>5. /\ codes' \in [Codes -> Slugs \union {NoSlug}]
        /\ \A c \in Codes : codes'[c] = IF c = new THEN s ELSE IF c = old THEN NoSlug ELSE codes[c]
    BY <1>2, <2>1, <2>3 DEF TeamTypeOK
  <2>6. \A c \in Codes : \/ codes'[c] = NoSlug \/ codes[c] # NoSlug
                         \/ Drawing(k) /\ c = request[k].code
    BY <1>2, <2>5 DEF new
  <2>7. request' \in [Slots -> Request] /\ Formed' /\ DrawsFree' /\ DrawsDistinct'
    BY <1>1, <2>6, DoneInv
  <2>8. TeamTypeOK' BY <1>1, <2>4, <2>5, <2>7 DEF TeamTypeOK
  <2>9. RosterAgrees' BY <1>1 DEF RosterAgrees
  <2>10. team'[s] # NoTeam BY <2>4 DEF Team, NoTeam
  <2>11. CaptainOnRoster' BY <1>1, <2>2, <2>4, <2>10 DEF CaptainOnRoster, Exists
  <2>12. CodesAgree'
    <3>1. SUFFICES ASSUME NEW c \in Codes, NEW t \in Slugs
                   PROVE  codes'[c] = t <=> (Exists(t)' /\ team'[t].code = c)
      BY DEF CodesAgree
    <3>2. CASE t = s
      <4>1. codes[c] = s <=> c = old BY <2>2, <1>2 DEF CodesAgree, old
      <4>2. QED BY <1>2, <2>4, <2>5, <2>10, <3>2, <4>1 DEF Exists
    <3>3. CASE t # s
      <4>1. codes'[c] = t <=> codes[c] = t BY <1>2, <2>3, <2>5, <3>3
      <4>2. QED BY <2>4, <3>3, <4>1 DEF CodesAgree, Exists
    <3>4. QED BY <3>2, <3>3
  <2>13. QED BY <2>7, <2>8, <2>9, <2>11, <2>12
<1>5. QED BY <1>3, <1>4

\* A player who moves leaves their old team as LeavingFacts says, and is on
\* the new one.
LEMMA AddingFacts ==
    ASSUME TeamInv, NEW p \in Players, NEW s \in Slugs, NEW n \in Nat,
           ~AddRefused(p, s, n), Adding(p, s, n)
    PROVE  LET gone == user[p] # NoSlug /\ members[user[p]] = {p}
           IN  /\ Exists(s) /\ user[p] # s
               /\ user' = [user EXCEPT ![p] = s]
               /\ members' \in [Slugs -> SUBSET Players]
               /\ \A t \in Slugs : members'[t] = IF t = s THEN members[t] \union {p} ELSE members[t] \ {p}
               /\ team' = IF gone THEN [team EXCEPT ![user[p]] = NoTeam] ELSE team
               /\ codes' \in [Codes -> Slugs \union {NoSlug}]
               /\ \A c \in Codes : codes'[c] = IF gone /\ codes[c] = user[p] THEN NoSlug ELSE codes[c]
               /\ overfull' \subseteq overfull \union {s}
               /\ user[p] # NoSlug /\ ~gone => team[user[p]].captain # p
<1> USE DEF TeamInv
<1> DEFINE from == user[p]
           moves == from # NoSlug /\ from # s
           thinned == IF moves THEN [members EXCEPT ![from] = @ \ {p}] ELSE members
           empties == moves /\ thinned[from] = {}
           kept == IF empties THEN overfull \ {from} ELSE overfull
<1>1. /\ members' = [thinned EXCEPT ![s] = @ \union {p}]
      /\ team' = IF empties THEN [team EXCEPT ![from] = NoTeam] ELSE team
      /\ codes' = IF empties THEN CodesWithout(from) ELSE codes
      /\ user' = [user EXCEPT ![p] = s]
      /\ overfull' = IF n = NoCap THEN kept \union {s} ELSE kept
  BY DEF Adding
<1>2. from \in Slugs \union {NoSlug} /\ \A t \in Slugs : p \in members[t] <=> from = t
  BY DEF TeamTypeOK, RosterAgrees
<1>3. Exists(s) /\ from # s BY <1>2 DEF AddRefused
<1>4. moves <=> from \in Slugs BY <1>2, <1>3
<1>5. moves => ~StrandsTeam(p, from) BY <1>3 DEF AddRefused
<1>6. \A t \in Slugs : thinned[t] = members[t] \ {p}
  BY <1>2, <1>3, <1>4 DEF TeamTypeOK
<1>7. thinned \in [Slugs -> SUBSET Players] BY DEF TeamTypeOK
<1>8. empties <=> from # NoSlug /\ members[from] = {p}
  BY <1>2, <1>4, <1>6
<1>9. moves /\ members[from] # {p} => team[from].captain # p
  <2>1. SUFFICES ASSUME moves, members[from] # {p}, team[from].captain = p PROVE FALSE OBVIOUS
  <2>2. from \in Slugs /\ p \in members[from] BY <1>2, <1>4, <2>1
  <2>3. Cardinality(members[from]) \in Nat
    BY <2>2, FS_Subset, FS_CardinalityType DEF TeamTypeOK
  <2>4. Cardinality(members[from]) <= 1 BY <1>5, <2>1, <2>3 DEF StrandsTeam, IsCaptain
  <2>5. QED BY <2>1, <2>2, <2>4, OnlyMember
<1> HIDE DEF thinned, kept
<1>10. members' \in [Slugs -> SUBSET Players]
       /\ \A t \in Slugs : members'[t] = IF t = s THEN members[t] \union {p} ELSE members[t] \ {p}
  BY <1>1, <1>6, <1>7
<1>11. codes' \in [Codes -> Slugs \union {NoSlug}]
       /\ \A c \in Codes : codes'[c] = IF empties /\ codes[c] = from THEN NoSlug ELSE codes[c]
  BY <1>1, <1>4, CodesWithoutFacts DEF TeamTypeOK
<1>12. overfull' \subseteq overfull \union {s} BY <1>1 DEF kept
<1> HIDE DEF empties
<1>13. QED BY <1>1, <1>3, <1>4, <1>8, <1>9, <1>10, <1>11, <1>12

LEMMA LandForceAddInv == ASSUME TeamInv, NEW k \in Slots, LandForceAdd(k) PROVE TeamInv'
<1> DEFINE p == request[k].login
           s == request[k].slug
           n == request[k].cap
           gone == user[p] # NoSlug /\ members[user[p]] = {p}
<1> USE DEF TeamInv
<1>1. request[k].op = "forceAdd" /\ Done(k) /\ UNCHANGED <<cap, everCaps>>
  BY DEF LandForceAdd
<1>2. p \in Players /\ s \in Slugs /\ n \in Nat BY <1>1 DEF TeamTypeOK, Formed, Request
<1>3. CASE AddRefused(p, s, n)
  <2>1. UNCHANGED <<stored, overfull>> BY <1>3 DEF LandForceAdd
  <2>2. QED BY <2>1, <1>1, NothingStored
<1>4. CASE ~AddRefused(p, s, n)
  <2>1. Adding(p, s, n) BY <1>4 DEF LandForceAdd
  <2> HIDE DEF p, s, n
  <2>2. /\ Exists(s) /\ user[p] # s
        /\ user' = [user EXCEPT ![p] = s]
        /\ members' \in [Slugs -> SUBSET Players]
        /\ \A t \in Slugs : members'[t] = IF t = s THEN members[t] \union {p} ELSE members[t] \ {p}
        /\ team' = IF gone THEN [team EXCEPT ![user[p]] = NoTeam] ELSE team
        /\ codes' \in [Codes -> Slugs \union {NoSlug}]
        /\ \A c \in Codes : codes'[c] = IF gone /\ codes[c] = user[p] THEN NoSlug ELSE codes[c]
        /\ overfull' \subseteq overfull \union {s}
        /\ user[p] # NoSlug /\ ~gone => team[user[p]].captain # p
    BY <1>2, <1>4, <2>1, AddingFacts
  <2>3. user[p] \in Slugs \union {NoSlug} /\ \A t \in Slugs : p \in members[t] <=> user[p] = t
    BY <1>2 DEF TeamTypeOK, RosterAgrees
  <2>4. gone => user[p] \in Slugs BY <2>3
  <2> HIDE DEF gone
  <2>5. \A c \in Codes : codes'[c] = NoSlug \/ codes[c] # NoSlug BY <2>2
  <2>6. request' \in [Slots -> Request] /\ Formed' /\ DrawsFree' /\ DrawsDistinct'
    BY <1>1, <2>5, DoneInv
  <2>7. team' \in [Slugs -> Team \union {NoTeam}]
        /\ \A t \in Slugs : team'[t] = IF gone /\ t = user[p] THEN NoTeam ELSE team[t]
    BY <2>2, <2>4 DEF TeamTypeOK
  <2>8. user' \in [Players -> Slugs \union {NoSlug}]
        /\ \A q \in Players : user'[q] = IF q = p THEN s ELSE user[q]
    BY <1>2, <2>2 DEF TeamTypeOK
  <2>9. TeamTypeOK' BY <1>1, <1>2, <2>2, <2>6, <2>7, <2>8 DEF TeamTypeOK
  <2>10. RosterAgrees' BY <1>2, <2>2, <2>8 DEF RosterAgrees
  <2>11. CaptainOnRoster'
    <3>1. SUFFICES ASSUME NEW t \in Slugs
                   PROVE  IF team'[t] # NoTeam THEN team'[t].captain \in members'[t] ELSE members'[t] = {}
      BY DEF CaptainOnRoster, Exists
    <3>2. CASE gone /\ t = user[p]
      <4>1. members'[t] = {} BY <2>2, <2>3, <3>2 DEF gone
      <4>2. QED BY <2>7, <3>2, <4>1
    <3>3. CASE ~(gone /\ t = user[p])
      <4>1. team'[t] = team[t] BY <2>7, <3>3
      <4>2. Exists(t) => team[t].captain # p \/ t = s \/ p \notin members[t]
        BY <2>2, <2>3, <3>3
      <4>3. t = s => Exists(t) BY <2>2
      <4>4. QED BY <2>2, <4>1, <4>2, <4>3 DEF CaptainOnRoster, Exists
    <3>4. QED BY <3>2, <3>3
  <2>12. CodesAgree' BY <2>2, <2>4, <2>7 DEF CodesAgree, Exists
  <2>13. QED BY <2>6, <2>9, <2>10, <2>11, <2>12
<1>5. QED BY <1>3, <1>4

(***************************************************************************)
(* The captain's and the organizer's single scripts.                        *)
(***************************************************************************)
\* A step that leaves the requests and the join codes alone.
LEMMA RequestsKept ==
    ASSUME TeamInv, UNCHANGED request, \A c \in Codes : codes'[c] = NoSlug \/ codes[c] # NoSlug
    PROVE  request' \in [Slots -> Request] /\ Formed' /\ DrawsFree' /\ DrawsDistinct'
BY DEF TeamInv, TeamTypeOK, Formed, DrawsFree, DrawsDistinct, Drawing

\* Taking a member who is not the captain off a roster, by either script.
LEMMA TakenOff ==
    ASSUME TeamInv, NEW s \in Slugs, NEW m \in members[s], team[s].captain # m,
           members' = [members EXCEPT ![s] = @ \ {m}], user' = [user EXCEPT ![m] = NoSlug],
           UNCHANGED <<team, codes, cap, request, everCaps, overfull>>
    PROVE  TeamInv'
<1> USE DEF TeamInv
<1>1. m \in Players /\ user[m] = s BY DEF TeamTypeOK, RosterAgrees
<1>2. /\ members' \in [Slugs -> SUBSET Players]
      /\ \A t \in Slugs : members'[t] = IF t = s THEN members[t] \ {m} ELSE members[t]
  BY DEF TeamTypeOK
<1>3. /\ user' \in [Players -> Slugs \union {NoSlug}]
      /\ \A q \in Players : user'[q] = IF q = m THEN NoSlug ELSE user[q]
  BY <1>1 DEF TeamTypeOK
<1>4. request' \in [Slots -> Request] /\ Formed' /\ DrawsFree' /\ DrawsDistinct'
  <2>1. \A c \in Codes : codes'[c] = NoSlug \/ codes[c] # NoSlug OBVIOUS
  <2>2. QED BY <2>1, RequestsKept
<1>5. TeamTypeOK' BY <1>2, <1>3, <1>4 DEF TeamTypeOK
<1>6. RosterAgrees' BY <1>1, <1>2, <1>3 DEF RosterAgrees
<1>7. Exists(s) BY DEF CaptainOnRoster
<1>8. CaptainOnRoster' BY <1>2, <1>7 DEF CaptainOnRoster, Exists
<1>9. CodesAgree' BY DEF CodesAgree, Exists
<1>10. QED BY <1>4, <1>5, <1>6, <1>8, <1>9

\* Renaming a team or handing it to a member keeps its code and roster.
LEMMA Amended ==
    ASSUME TeamInv, NEW s \in Slugs, Exists(s), NEW t \in Team,
           t.code = team[s].code, t.captain \in members[s],
           team' = [team EXCEPT ![s] = t],
           UNCHANGED <<members, user, codes, cap, request, everCaps, overfull>>
    PROVE  TeamInv'
<1> USE DEF TeamInv
<1>1. t # NoTeam BY DEF Team, NoTeam
<1>2. /\ team' \in [Slugs -> Team \union {NoTeam}] /\ team'[s] = t
      /\ \A u \in Slugs : u # s => team'[u] = team[u]
  BY DEF TeamTypeOK
<1>3. request' \in [Slots -> Request] /\ Formed' /\ DrawsFree' /\ DrawsDistinct'
  <2>1. \A c \in Codes : codes'[c] = NoSlug \/ codes[c] # NoSlug OBVIOUS
  <2>2. QED BY <2>1, RequestsKept
<1>4. TeamTypeOK' BY <1>2, <1>3 DEF TeamTypeOK
<1>5. RosterAgrees' BY DEF RosterAgrees
<1>6. CaptainOnRoster' BY <1>1, <1>2 DEF CaptainOnRoster, Exists
<1>7. CodesAgree' BY <1>1, <1>2 DEF CodesAgree, Exists
<1>8. QED BY <1>3, <1>4, <1>5, <1>6, <1>7

LEMMA CaptainStepInv ==
    ASSUME TeamInv, NEW p \in Players, NEW s \in Slugs, CaptainStep(p, s) PROVE TeamInv'
<1> USE DEF TeamInv
<1>1. IsCaptain(p, s) BY DEF CaptainStep, RemoveMember, Transfer, Rename, Disband
<1>2. Exists(s) BY <1>1 DEF IsCaptain, Exists, NoTeam
<1>3. team[s] \in Team /\ team[s].captain \in members[s]
  BY <1>2, CodeOf DEF CaptainOnRoster
<1>4. ASSUME NEW m \in Players, RemoveMember(p, s, m) PROVE TeamInv'
  BY <1>1, <1>4, TakenOff DEF RemoveMember, IsCaptain
<1>5. ASSUME NEW m \in Players, Transfer(p, s, m) PROVE TeamInv'
  <2> DEFINE t == [team[s] EXCEPT !.captain = m]
  <2>1. t \in Team /\ t.code = team[s].code /\ t.captain = m BY <1>3 DEF Team
  <2>2. team' = [team EXCEPT ![s] = t] BY <1>5 DEF Transfer
  <2> HIDE DEF t
  <2>3. QED BY <1>2, <1>5, <2>1, <2>2, Amended DEF Transfer
<1>6. ASSUME NEW n \in Slugs, Rename(p, s, n) PROVE TeamInv'
  <2> DEFINE t == [team[s] EXCEPT !.name = n]
  <2>1. t \in Team /\ t.code = team[s].code /\ t.captain = team[s].captain BY <1>3 DEF Team
  <2>2. team' = [team EXCEPT ![s] = t] BY <1>6 DEF Rename
  <2> HIDE DEF t
  <2>3. QED BY <1>2, <1>3, <1>6, <2>1, <2>2, Amended DEF Rename
<1>7. ASSUME Disband(p, s) PROVE TeamInv'
  <2>1. /\ user' = [q \in Players |-> IF q \in members[s] THEN NoSlug ELSE user[q]]
        /\ team' = [team EXCEPT ![s] = NoTeam]
        /\ members' = [members EXCEPT ![s] = {}]
        /\ codes' = CodesWithout(s)
        /\ overfull' = overfull \ {s}
        /\ UNCHANGED <<cap, request, everCaps>>
    BY <1>7 DEF Disband
  <2>2. /\ codes' \in [Codes -> Slugs \union {NoSlug}]
        /\ \A c \in Codes : codes'[c] = IF codes[c] = s THEN NoSlug ELSE codes[c]
    BY <2>1, CodesWithoutFacts
  <2>3. request' \in [Slots -> Request] /\ Formed' /\ DrawsFree' /\ DrawsDistinct'
    <3>1. \A c \in Codes : codes'[c] = NoSlug \/ codes[c] # NoSlug BY <2>2
    <3>2. QED BY <2>1, <3>1, RequestsKept
  <2>4. TeamTypeOK' BY <2>1, <2>2, <2>3 DEF TeamTypeOK
  <2>5. RosterAgrees' BY <2>1 DEF RosterAgrees, TeamTypeOK
  <2>6. CaptainOnRoster' BY <2>1 DEF CaptainOnRoster, Exists, TeamTypeOK
  <2>7. CodesAgree' BY <2>1, <2>2 DEF CodesAgree, Exists, TeamTypeOK
  <2>8. QED BY <2>3, <2>4, <2>5, <2>6, <2>7
<1>8. QED BY <1>4, <1>5, <1>6, <1>7 DEF CaptainStep

LEMMA OverrideStepInv ==
    ASSUME TeamInv, NEW s \in Slugs, NEW m \in Players, OverrideStep(s, m) PROVE TeamInv'
<1> USE DEF TeamInv
<1>1. CASE ForceRemove(s, m)
  <2>1. user[m] = s BY <1>1 DEF ForceRemove, RosterAgrees
  <2>2. QED BY <1>1, <2>1, TakenOff DEF ForceRemove, IsCaptain
<1>2. CASE ForceTransfer(s, m)
  <2> DEFINE t == [team[s] EXCEPT !.captain = m]
  <2>1. Exists(s) /\ team[s] \in Team BY <1>2, CodeOf DEF ForceTransfer
  <2>2. t \in Team /\ t.code = team[s].code /\ t.captain = m BY <2>1 DEF Team
  <2>3. team' = [team EXCEPT ![s] = t] BY <1>2 DEF ForceTransfer
  <2> HIDE DEF t
  <2>4. QED BY <1>2, <2>1, <2>2, <2>3, Amended DEF ForceTransfer
<1>3. QED BY <1>1, <1>2 DEF OverrideStep

LEMMA SetCapInv == ASSUME TeamInv, NEW n \in Caps, SetCap(n) PROVE TeamInv'
<1> USE DEF TeamInv
<1>1. UNCHANGED <<team, members, user, codes, request, overfull>>
      /\ cap' = n /\ everCaps' = everCaps \union {n}
  BY DEF SetCap, stored
<1>2. request' \in [Slots -> Request] /\ Formed' /\ DrawsFree' /\ DrawsDistinct'
  <2>1. \A c \in Codes : codes'[c] = NoSlug \/ codes[c] # NoSlug BY <1>1
  <2>2. QED BY <1>1, <2>1, RequestsKept
<1>3. TeamTypeOK' BY <1>1, <1>2 DEF TeamTypeOK
<1>4. RosterAgrees' /\ CaptainOnRoster' /\ CodesAgree' BY <1>1, StoredKept DEF stored
<1>5. QED BY <1>2, <1>3, <1>4

LEMMA TeamNextInv == TeamInv /\ [TeamNext]_teamVars => TeamInv'
<1> SUFFICES ASSUME TeamInv, [TeamNext]_teamVars PROVE TeamInv'
  OBVIOUS
<1>1. ASSUME NEW k \in Slots, Scripts(k) PROVE TeamInv'
  BY <1>1, LandCreateInv, LandJoinInv, LandLeaveInv, LandRegenerateInv, LandForceAddInv DEF Scripts
<1>2. CASE UNCHANGED teamVars
  BY <1>2 DEF teamVars, stored, TeamInv, TeamTypeOK, RosterAgrees, CaptainOnRoster,
              CodesAgree, Exists, Formed, DrawsFree, DrawsDistinct, Drawing
<1>3. QED BY <1>1, <1>2, RequestsInv, CaptainStepInv, OverrideStepInv, SetCapInv DEF TeamNext

LEMMA TeamInvariance == TeamSpec => []TeamInv
BY TeamInitInv, TeamNextInv, PTL DEF TeamSpec

(***************************************************************************)
(* The theorems.                                                            *)
(***************************************************************************)
\* Every state of every run is well typed.
THEOREM TeamTypeCorrect == TeamSpec => []TeamTypeOK
<1>1. TeamInv => TeamTypeOK BY DEF TeamInv
<1>2. QED BY <1>1, TeamInvariance, PTL

\* Players' records and rosters agree for every number of players and of
\* requests in flight: team-store.ts never counts a player for two teams, nor
\* for one they are not shown on.
THEOREM RostersAlwaysAgree == TeamSpec => []RosterAgrees
<1>1. TeamInv => RosterAgrees BY DEF TeamInv
<1>2. QED BY <1>1, TeamInvariance, PTL

\* No interleaving of leaves, removals, transfers and moves strands a team
\* without a captain or a captain without a team.
THEOREM CaptainAlwaysOnRoster == TeamSpec => []CaptainOnRoster
<1>1. TeamInv => CaptainOnRoster BY DEF TeamInv
<1>2. QED BY <1>1, TeamInvariance, PTL

\* The join-code index and the teams agree, as long as no two requests in
\* flight draw the same code.
THEOREM CodesAlwaysAgree == TeamSpec => []CodesAgree
<1>1. TeamInv => CodesAgree BY DEF TeamInv
<1>2. QED BY <1>1, TeamInvariance, PTL

(***************************************************************************)
(* The cap.                                                                 *)
(***************************************************************************)
Capped(k) == request[k].op = "join" \/ (request[k].op = "forceAdd" /\ request[k].cap # NoCap)

\* Beyond CapHolds: every cap a request carries has been in force.
CapsRecorded ==
    /\ cap \in everCaps /\ DefaultCap \in everCaps
    /\ \A k \in Slots : Capped(k) => request[k].cap \in everCaps

CapInv == CapHolds /\ CapsRecorded

\* A roster that shrinks, starts or grows below a cap is within one.
LEMMA CapKept ==
    ASSUME TeamInv, CapInv, everCaps \subseteq everCaps', everCaps' \subseteq Nat,
           NEW s \in Slugs, NEW new \in SUBSET Players,
           \/ s \notin overfull /\ new \subseteq members[s]
           \/ \E p \in Players : new \subseteq {p}
           \/ \E p \in Players, n \in everCaps : new = members[s] \union {p} /\ ~Full(s, n)
    PROVE  \E n \in everCaps' : Cardinality(new) <= n
<1> USE DEF TeamInv, CapInv, CapsRecorded
<1>1. IsFiniteSet(members[s]) /\ IsFiniteSet(new) BY FS_Subset DEF TeamTypeOK
<1>2. Cardinality(members[s]) \in Nat /\ Cardinality(new) \in Nat
  BY <1>1, FS_CardinalityType
<1>3. CASE s \notin overfull /\ new \subseteq members[s]
  <2>1. PICK n \in everCaps : Cardinality(members[s]) <= n BY <1>3 DEF CapHolds
  <2>2. Cardinality(new) <= Cardinality(members[s]) BY <1>1, <1>3, FS_Subset
  <2>3. n \in Nat BY DEF TeamTypeOK
  <2>4. QED BY <1>2, <2>1, <2>2, <2>3
<1>4. CASE \E p \in Players : new \subseteq {p}
  <2>1. PICK p \in Players : new \subseteq {p} BY <1>4
  <2>2. IsFiniteSet({p}) /\ Cardinality({p}) = 1 BY FS_Singleton
  <2>3. Cardinality(new) <= 1 BY <2>1, <2>2, FS_Subset
  <2>4. QED BY <1>2, <2>3
<1>5. CASE \E p \in Players, n \in everCaps : new = members[s] \union {p} /\ ~Full(s, n)
  <2>1. PICK p \in Players, n \in everCaps : new = members[s] \union {p} /\ ~Full(s, n)
    BY <1>5
  <2>2. Cardinality(new) <= Cardinality(members[s]) + 1 BY <1>1, <1>2, <2>1, FS_AddElement
  <2>3. n \in Nat BY DEF TeamTypeOK
  <2>4. Cardinality(members[s]) < n BY <1>2, <2>1, <2>3 DEF Full
  <2>5. QED BY <1>2, <2>2, <2>3, <2>4
<1>6. QED BY <1>3, <1>4, <1>5

\* No step takes a roster past the caps.
LEMMA CapNext == TeamInv /\ TeamInv' /\ CapInv /\ [TeamNext]_teamVars => CapHolds'
<1> SUFFICES ASSUME TeamInv, TeamInv', CapInv, [TeamNext]_teamVars,
                    NEW s \in Slugs, s \notin overfull'
             PROVE  \E n \in everCaps' : Cardinality(members'[s]) <= n
  BY DEF CapHolds
<1>1. /\ everCaps \subseteq everCaps' /\ everCaps' \subseteq Nat
      /\ members[s] \in SUBSET Players /\ members'[s] \in SUBSET Players
  <2>1. everCaps \subseteq everCaps'
    BY ZenonT(60) DEF TeamNext, Requests, Scripts, CaptainStep, OverrideStep, Send, SendCreate, SendRegenerate,
           ResolveCode, ReadCap, SendLeave, SendForceAdd, LoseRequest, LandCreate, LandJoin, LandLeave,
           LandRegenerate, LandForceAdd, RemoveMember, Transfer, Rename, Disband, ForceRemove, ForceTransfer,
           SetCap, teamVars
  <2>2. QED BY <2>1 DEF TeamInv, TeamTypeOK
<1>2. SUFFICES \/ s \notin overfull /\ members'[s] \subseteq members[s]
               \/ \E p \in Players : members'[s] \subseteq {p}
               \/ \E p \in Players, n \in everCaps : members'[s] = members[s] \union {p} /\ ~Full(s, n)
  BY <1>1, CapKept
<1>3. CASE UNCHANGED <<members, overfull>> BY <1>3
<1>4. ASSUME NEW k \in Slots, Requests(k) PROVE UNCHANGED <<members, overfull>>
  BY <1>4 DEF Requests, Send, SendCreate, SendRegenerate, ResolveCode, ReadCap, SendLeave,
              SendForceAdd, LoseRequest, stored
<1>5. ASSUME NEW k \in Slots, LandCreate(k)
      PROVE  \/ s \notin overfull /\ members'[s] \subseteq members[s]
             \/ \E p \in Players : members'[s] \subseteq {p}
  <2>1. request[k].login \in Players /\ request[k].slug \in Slugs
    BY <1>5 DEF LandCreate, TeamInv, Formed
  <2>2. CASE user[request[k].login] # NoSlug \/ Exists(request[k].slug)
    BY <1>5, <2>2 DEF LandCreate, stored
  <2>3. CASE ~(user[request[k].login] # NoSlug \/ Exists(request[k].slug))
    <3>1. members' = [members EXCEPT ![request[k].slug] = @ \union {request[k].login}] /\ UNCHANGED overfull
      BY <1>5, <2>3 DEF LandCreate
    <3>2. members[request[k].slug] = {} BY <2>1, <2>3 DEF TeamInv, CaptainOnRoster
    <3>3. QED BY <2>1, <3>1, <3>2 DEF TeamInv, TeamTypeOK
  <2>4. QED BY <2>2, <2>3
<1>6. ASSUME NEW k \in Slots, LandJoin(k)
      PROVE  \/ s \notin overfull /\ members'[s] \subseteq members[s]
             \/ \E p \in Players, n \in everCaps : members'[s] = members[s] \union {p} /\ ~Full(s, n)
  <2> DEFINE r == request[k]
  <2>1. r.login \in Players /\ r.slug \in Slugs /\ r.cap \in everCaps /\ UNCHANGED overfull
    BY <1>6 DEF LandJoin, TeamInv, Formed, CapInv, CapsRecorded, Capped
  <2>2. CASE user[r.login] # NoSlug \/ ~Exists(r.slug) \/ Full(r.slug, r.cap)
    BY <1>6, <2>1, <2>2 DEF LandJoin
  <2>3. CASE ~(user[r.login] # NoSlug \/ ~Exists(r.slug) \/ Full(r.slug, r.cap))
    <3>1. members' = [members EXCEPT ![r.slug] = @ \union {r.login}] BY <1>6, <2>3 DEF LandJoin
    <3>2. ~Full(r.slug, r.cap) BY <2>3
    <3> HIDE DEF r
    <3>3. CASE s = r.slug BY <2>1, <3>1, <3>2, <3>3 DEF TeamInv, TeamTypeOK
    <3>4. CASE s # r.slug BY <2>1, <3>1, <3>4 DEF TeamInv, TeamTypeOK
    <3>5. QED BY <3>3, <3>4
  <2>4. QED BY <2>2, <2>3
<1>7. ASSUME NEW k \in Slots, LandLeave(k)
      PROVE  \/ s \notin overfull /\ members'[s] \subseteq members[s]
             \/ \E p \in Players : members'[s] \subseteq {p}
  <2> DEFINE r == request[k]
  <2>1. r.login \in Players /\ r.slug \in Slugs BY <1>7 DEF LandLeave, TeamInv, Formed
  <2>2. CASE user[r.login] # r.slug \/ StrandsTeam(r.login, r.slug)
    BY <1>7, <2>2 DEF LandLeave, stored
  <2>3. CASE ~(user[r.login] # r.slug \/ StrandsTeam(r.login, r.slug))
    <3>1. Leaving(r.login, r.slug) BY <1>7, <2>3 DEF LandLeave
    <3> HIDE DEF r
    <3>2. members' = [members EXCEPT ![r.slug] = @ \ {r.login}] BY <3>1 DEF Leaving
    <3>3. members'[s] \subseteq members[s] BY <2>1, <3>2 DEF TeamInv, TeamTypeOK
    <3>4. overfull' = overfull \/ (overfull' = overfull \ {r.slug} /\ members[r.slug] \ {r.login} = {})
      BY <3>1 DEF Leaving
    <3>5. QED BY <2>1, <3>2, <3>3, <3>4 DEF TeamInv, TeamTypeOK
  <2>4. QED BY <2>2, <2>3
<1>8. ASSUME NEW k \in Slots, LandRegenerate(k) PROVE UNCHANGED <<members, overfull>>
  BY <1>8 DEF LandRegenerate
<1>9. ASSUME NEW k \in Slots, LandForceAdd(k)
      PROVE  \/ s \notin overfull /\ members'[s] \subseteq members[s]
             \/ \E p \in Players : members'[s] \subseteq {p}
             \/ \E p \in Players, n \in everCaps : members'[s] = members[s] \union {p} /\ ~Full(s, n)
  <2> DEFINE p == request[k].login
             t == request[k].slug
             n == request[k].cap
             gone == user[p] # NoSlug /\ members[user[p]] = {p}
  <2>1. p \in Players /\ t \in Slugs /\ n \in Nat /\ (n # NoCap => n \in everCaps)
    BY <1>9 DEF LandForceAdd, TeamInv, TeamTypeOK, Request, Formed, CapInv, CapsRecorded, Capped
  <2>2. CASE AddRefused(p, t, n) BY <1>9, <2>2 DEF LandForceAdd, stored
  <2>3. CASE ~AddRefused(p, t, n)
    <3>1. Adding(p, t, n) BY <1>9, <2>3 DEF LandForceAdd
    <3> HIDE DEF p, t, n
    <3>2. /\ user[p] # t
          /\ \A u \in Slugs : members'[u] = IF u = t THEN members[u] \union {p} ELSE members[u] \ {p}
      BY <2>1, <2>3, <3>1, AddingFacts
    <3>3. \A u \in Slugs : p \in members[u] <=> user[p] = u
      BY <2>1 DEF TeamInv, RosterAgrees
    <3>4. \/ s \notin overfull /\ (n = NoCap => s # t)
          \/ members[s] \subseteq {p} /\ s = user[p]
      <4>1. user[p] # NoSlug => user[p] \in Slugs BY <2>1 DEF TeamInv, TeamTypeOK
      <4>2. CASE s \in overfull
        <5>1. s = user[p] /\ user[p] # NoSlug /\ user[p] # t
              /\ [members EXCEPT ![user[p]] = @ \ {p}][user[p]] = {}
          BY <3>1, <4>2, <3>2 DEF Adding
        <5>2. QED BY <5>1, <4>1 DEF TeamInv, TeamTypeOK
      <4>3. CASE s \notin overfull BY <3>1, <4>3 DEF Adding
      <4>4. QED BY <4>2, <4>3
    <3>5. CASE s = t
      <4>1. s \notin overfull /\ n # NoCap BY <3>2, <3>4, <3>5
      <4>2. ~Full(s, n) BY <2>3, <3>2, <3>3, <3>5, <4>1, <2>1 DEF AddRefused
      <4>3. QED BY <2>1, <3>2, <3>5, <4>1, <4>2
    <3>6. CASE s # t BY <2>1, <3>2, <3>4, <3>6
    <3>7. QED BY <3>5, <3>6
  <2>4. QED BY <2>2, <2>3
<1>10. ASSUME NEW p \in Players, NEW t \in Slugs, CaptainStep(p, t)
       PROVE  \/ s \notin overfull /\ members'[s] \subseteq members[s]
              \/ \E q \in Players : members'[s] \subseteq {q}
  <2>1. \/ s \notin overfull /\ members'[s] \subseteq members[s]
        \/ members'[s] = {}
    BY <1>10 DEF CaptainStep, RemoveMember, Transfer, Rename, Disband, TeamInv, TeamTypeOK
  <2>2. QED BY <2>1
<1>11. ASSUME NEW p \in Players, NEW t \in Slugs, OverrideStep(t, p)
       PROVE  s \notin overfull /\ members'[s] \subseteq members[s]
  BY <1>11 DEF OverrideStep, ForceRemove, ForceTransfer, TeamInv, TeamTypeOK
<1>12. ASSUME NEW n \in Caps, SetCap(n) PROVE UNCHANGED <<members, overfull>>
  BY <1>12 DEF SetCap, stored
<1>13. CASE UNCHANGED teamVars BY <1>13 DEF teamVars, stored
<1>14. QED
  BY <1>3, <1>4, <1>5, <1>6, <1>7, <1>8, <1>9, <1>10, <1>11, <1>12, <1>13
     DEF TeamNext, Scripts

\* A request sent with a recorded cap, or with none, keeps CapsRecorded.
LEMMA CapsCarried ==
    ASSUME TeamInv, CapsRecorded, NEW k \in Slots, NEW r, request' = [request EXCEPT ![k] = r],
           r.op = "join" \/ (r.op = "forceAdd" /\ r.cap # NoCap) => r.cap \in everCaps,
           UNCHANGED <<cap, everCaps>>
    PROVE  CapsRecorded'
<1>1. request'[k] = r /\ \A j \in Slots : j # k => request'[j] = request[j]
  BY DEF TeamInv, TeamTypeOK
<1>2. ASSUME NEW j \in Slots, Capped(j)' PROVE request'[j].cap \in everCaps'
  <2>1. CASE j = k BY <1>1, <1>2, <2>1 DEF Capped
  <2>2. CASE j # k BY <1>1, <1>2, <2>2 DEF Capped, CapsRecorded
  <2>3. QED BY <2>1, <2>2
<1>3. QED BY <1>2 DEF CapsRecorded

LEMMA CapsNext == TeamInv /\ CapsRecorded /\ [TeamNext]_teamVars => CapsRecorded'
<1> SUFFICES ASSUME TeamInv, CapsRecorded, [TeamNext]_teamVars PROVE CapsRecorded'
  OBVIOUS
<1>1. ASSUME NEW k \in Slots, Done(k), UNCHANGED <<cap, everCaps>> PROVE CapsRecorded'
  BY <1>1, CapsCarried DEF Done, Idle
<1>2. ASSUME UNCHANGED <<request, cap, everCaps>> PROVE CapsRecorded'
  BY <1>2 DEF CapsRecorded, Capped
<1>3. ASSUME NEW k \in Slots, Requests(k) PROVE CapsRecorded'
  <2>1. ASSUME NEW p \in Players, NEW s \in Slugs, NEW c \in Codes,
               SendCreate(k, p, s, c) \/ SendRegenerate(k, p, s, c)
        PROVE  CapsRecorded'
    BY <2>1, CapsCarried DEF SendCreate, SendRegenerate, Send, Idle
  <2>2. ASSUME NEW p \in Players, NEW c \in Codes, ResolveCode(k, p, c) PROVE CapsRecorded'
    BY <2>2, CapsCarried DEF ResolveCode, Send, Idle
  <2>3. ASSUME NEW p \in Players, SendLeave(k, p) PROVE CapsRecorded'
    BY <2>3, CapsCarried DEF SendLeave, Send, Idle
  <2>4. ASSUME NEW p \in Players, NEW s \in Slugs, SendForceAdd(k, p, s) PROVE CapsRecorded'
    <3>1. PICK n \in ReadableCaps \union {NoCap} :
                 Send(k, [Idle EXCEPT !.op = "forceAdd", !.login = p, !.slug = s, !.cap = n])
      BY <2>4 DEF SendForceAdd
    <3>2. n # NoCap => n \in everCaps BY DEF ReadableCaps, CapsRecorded
    <3>3. QED BY <3>1, <3>2, CapsCarried DEF Send, Idle
  <2>5. CASE ReadCap(k)
    <3>1. PICK n \in ReadableCaps : request' = [request EXCEPT ![k].op = "join", ![k].cap = n]
      BY <2>5 DEF ReadCap
    <3> DEFINE r == [request[k] EXCEPT !.op = "join", !.cap = n]
    <3>2. request[k] \in Request BY DEF TeamInv, TeamTypeOK
    <3>3. request' = [request EXCEPT ![k] = r] BY <3>1 DEF TeamInv, TeamTypeOK
    <3>4. r.cap = n /\ n \in everCaps BY <3>2 DEF Request, ReadableCaps, CapsRecorded
    <3>5. UNCHANGED <<cap, everCaps>> BY <2>5 DEF ReadCap
    <3> HIDE DEF r
    <3>6. QED BY <3>3, <3>4, <3>5, CapsCarried
  <2>6. CASE LoseRequest(k) BY <1>1, <2>6 DEF LoseRequest
  <2>7. QED BY <1>3, <2>1, <2>2, <2>3, <2>4, <2>5, <2>6 DEF Requests
<1>4. ASSUME NEW k \in Slots, Scripts(k) PROVE CapsRecorded'
  BY <1>1, <1>4 DEF Scripts, LandCreate, LandJoin, LandLeave, LandRegenerate, LandForceAdd
<1>5. ASSUME NEW p \in Players, NEW s \in Slugs, CaptainStep(p, s) PROVE CapsRecorded'
  BY <1>2, <1>5 DEF CaptainStep, RemoveMember, Transfer, Rename, Disband
<1>6. ASSUME NEW p \in Players, NEW s \in Slugs, OverrideStep(s, p) PROVE CapsRecorded'
  BY <1>2, <1>6 DEF OverrideStep, ForceRemove, ForceTransfer
<1>7. ASSUME NEW n \in Caps, SetCap(n) PROVE CapsRecorded'
  BY <1>7 DEF SetCap, CapsRecorded, Capped
<1>8. CASE UNCHANGED teamVars BY <1>2, <1>8 DEF teamVars
<1>9. QED BY <1>3, <1>4, <1>5, <1>6, <1>7, <1>8 DEF TeamNext

\* No roster grows past the largest cap that has been in force, however many
\* joins race for the last slot and however stale the cap each was handed,
\* unless an organizer overrode the cap for that team.
THEOREM CapAlwaysHolds == TeamSpec => []CapHolds
<1>1. CapInv <=> CapHolds /\ CapsRecorded BY DEF CapInv
<1>2. TeamInit => CapHolds /\ CapsRecorded
  <2> SUFFICES ASSUME TeamInit PROVE CapHolds /\ CapsRecorded OBVIOUS
  <2>1. Cardinality({}) = 0 BY FS_EmptySet
  <2>2. QED BY <2>1 DEF TeamInit, CapHolds, CapsRecorded, Capped, Idle
<1>3. TeamInv /\ TeamInv' /\ CapHolds /\ CapsRecorded /\ [TeamNext]_teamVars
      => CapHolds' /\ CapsRecorded'
  BY <1>1, CapNext, CapsNext
<1>4. QED BY <1>2, <1>3, TeamInvariance, PTL DEF TeamSpec

(***************************************************************************)
(* The abstract specification.  Every script is one of its actions or       *)
(* leaves its variables alone.                                              *)
(***************************************************************************)
BoardKept == UNCHANGED <<members, CaptainOf>>

\* What the roster says, in the terms of the keys.
LEMMA BoardFacts ==
    ASSUME TeamInv
    PROVE  /\ \A p \in Players : Board!Unplaced(p) <=> user[p] = NoSlug
           /\ \A s \in Slugs : Board!Stands(s) <=> Exists(s)
           /\ \A s \in Slugs : CaptainOf[s] = team[s].captain
<1>1. \A p \in Players : Board!Unplaced(p) <=> user[p] = NoSlug
  BY DEF TeamInv, TeamTypeOK, RosterAgrees, Board!Unplaced
<1>2. \A s \in Slugs : Board!Stands(s) <=> Exists(s)
  BY DEF TeamInv, CaptainOnRoster, Board!Stands
<1>3. \A s \in Slugs : CaptainOf[s] = team[s].captain BY DEF CaptainOf
<1>4. QED BY <1>1, <1>2, <1>3

\* One team's captain changes, or none does.
LEMMA CaptainOfNext ==
    /\ \A s \in Slugs, c \in Players \union {Nobody} :
          (\A t \in Slugs : team'[t].captain = IF t = s THEN c ELSE team[t].captain)
          => CaptainOf' = [CaptainOf EXCEPT ![s] = c]
    /\ (\A t \in Slugs : team'[t].captain = team[t].captain) => CaptainOf' = CaptainOf
BY DEF CaptainOf

LEMMA LandCreateBoard ==
    ASSUME TeamInv, NEW k \in Slots, LandCreate(k)
    PROVE  BoardKept \/ Board!MembershipNext
<1> DEFINE p == request[k].login
           s == request[k].slug
<1>1. p \in Players /\ s \in Slugs BY DEF LandCreate, TeamInv, Formed
<1>2. CASE user[p] # NoSlug \/ Exists(s)
  BY <1>2, CaptainOfNext DEF LandCreate, stored, BoardKept
<1>3. CASE ~(user[p] # NoSlug \/ Exists(s))
  <2>1. /\ team' = [team EXCEPT ![s] = [captain |-> p, name |-> s, code |-> request[k].code]]
        /\ members' = [members EXCEPT ![s] = @ \union {p}]
    BY <1>3 DEF LandCreate
  <2> HIDE DEF p, s
  <2>2. members[s] = {} BY <1>1, <1>3 DEF TeamInv, CaptainOnRoster
  <2>3. members' = [members EXCEPT ![s] = {p}] BY <2>1, <2>2
  <2>4. CaptainOf' = [CaptainOf EXCEPT ![s] = p]
    BY <1>1, <2>1, CaptainOfNext DEF TeamInv, TeamTypeOK
  <2>5. Board!Found(p, s) BY <1>1, <1>3, <2>3, <2>4, BoardFacts DEF Board!Found
  <2>6. QED BY <1>1, <2>5 DEF Board!MembershipNext
<1>4. QED BY <1>2, <1>3

LEMMA LandJoinBoard ==
    ASSUME TeamInv, NEW k \in Slots, LandJoin(k)
    PROVE  BoardKept \/ Board!MembershipNext
<1> DEFINE p == request[k].login
           s == request[k].slug
<1>1. p \in Players /\ s \in Slugs BY DEF LandJoin, TeamInv, Formed
<1>2. UNCHANGED CaptainOf BY CaptainOfNext DEF LandJoin
<1>3. CASE user[p] # NoSlug \/ ~Exists(s) \/ Full(s, request[k].cap)
  BY <1>2, <1>3 DEF LandJoin, BoardKept
<1>4. CASE ~(user[p] # NoSlug \/ ~Exists(s) \/ Full(s, request[k].cap))
  <2>1. members' = [members EXCEPT ![s] = @ \union {p}] BY <1>4 DEF LandJoin
  <2> HIDE DEF p, s
  <2>2. Board!Enter(p, s) BY <1>1, <1>2, <1>4, <2>1, BoardFacts DEF Board!Enter
  <2>3. QED BY <1>1, <2>2 DEF Board!MembershipNext
<1>5. QED BY <1>3, <1>4

\* Taking a player off a roster is Exit.
LEMMA ExitBoard ==
    ASSUME TeamInv, NEW s \in Slugs, NEW p \in members[s],
           members' = [members EXCEPT ![s] = @ \ {p}],
           team[s].captain # p \/ members[s] = {p},
           IF members[s] = {p} THEN team' = [team EXCEPT ![s] = NoTeam] ELSE UNCHANGED CaptainOf
    PROVE  Board!MembershipNext
<1>1. p \in Players BY DEF TeamInv, TeamTypeOK
<1>2. CaptainOf' = IF members[s] = {p} THEN [CaptainOf EXCEPT ![s] = Nobody] ELSE CaptainOf
  <2>1. CASE members[s] = {p}
    <3>1. \A t \in Slugs : team'[t].captain = IF t = s THEN Nobody ELSE team[t].captain
      BY <2>1 DEF TeamInv, TeamTypeOK, NoTeam
    <3>2. QED BY <2>1, <3>1, CaptainOfNext
  <2>2. CASE members[s] # {p} BY <2>2
  <2>3. QED BY <2>1, <2>2
<1>3. Board!Exit(p, s) BY <1>2, BoardFacts DEF Board!Exit, Board!MayLeave, Board!Without
<1>4. QED BY <1>1, <1>3 DEF Board!MembershipNext

\* Naming a member captain is Appoint.
LEMMA AppointBoard ==
    ASSUME TeamInv, NEW s \in Slugs, NEW m \in members[s], UNCHANGED members,
           team' = [team EXCEPT ![s].captain = m]
    PROVE  Board!MembershipNext
<1>1. m \in Players /\ Exists(s) BY DEF TeamInv, TeamTypeOK, CaptainOnRoster
<1>2. \A t \in Slugs : team'[t].captain = IF t = s THEN m ELSE team[t].captain
  BY <1>1, CodeOf DEF TeamInv, TeamTypeOK, Team
<1>3. CaptainOf' = [CaptainOf EXCEPT ![s] = m] BY <1>1, <1>2, CaptainOfNext
<1>4. Board!Appoint(m, s) BY <1>3 DEF Board!Appoint
<1>5. QED BY <1>1, <1>4 DEF Board!MembershipNext

LEMMA LandLeaveBoard ==
    ASSUME TeamInv, NEW k \in Slots, LandLeave(k)
    PROVE  BoardKept \/ Board!MembershipNext
<1> DEFINE p == request[k].login
           s == request[k].slug
<1>1. p \in Players /\ s \in Slugs BY DEF LandLeave, TeamInv, Formed
<1>2. CASE user[p] # s \/ StrandsTeam(p, s)
  BY <1>2, CaptainOfNext DEF LandLeave, stored, BoardKept
<1>3. CASE ~(user[p] # s \/ StrandsTeam(p, s))
  <2>1. Leaving(p, s) BY <1>3 DEF LandLeave
  <2>2. p \in members[s] BY <1>1, <1>3 DEF TeamInv, RosterAgrees
  <2> HIDE DEF p, s
  <2>3. members[s] # {p} => team[s].captain # p BY <1>1, <1>3, <2>1, <2>2, LeavingFacts
  <2>4. CASE members[s] = {p}
    <3>1. team' = [team EXCEPT ![s] = NoTeam] BY <2>1, <2>4 DEF Leaving
    <3>2. members' = [members EXCEPT ![s] = @ \ {p}] BY <2>1 DEF Leaving
    <3>3. QED BY <1>1, <2>2, <2>4, <3>1, <3>2, ExitBoard
  <2>5. CASE members[s] # {p}
    <3>1. UNCHANGED team
      BY <1>1, <2>1, <2>2, <2>5 DEF Leaving
    <3>2. members' = [members EXCEPT ![s] = @ \ {p}] BY <2>1 DEF Leaving
    <3>3. UNCHANGED CaptainOf BY <3>1, CaptainOfNext
    <3>4. QED BY <1>1, <2>2, <2>3, <2>5, <3>2, <3>3, ExitBoard
  <2>6. QED BY <2>4, <2>5
<1>4. QED BY <1>2, <1>3

LEMMA LandRegenerateBoard ==
    ASSUME TeamInv, NEW k \in Slots, LandRegenerate(k)
    PROVE  BoardKept
<1> DEFINE r == request[k]
<1>1. CASE ~IsCaptain(r.login, r.slug)
  BY <1>1, CaptainOfNext DEF LandRegenerate, BoardKept
<1>2. CASE IsCaptain(r.login, r.slug)
  <2>1. team' = [team EXCEPT ![r.slug].code = r.code] /\ UNCHANGED members
    BY <1>2 DEF LandRegenerate
  <2>2. r.login \in Players /\ r.slug \in Slugs BY DEF LandRegenerate, TeamInv, Formed
  <2> HIDE DEF r
  <2>3. Exists(r.slug) BY <1>2, <2>2 DEF IsCaptain, Exists, NoTeam
  <2>4. \A t \in Slugs : team'[t].captain = team[t].captain
    BY <2>1, <2>2, <2>3, CodeOf DEF TeamInv, TeamTypeOK, Team
  <2>5. QED BY <2>1, <2>4, CaptainOfNext DEF BoardKept
<1>3. QED BY <1>1, <1>2

\* A forced add of an unplaced player is Enter, of another team's Move.
LEMMA LandForceAddBoard ==
    ASSUME TeamInv, NEW k \in Slots, LandForceAdd(k)
    PROVE  BoardKept \/ Board!MembershipNext
<1> DEFINE p == request[k].login
           s == request[k].slug
           n == request[k].cap
<1>1. p \in Players /\ s \in Slugs /\ n \in Nat
  BY DEF LandForceAdd, TeamInv, TeamTypeOK, Request, Formed
<1>2. CASE AddRefused(p, s, n) BY <1>2, CaptainOfNext DEF LandForceAdd, stored, BoardKept
<1>3. CASE ~AddRefused(p, s, n)
  <2>1. Adding(p, s, n) BY <1>3 DEF LandForceAdd
  <2> HIDE DEF p, s, n
  <2> DEFINE from == user[p]
             gone == from # NoSlug /\ members[from] = {p}
  <2>2. /\ Exists(s) /\ from # s
        /\ members' \in [Slugs -> SUBSET Players]
        /\ \A t \in Slugs : members'[t] = IF t = s THEN members[t] \union {p} ELSE members[t] \ {p}
        /\ team' = IF gone THEN [team EXCEPT ![from] = NoTeam] ELSE team
        /\ from # NoSlug /\ ~gone => team[from].captain # p
    BY <1>1, <1>3, <2>1, AddingFacts
  <2>3. \A t \in Slugs : p \in members[t] <=> from = t BY <1>1 DEF TeamInv, RosterAgrees
  <2>4. from \in Slugs \union {NoSlug} BY <1>1 DEF TeamInv, TeamTypeOK
  <2>5. members \in [Slugs -> SUBSET Players] BY DEF TeamInv, TeamTypeOK
  <2>6. team \in [Slugs -> Team \union {NoTeam}] BY DEF TeamInv, TeamTypeOK
  <2> HIDE DEF from, gone
  <2>7. CASE from = NoSlug
    <3>1. members' = [members EXCEPT ![s] = @ \union {p}]
      <4>1. \A t \in Slugs : members[t] \ {p} = members[t] BY <2>3, <2>7
      <4>2. \A t \in Slugs : members'[t] = IF t = s THEN members[t] \union {p} ELSE members[t]
        BY <2>2, <4>1
      <4>3. QED BY <1>1, <2>2, <2>5, <4>2
    <3>2. UNCHANGED CaptainOf BY <2>2, <2>7, CaptainOfNext DEF gone
    <3>3. Board!Enter(p, s)
      BY <1>1, <2>2, <2>7, <3>1, <3>2, BoardFacts DEF Board!Enter, from
    <3>4. QED BY <1>1, <3>3 DEF Board!MembershipNext
  <2>8. CASE from \in Slugs
    <3>1. from # NoSlug BY <2>8
    <3>2. members' = [members EXCEPT ![from] = @ \ {p}, ![s] = @ \union {p}]
      BY <1>1, <2>2, <2>3, <2>5, <2>8
    <3>3. gone <=> members[from] = {p} BY <3>1 DEF gone
    <3>4. CaptainOf' = IF members[from] = {p} THEN [CaptainOf EXCEPT ![from] = Nobody] ELSE CaptainOf
      <4>1. CASE members[from] = {p}
        <5>1. \A t \in Slugs : team'[t].captain = IF t = from THEN Nobody ELSE team[t].captain
          BY <2>2, <2>6, <2>8, <3>3, <4>1 DEF NoTeam
        <5>2. QED BY <2>8, <4>1, <5>1, CaptainOfNext
      <4>2. CASE members[from] # {p} BY <2>2, <3>3, <4>2, CaptainOfNext
      <4>3. QED BY <4>1, <4>2
    <3>5. Board!MayLeave(p, from)
      BY <2>2, <2>3, <2>8, <3>1, <3>3, BoardFacts DEF Board!MayLeave
    <3>6. Board!Move(p, from, s)
      BY <1>1, <2>2, <3>2, <3>4, <3>5, BoardFacts DEF Board!Move
    <3>7. QED BY <1>1, <2>8, <3>6 DEF Board!MembershipNext
  <2>9. QED BY <2>4, <2>7, <2>8
<1>4. QED BY <1>2, <1>3

LEMMA CaptainStepBoard ==
    ASSUME TeamInv, NEW p \in Players, NEW s \in Slugs, CaptainStep(p, s)
    PROVE  BoardKept \/ Board!MembershipNext
<1>1. ASSUME NEW m \in Players, RemoveMember(p, s, m) PROVE Board!MembershipNext
  <2>1. /\ m \in members[s] /\ team[s].captain # m
        /\ members' = [members EXCEPT ![s] = @ \ {m}] /\ UNCHANGED team
    BY <1>1 DEF RemoveMember, IsCaptain
  <2>2. p \in members[s] /\ p # m
    BY <1>1 DEF RemoveMember, IsCaptain, TeamInv, CaptainOnRoster, Exists, NoTeam
  <2>3. members[s] # {m} BY <2>2
  <2>4. UNCHANGED CaptainOf BY <2>1, CaptainOfNext
  <2>5. QED BY <2>1, <2>3, <2>4, ExitBoard
<1>2. ASSUME NEW m \in Players, Transfer(p, s, m) PROVE Board!MembershipNext
  BY <1>2, AppointBoard DEF Transfer
<1>3. ASSUME NEW n \in Slugs, Rename(p, s, n) PROVE BoardKept
  <2>1. team' = [team EXCEPT ![s].name = n] /\ Exists(s) /\ UNCHANGED members
    BY <1>3 DEF Rename, IsCaptain, Exists, NoTeam
  <2>2. \A t \in Slugs : team'[t].captain = team[t].captain
    BY <2>1, CodeOf DEF TeamInv, TeamTypeOK, Team
  <2>3. QED BY <2>1, <2>2, CaptainOfNext DEF BoardKept
<1>4. ASSUME Disband(p, s) PROVE Board!MembershipNext
  <2>1. team' = [team EXCEPT ![s] = NoTeam] /\ members' = [members EXCEPT ![s] = {}]
    BY <1>4 DEF Disband
  <2>2. \A t \in Slugs : team'[t].captain = IF t = s THEN Nobody ELSE team[t].captain
    BY <2>1 DEF TeamInv, TeamTypeOK, NoTeam
  <2>3. CaptainOf' = [CaptainOf EXCEPT ![s] = Nobody] BY <2>2, CaptainOfNext
  <2>4. Board!Dissolve(s) BY <2>1, <2>3 DEF Board!Dissolve
  <2>5. QED BY <2>4 DEF Board!MembershipNext
<1>5. QED BY <1>1, <1>2, <1>3, <1>4 DEF CaptainStep

LEMMA OverrideStepBoard ==
    ASSUME TeamInv, NEW s \in Slugs, NEW m \in Players, OverrideStep(s, m)
    PROVE  Board!MembershipNext
<1>1. CASE ForceRemove(s, m)
  <2>1. /\ m \in members[s] /\ team[s].captain # m
        /\ members' = [members EXCEPT ![s] = @ \ {m}] /\ UNCHANGED team
    BY <1>1 DEF ForceRemove, IsCaptain
  <2>2. members[s] # {m}
    BY <1>1, <2>1 DEF ForceRemove, TeamInv, CaptainOnRoster
  <2>3. UNCHANGED CaptainOf BY <2>1, CaptainOfNext
  <2>4. QED BY <2>1, <2>2, <2>3, ExitBoard
<1>2. CASE ForceTransfer(s, m) BY <1>2, AppointBoard DEF ForceTransfer
<1>3. QED BY <1>1, <1>2 DEF OverrideStep

LEMMA TeamStepBoard == TeamInv /\ [TeamNext]_teamVars => [Board!MembershipNext]_(Board!rosterVars)
<1> SUFFICES ASSUME TeamInv, [TeamNext]_teamVars PROVE BoardKept \/ Board!MembershipNext
  BY DEF Board!rosterVars, BoardKept
<1>1. UNCHANGED <<team, members>> => BoardKept BY CaptainOfNext DEF BoardKept
<1>2. ASSUME NEW k \in Slots, Requests(k) PROVE BoardKept
  BY <1>1, <1>2 DEF Requests, Send, SendCreate, SendRegenerate, ResolveCode, ReadCap, SendLeave,
                    SendForceAdd, LoseRequest, stored
<1>3. ASSUME NEW k \in Slots, Scripts(k) PROVE BoardKept \/ Board!MembershipNext
  BY <1>3, LandCreateBoard, LandJoinBoard, LandLeaveBoard, LandRegenerateBoard, LandForceAddBoard
     DEF Scripts
<1>4. ASSUME NEW n \in Caps, SetCap(n) PROVE BoardKept BY <1>1, <1>4 DEF SetCap, stored
<1>5. CASE UNCHANGED teamVars BY <1>1, <1>5 DEF teamVars, stored
<1>6. QED BY <1>2, <1>3, <1>4, <1>5, CaptainStepBoard, OverrideStepBoard DEF TeamNext

\* The scripts implement the abstract rosters: every one of them founds,
\* enters, leaves, moves between, hands over or dissolves one team, atomically,
\* or changes no roster and no captain.
THEOREM TeamStoreImplementsMembership == TeamSpec => ImplementsMembership
<1>1. TeamInit => Board!MembershipInit
  BY DEF TeamInit, Board!MembershipInit, CaptainOf, NoTeam
<1>2. QED
  BY <1>1, TeamStepBoard, TeamInvariance, PTL
     DEF TeamSpec, ImplementsMembership, Board!MembershipSpec
-----------------------------------------------------------------------------
(***************************************************************************)
(* What organizers put up.  First the lists: what Picked, Without, Distinct *)
(* and FlattenSeq return.                                                   *)
(***************************************************************************)
\* A sequence of the entries of a list at some places, each once, in order.
Thinned(out, list, places) ==
    \E at \in [1..Len(out) -> places] :
        /\ \A n \in 1..Len(out) : out[n] = list[at[n]]
        /\ \A m, n \in 1..Len(out) : m < n => at[m] < at[n]
        /\ \A k \in places : \E n \in 1..Len(out) : at[n] = k

\* What is picked is that.
LEMMA PickedIs ==
    ASSUME NEW S, NEW list \in Seq(S), NEW places \in SUBSET (1..Len(list))
    PROVE  /\ Picked(list, places) \in Seq(S) /\ Len(Picked(list, places)) \in Nat
           /\ Len(Picked(list, places)) <= Len(list)
           /\ Thinned(Picked(list, places), list, places)
<1> DEFINE N == Cardinality(places)
           at == [n \in 1..N |-> CHOOSE k \in places : Nth(places, k) = n]
<1>1. Len(list) \in Nat /\ \A k \in 1..Len(list) : k \in Int /\ list[k] \in S OBVIOUS
<1>2. /\ N \in Nat /\ N <= Len(list)
      /\ \A k \in places : Nth(places, k) \in 1..N
      /\ \A k, l \in places : k < l => Nth(places, k) < Nth(places, l)
      /\ \A n \in 1..N : \E k \in places : Nth(places, k) = n
  BY <1>1, NthsAre
<1>3. \A n \in 1..N : at[n] \in places /\ Nth(places, at[n]) = n
  <2> SUFFICES ASSUME NEW n \in 1..N PROVE at[n] \in places /\ Nth(places, at[n]) = n OBVIOUS
  <2>1. at[n] = CHOOSE k \in places : Nth(places, k) = n OBVIOUS
  <2>2. \E k \in places : Nth(places, k) = n BY <1>2
  <2> HIDE DEF at
  <2>3. QED BY <2>1, <2>2
<1>4. Picked(list, places) = [n \in 1..N |-> list[at[n]]] BY DEF Picked, Nth
<1>5. at \in [1..N -> places]
  <2>1. at = [n \in 1..N |-> at[n]] OBVIOUS
  <2> HIDE DEF at, N
  <2>2. QED BY <1>3, <2>1
<1> HIDE DEF at, N
<1>6. \A m, n \in 1..N : m < n => at[m] < at[n]
  <2> SUFFICES ASSUME NEW m \in 1..N, NEW n \in 1..N, m < n PROVE at[m] < at[n] OBVIOUS
  <2>1. /\ at[m] \in places /\ at[n] \in places /\ at[m] \in Int /\ at[n] \in Int
        /\ Nth(places, at[m]) = m /\ Nth(places, at[n]) = n
    BY <1>1, <1>3
  <2>2. ~(at[n] < at[m])
    <3>1. at[n] < at[m] => n < m BY <1>2, <2>1
    <3>2. QED BY <1>2, <3>1
  <2>3. at[n] # at[m] BY <1>2, <2>1
  <2>4. QED BY <2>1, <2>2, <2>3
<1>7. \A k \in places : \E n \in 1..N : at[n] = k
  <2> SUFFICES ASSUME NEW k \in places PROVE \E n \in 1..N : at[n] = k OBVIOUS
  <2> DEFINE n == Nth(places, k)
  <2>1. n \in 1..N BY <1>2
  <2>2. at[n] \in places /\ Nth(places, at[n]) = n BY <1>3, <2>1
  <2> HIDE DEF n
  <2>3. at[n] \in Int /\ k \in Int /\ n \in Int
    <3>1. places \subseteq 1..Len(list) OBVIOUS
    <3>2. at[n] \in 1..Len(list) /\ k \in 1..Len(list) BY <2>2, <3>1
    <3>3. QED BY <2>1, <3>2
  <2>4. Nth(places, k) = n BY DEF n
  <2>5. ~(at[n] < k) /\ ~(k < at[n]) BY <1>2, <2>2, <2>3, <2>4
  <2>6. at[n] = k BY <2>3, <2>5
  <2>7. QED BY <2>1, <2>6
<1>8. \A n \in 1..N : list[at[n]] \in S BY <1>1, <1>3
<1>9. Picked(list, places) \in Seq(S) /\ Len(Picked(list, places)) = N
  <2> DEFINE out == [n \in 1..N |-> list[at[n]]]
  <2>1. out \in [1..N -> S] BY <1>8
  <2>2. out \in Seq(S) /\ Len(out) = N
    <3> HIDE DEF out
    <3>1. out \in Seq(S) BY <1>2, <2>1
    <3>2. DOMAIN out = 1..N BY <2>1
    <3>3. QED BY <1>2, <3>1, <3>2
  <2>3. QED BY <1>4, <2>2
<1>10. \A n \in 1..N : Picked(list, places)[n] = list[at[n]] BY <1>4
<1>11. Thinned(Picked(list, places), list, places) BY <1>5, <1>6, <1>7, <1>9, <1>10 DEF Thinned
<1>12. QED BY <1>2, <1>9, <1>11

\* Picked at all its places, a list is itself.
LEMMA PickedAll ==
    ASSUME NEW S, NEW list \in Seq(S)
    PROVE  Picked(list, DOMAIN list) = list
<1> DEFINE N == Len(list)
           places == 1..N
<1>1. N \in Nat /\ DOMAIN list = places /\ list = [n \in 1..N |-> list[n]] OBVIOUS
<1>2. \A k \in places : Nth(places, k) = k
  <2> SUFFICES ASSUME NEW k \in 1..N PROVE Nth(1..N, k) = k OBVIOUS
  <2>1. {j \in 1..N : j <= k} = 1..k /\ k \in Nat OBVIOUS
  <2>2. Nth(1..N, k) = Cardinality(1..k) BY <2>1 DEF Nth
  <2>3. QED BY <2>1, <2>2, UpTo
<1>3. Cardinality(places) = N BY <1>1, UpTo
<1>4. \A n \in 1..N : list[CHOOSE k \in places : Nth(places, k) = n] = list[n]
  <2> SUFFICES ASSUME NEW n \in 1..N PROVE (CHOOSE k \in places : Nth(places, k) = n) = n OBVIOUS
  <2>1. n \in places /\ Nth(places, n) = n BY <1>2
  <2> HIDE DEF places
  <2>2. (CHOOSE k \in places : Nth(places, k) = n) \in places BY <2>1
  <2>3. Nth(places, CHOOSE k \in places : Nth(places, k) = n) = n BY <2>1
  <2>4. QED BY <1>2, <2>2, <2>3
<1>5. Picked(list, places) = [n \in 1..N |-> list[CHOOSE k \in places : Nth(places, k) = n]]
  <2>1. Picked(list, places) =
           [n \in 1..Cardinality(places) |-> list[CHOOSE k \in places : Nth(places, k) = n]]
    BY DEF Picked, Nth
  <2> HIDE DEF places, N
  <2>2. QED BY <1>3, <2>1
<1>6. QED
  <2> HIDE DEF places, N
  <2>1. QED BY <1>1, <1>4, <1>5

\* A list without the entries in a set: the others, in their order.
LEMMA WithoutIs ==
    ASSUME NEW S, NEW list \in Seq(S), NEW set
    PROVE  /\ Without(list, set) \in Seq(S) /\ Len(Without(list, set)) <= Len(list)
           /\ Len(Without(list, set)) \in Nat
           /\ ToSet(Without(list, set)) = ToSet(list) \ set
           /\ \E at \in [1..Len(Without(list, set)) -> 1..Len(list)] :
                /\ \A n \in 1..Len(Without(list, set)) : Without(list, set)[n] = list[at[n]]
                /\ \A m, n \in 1..Len(Without(list, set)) : m # n => at[m] # at[n]
                /\ \A m, n \in 1..Len(Without(list, set)) : m < n => at[m] < at[n]
<1> DEFINE places == {k \in DOMAIN list : list[k] \notin set}
           out == Without(list, set)
           N == Len(out)
<1>1. DOMAIN list = 1..Len(list) /\ Len(list) \in Nat /\ places \in SUBSET (1..Len(list)) OBVIOUS
<1>2. out = Picked(list, places) BY DEF Without
<1>0. \A k : k \in places <=> k \in DOMAIN list /\ list[k] \notin set OBVIOUS
<1> HIDE DEF places, out
<1>3. out \in Seq(S) /\ N \in Nat /\ N <= Len(list) /\ Thinned(out, list, places) BY <1>1, <1>2, PickedIs
<1>4. PICK at \in [1..N -> places] :
           /\ \A n \in 1..N : out[n] = list[at[n]]
           /\ \A m, n \in 1..N : m < n => at[m] < at[n]
           /\ \A k \in places : \E n \in 1..N : at[n] = k
  BY <1>3 DEF Thinned
<1> HIDE DEF N
<1>5. DOMAIN out = 1..N BY <1>3 DEF N
<1>6. ToSet(out) = {list[k] : k \in places}
  <2>1. ToSet(out) = {out[n] : n \in 1..N} BY <1>5 DEF ToSet
  <2>2. \A n \in 1..N : at[n] \in places BY <1>4
  <2>3. ASSUME NEW x \in {out[n] : n \in 1..N} PROVE x \in {list[k] : k \in places} BY <1>4, <2>2
  <2>4. ASSUME NEW x \in {list[k] : k \in places} PROVE x \in {out[n] : n \in 1..N}
    <3>1. PICK k \in places : x = list[k] OBVIOUS
    <3>2. PICK n \in 1..N : at[n] = k BY <1>4
    <3>3. QED BY <1>4, <3>1, <3>2
  <2>5. QED BY <2>1, <2>3, <2>4
<1>7. {list[k] : k \in places} = ToSet(list) \ set
  <2>1. ToSet(list) = {list[k] : k \in DOMAIN list} BY DEF ToSet
  <2>2. QED BY <1>0, <2>1
<1>8. at \in [1..N -> 1..Len(list)] BY <1>1, <1>4
<1>9. \A m, n \in 1..N : m # n => at[m] # at[n]
  <2> SUFFICES ASSUME NEW m \in 1..N, NEW n \in 1..N, m # n PROVE at[m] # at[n] OBVIOUS
  <2>1. at[m] \in Int /\ at[n] \in Int BY <1>8
  <2>2. m < n \/ n < m BY <1>3
  <2>3. QED BY <1>4, <2>1, <2>2
<1>10. Len(out) = N /\ Len(out) \in Nat /\ Len(out) <= Len(list) BY <1>3 DEF N
<1>11. /\ at \in [1..Len(out) -> 1..Len(list)]
       /\ \A n \in 1..Len(out) : out[n] = list[at[n]]
       /\ \A m, n \in 1..Len(out) : m # n => at[m] # at[n]
       /\ \A m, n \in 1..Len(out) : m < n => at[m] < at[n]
  BY <1>4, <1>8, <1>9, <1>10
<1>12. ToSet(out) = ToSet(list) \ set BY <1>6, <1>7
<1>13. QED BY <1>3, <1>10, <1>11, <1>12 DEF out

\* A list of which no two entries differ in case only.
NoTwins(list) == \A j, k \in DOMAIN list : Fold[list[j]] = Fold[list[k]] => j = k

\* What is left of a list without its twins has none, and has every spelling.
LEMMA DistinctIs ==
    ASSUME NEW S, NEW list \in Seq(S)
    PROVE  /\ Distinct(list) \in Seq(S) /\ Len(Distinct(list)) \in Nat /\ Len(Distinct(list)) <= Len(list)
           /\ NoTwins(Distinct(list))
           /\ \A k \in DOMAIN list : (\A j \in Named(list, list[k]) : k <= j) => list[k] \in ToSet(Distinct(list))
           /\ \A k \in DOMAIN list : \E n \in DOMAIN Distinct(list) : Fold[Distinct(list)[n]] = Fold[list[k]]
           /\ ToSet(Distinct(list)) \subseteq ToSet(list)
<1> DEFINE places == {k \in DOMAIN list : \A j \in Named(list, list[k]) : k <= j}
           out == Distinct(list)
           N == Len(out)
<1>1. DOMAIN list = 1..Len(list) /\ Len(list) \in Nat /\ places \in SUBSET (1..Len(list)) OBVIOUS
<1>2. out = Picked(list, places) BY DEF Distinct
<1>0. \A k : k \in places <=> k \in DOMAIN list /\ \A j \in Named(list, list[k]) : k <= j OBVIOUS
<1> HIDE DEF places, out
<1>3. out \in Seq(S) /\ N \in Nat /\ N <= Len(list) /\ Thinned(out, list, places) BY <1>1, <1>2, PickedIs
<1>4. PICK at \in [1..N -> places] :
           /\ \A n \in 1..N : out[n] = list[at[n]]
           /\ \A m, n \in 1..N : m < n => at[m] < at[n]
           /\ \A k \in places : \E n \in 1..N : at[n] = k
  BY <1>3 DEF Thinned
<1>5. DOMAIN out = 1..N BY <1>3
<1> HIDE DEF N
<1>6. \A n \in 1..N : at[n] \in places /\ at[n] \in 1..Len(list) /\ at[n] \in Int BY <1>0, <1>1, <1>4
<1>7. NoTwins(out)
  <2> SUFFICES ASSUME NEW m \in 1..N, NEW n \in 1..N, Fold[out[m]] = Fold[out[n]] PROVE m = n BY <1>5 DEF NoTwins
  <2>1. Fold[list[at[m]]] = Fold[list[at[n]]] BY <1>4
  <2>2. at[m] \in Named(list, list[at[n]]) /\ at[n] \in Named(list, list[at[m]]) BY <1>1, <1>6, <2>1 DEF Named
  <2>3. at[n] <= at[m] /\ at[m] <= at[n] BY <1>0, <1>6, <2>2
  <2>4. at[n] = at[m] BY <1>6, <2>3
  <2>5. m \in Int /\ n \in Int BY <1>3
  <2>6. ~(at[m] < at[n]) /\ ~(at[n] < at[m]) BY <1>6, <2>4
  <2>7. ~(m < n) /\ ~(n < m) BY <1>4, <2>6
  <2>8. QED BY <2>5, <2>7
<1>8. \A k \in places : \E n \in 1..N : out[n] = list[k] BY <1>4
<1>9. \A k \in DOMAIN list : (\A j \in Named(list, list[k]) : k <= j) => list[k] \in ToSet(out)
  <2> SUFFICES ASSUME NEW k \in DOMAIN list, \A j \in Named(list, list[k]) : k <= j PROVE list[k] \in ToSet(out)
    OBVIOUS
  <2>1. k \in places BY <1>0
  <2>2. PICK n \in 1..N : out[n] = list[k] BY <1>8, <2>1
  <2>3. QED BY <1>5, <2>2 DEF ToSet
<1>10. \A k \in DOMAIN list : \E n \in DOMAIN out : Fold[out[n]] = Fold[list[k]]
  <2> SUFFICES ASSUME NEW k \in DOMAIN list PROVE \E n \in DOMAIN out : Fold[out[n]] = Fold[list[k]] OBVIOUS
  <2> DEFINE twins == Named(list, list[k])
             first == Min(twins)
  <2>1. twins \in SUBSET (1..Len(list)) /\ k \in twins BY <1>1 DEF Named
  <2> HIDE DEF twins
  <2>2. first \in twins /\ \A j \in twins : first <= j BY <1>1, <2>1, FirstPlace
  <2> HIDE DEF first
  <2>3. first \in DOMAIN list /\ Fold[list[first]] = Fold[list[k]] BY <2>2 DEF twins, Named
  <2>4. Named(list, list[first]) = twins BY <2>3 DEF twins, Named
  <2>5. first \in places BY <1>0, <2>2, <2>3, <2>4
  <2>6. PICK n \in 1..N : out[n] = list[first] BY <1>8, <2>5
  <2>7. QED BY <1>5, <2>3, <2>6
<1>11. ToSet(out) \subseteq ToSet(list)
  <2> SUFFICES ASSUME NEW n \in 1..N PROVE out[n] \in ToSet(list) BY <1>5 DEF ToSet
  <2>1. out[n] = list[at[n]] /\ at[n] \in DOMAIN list BY <1>1, <1>4, <1>6
  <2>2. QED BY <2>1 DEF ToSet
<1>12. QED BY <1>3, <1>7, <1>9, <1>10, <1>11 DEF N, out

\* A list without twins is what is left of itself, and only such a list is.
LEMMA DistinctSame ==
    ASSUME NEW S, NEW list \in Seq(S)
    PROVE  NoTwins(list) <=> Distinct(list) = list
<1>1. ASSUME Distinct(list) = list PROVE NoTwins(list)
  <2>1. NoTwins(Distinct(list)) BY DistinctIs
  <2>2. QED BY <1>1, <2>1
<1>2. ASSUME NoTwins(list) PROVE Distinct(list) = list
  <2> DEFINE places == {k \in DOMAIN list : \A j \in Named(list, list[k]) : k <= j}
  <2>1. places = DOMAIN list
    <3> SUFFICES ASSUME NEW k \in DOMAIN list, NEW j \in Named(list, list[k]) PROVE k <= j OBVIOUS
    <3>1. j \in DOMAIN list /\ j = k /\ k \in Int BY <1>2 DEF NoTwins, Named
    <3>2. QED BY <3>1
  <2>2. Distinct(list) = Picked(list, places) BY DEF Distinct
  <2> HIDE DEF places
  <2>3. QED BY <2>1, <2>2, PickedAll
<1>3. QED BY <1>1, <1>2

\* A list that begins with one without twins keeps all of that one.
LEMMA DistinctKeeps ==
    ASSUME NEW S, NEW a \in Seq(S), NEW b \in Seq(S), NoTwins(a)
    PROVE  ToSet(a) \subseteq ToSet(Distinct(a \o b))
<1> SUFFICES ASSUME NEW k \in DOMAIN a PROVE a[k] \in ToSet(Distinct(a \o b)) BY DEF ToSet
<1> DEFINE list == a \o b
<1>1. list \in Seq(S) /\ k \in DOMAIN list /\ list[k] = a[k] /\ k \in 1..Len(a) /\ Len(a) \in Nat OBVIOUS
<1>2. \A j \in Named(list, list[k]) : k <= j
  <2> SUFFICES ASSUME NEW j \in DOMAIN list, Fold[list[j]] = Fold[list[k]] PROVE k <= j BY DEF Named
  <2>1. j \in 1..Len(list) /\ k \in Int /\ j \in Int BY <1>1
  <2>2. CASE j \in 1..Len(a)
    <3>1. list[j] = a[j] /\ j \in DOMAIN a BY <2>2
    <3>2. j = k BY <1>1, <3>1 DEF NoTwins
    <3>3. QED BY <2>1, <3>2
  <2>3. CASE j \notin 1..Len(a) BY <1>1, <2>1, <2>3
  <2>4. QED BY <2>2, <2>3
<1> HIDE DEF list
<1>3. list[k] \in ToSet(Distinct(list)) BY <1>1, <1>2, DistinctIs
<1>4. QED BY <1>1, <1>3 DEF list

\* A spelling of the list is an entry of it, when the list has one.
LEMMA SpellingIs ==
    ASSUME NEW S, NEW list \in Seq(S), NEW name
    PROVE  /\ Spelling(list, name) = name \/ Spelling(list, name) \in ToSet(list)
           /\ (\E n \in DOMAIN list : Fold[list[n]] = Fold[name]) => Spelling(list, name) \in ToSet(list)
<1>1. CASE Named(list, name) = {} BY <1>1 DEF Spelling, Named
<1>2. CASE Named(list, name) # {}
  <2>1. Len(list) \in Nat /\ Named(list, name) \in SUBSET (1..Len(list)) BY DEF Named
  <2>2. Min(Named(list, name)) \in Named(list, name) BY <1>2, <2>1, FirstPlace
  <2>3. Min(Named(list, name)) \in DOMAIN list BY <2>2 DEF Named
  <2>4. list[Min(Named(list, name))] \in ToSet(list) BY <2>3 DEF ToSet
  <2>5. QED BY <1>2, <2>4 DEF Spelling
<1>3. QED BY <1>1, <1>2

\* What the board's keys hold, and what a pipeline writes to them.
GoodLists   == {list \in Seq(Names) : NoTwins(list) /\ Len(list) <= ListMax}
GoodStories == {all \in [StoryIds -> Seq(Items)] : Canonical(all)}
Rows    == [Items -> Record]
Answers == [Items -> Texts \union {None}]
Command ==
    [key : {"record"}, item : Items, to : Record]
    \union [key : {"record"}, item : {None}, to : Rows]
    \union [key : {"answer"}, item : Items, to : Texts \union {None}]
    \union [key : {"answer"}, item : {None}, to : Answers]
    \union [key : {"categories"}, item : {None}, to : GoodLists]
    \union [key : {"stories"}, item : {None}, to : GoodStories]

\* A request: its fields, and what they are at each of its points.
Job(kind, pc, ask, todo, plan, failed, put) ==
    [kind |-> kind, pc |-> pc, ask |-> ask, todo |-> todo, plan |-> plan, failed |-> failed, put |-> put]
IsWork(j) == j = Job(j.kind, j.pc, j.ask, j.todo, j.plan, j.failed, j.put)
IsPutting(p) == /\ p = [att |-> p.att, prefix |-> p.prefix, n |-> p.n]
                /\ p.att \in Attachment /\ p.prefix \in Nat /\ p.n \in 0..Size[p.att.content]
IsExport(p) == /\ p = [rows |-> p.rows, answers |-> p.answers, categories |-> p.categories,
                       stories |-> p.stories, whole |-> p.whole]
               /\ p.rows \in Rows /\ p.answers \in Answers /\ p.categories \in GoodLists
               /\ p.stories \in GoodStories /\ p.whole \in BOOLEAN

ListFits(j)   == /\ j.kind = "list" /\ j.pc = "panel" /\ j.ask \subseteq Names /\ j.todo = <<>>
                 /\ j.plan \in GoodLists
RenameFits(j) == /\ j.kind = "rename" /\ j.pc \in {"moving", "moved"}
                 /\ j.ask \in [from : Names, to : Names] /\ j.plan \in GoodLists
SaveFits(j)   == j.kind = "save" /\ j.pc = "saved"
DeleteFits(j) == /\ j.kind = "delete" /\ j.pc \in {"deleted", "shrunk", "remove"} /\ j.ask \in Items
                 /\ j.pc = "remove" => j.todo = <<>> /\ j.plan \in Seq(Nat)
TellFits(j)   == j.kind = "stories" /\ j.pc = "told"
ImportFits(j) == /\ j.kind \in {"import", "replace"} /\ j.ask \in Bundles
                 /\ \/ j.pc = "clear" /\ j.kind = "replace"
                    \/ j.pc = "read" /\ j.todo = <<>>
                    \/ j.pc = "plan" /\ j.plan \in Seq(Command) /\ j.todo = <<>>
                    \/ j.pc = "attach" /\ j.plan \in Seq(Items \X Contents)
                    \/ j.pc \in {"find", "chunks", "drop"} /\ j.plan \in Seq(Items \X Digests) /\ j.todo = <<>>
FileFits(j)   == /\ j.kind \in {"upload", "refill"} /\ j.pc \in {"chunks", "drop"}
                 /\ j.ask \in Items /\ j.todo = <<>>
ExportFits(j) == /\ j.kind = "export" /\ j.pc = "reading" /\ j.ask \subseteq Parts /\ j.todo = <<>>
                 /\ IsExport(j.plan)
JobFits(j) == \/ ListFits(j) \/ RenameFits(j) \/ SaveFits(j) \/ DeleteFits(j)
              \/ TellFits(j) \/ ImportFits(j) \/ FileFits(j) \/ ExportFits(j)
JobOK(j) == j = Free \/ /\ IsWork(j) /\ j.pc # "free" /\ j.todo \in Seq(Command) /\ j.failed \in BOOLEAN
                        /\ JobFits(j)
                        /\ j.pc \in {"chunks", "drop"} => IsPutting(j.put)

BoardTyped == /\ record \in Rows /\ answer \in Answers
              /\ categories \in GoodLists /\ stories \in GoodStories
StoreTyped == /\ files \in [Items -> Seq(Attachment)] /\ blob \subseteq Nat \X Nat
              /\ bytes \in Int /\ made \in Nat
JobsTyped  == job = [s \in Tasks |-> job[s]] /\ \A s \in Tasks : JobOK(job[s])
HistoryTyped == /\ crossed \in BOOLEAN /\ broken \in BOOLEAN /\ swept \in BOOLEAN
                /\ doubt \in BOOLEAN /\ half \subseteq Names
Typed == BoardTyped /\ StoreTyped /\ JobsTyped /\ HistoryTyped

-----------------------------------------------------------------------------
\* One request moves on, the others stay.
Sets(s, j) == job' = [t \in Tasks |-> IF t = s THEN j ELSE job[t]]

LEMMA SetsIs ==
    ASSUME NEW s \in Tasks, NEW j, Sets(s, j)
    PROVE  job'[s] = j /\ \A t \in Tasks : t # s => job'[t] = job[t]
BY DEF Sets

LEMMA SetsTyped ==
    ASSUME JobsTyped, NEW s \in Tasks, NEW j, Sets(s, j), JobOK(j)
    PROVE  JobsTyped'
<1>1. job' = [t \in Tasks |-> job'[t]] BY DEF Sets
<1>2. \A t \in Tasks : JobOK(job[t]) BY DEF JobsTyped
<1>3. ASSUME NEW t \in Tasks PROVE JobOK(job'[t])
  <2>1. job'[t] = j \/ job'[t] = job[t] BY SetsIs
  <2>2. QED BY <1>2, <2>1
<1>4. QED BY <1>1, <1>3 DEF JobsTyped

LEMMA WorkIs == ASSUME NEW kind, NEW pc, NEW ask, NEW todo, NEW plan
    PROVE Work(kind, pc, ask, todo, plan) = Job(kind, pc, ask, todo, plan, FALSE, None)
BY DEF Work, Job

LEMMA TakesSets == ASSUME JobsTyped, NEW s \in Tasks, NEW j, Takes(s, j) PROVE Sets(s, j)
BY DEF JobsTyped, Takes, Sets

LEMMA EndsSets == ASSUME JobsTyped, NEW s \in Tasks, Ends(s) PROVE Sets(s, Free)
BY DEF JobsTyped, Ends, Sets

\* A request at work has its fields.
LEMMA AtWork ==
    ASSUME JobsTyped, NEW s \in Tasks, job[s].pc # "free" \/ job[s] # Free
    PROVE  /\ IsWork(job[s]) /\ job[s].todo \in Seq(Command) /\ job[s].failed \in BOOLEAN
           /\ JobFits(job[s]) /\ job[s] # Free /\ job[s].pc # "free"
           /\ job[s].pc \in {"chunks", "drop"} => IsPutting(job[s].put)
<1>1. JobOK(job[s]) BY DEF JobsTyped
<1>2. job[s] # Free BY DEF Free
<1>3. job[s].pc # "free" BY <1>1, <1>2 DEF JobOK
<1>4. QED BY <1>1, <1>2, <1>3 DEF JobOK

\* A change of one request's fields, as a new request.
LEMMA GoesSets ==
    ASSUME JobsTyped, NEW s \in Tasks, job[s].pc # "free", NEW pc,
           job' = [job EXCEPT ![s].pc = pc]
    PROVE  Sets(s, Job(job[s].kind, pc, job[s].ask, job[s].todo, job[s].plan, job[s].failed, job[s].put))
<1>1. IsWork(job[s]) /\ job = [t \in Tasks |-> job[t]] BY AtWork DEF JobsTyped
<1>2. [job[s] EXCEPT !.pc = pc] = Job(job[s].kind, pc, job[s].ask, job[s].todo, job[s].plan, job[s].failed, job[s].put)
  <2> DEFINE r0 == Job(job[s].kind, job[s].pc, job[s].ask, job[s].todo, job[s].plan, job[s].failed, job[s].put)
             r1 == Job(job[s].kind, pc, job[s].ask, job[s].todo, job[s].plan, job[s].failed, job[s].put)
  <2>0. job[s] = r0 BY <1>1 DEF IsWork
  <2>1. [r0 EXCEPT !.pc = pc] = r1 BY DEF Job
  <2> HIDE DEF r0, r1
  <2>2. QED BY <2>0, <2>1 DEF r1
<1>3. QED BY <1>1, <1>2 DEF Sets

LEMMA TodoPcSets ==
    ASSUME JobsTyped, NEW s \in Tasks, job[s].pc # "free", NEW todo, NEW pc,
           job' = [job EXCEPT ![s].todo = todo, ![s].pc = pc] \/ job' = [job EXCEPT ![s].pc = pc, ![s].todo = todo]
    PROVE  Sets(s, Job(job[s].kind, pc, job[s].ask, todo, job[s].plan, job[s].failed, job[s].put))
<1>1. IsWork(job[s]) /\ job = [t \in Tasks |-> job[t]] BY AtWork DEF JobsTyped
<1>2. [job[s] EXCEPT !.todo = todo, !.pc = pc] = Job(job[s].kind, pc, job[s].ask, todo, job[s].plan, job[s].failed, job[s].put)
  <2> DEFINE r0 == Job(job[s].kind, job[s].pc, job[s].ask, job[s].todo, job[s].plan, job[s].failed, job[s].put)
             r1 == Job(job[s].kind, job[s].pc, job[s].ask, todo, job[s].plan, job[s].failed, job[s].put)
             r2 == Job(job[s].kind, pc, job[s].ask, todo, job[s].plan, job[s].failed, job[s].put)
  <2>0. job[s] = r0 BY <1>1 DEF IsWork
  <2>1. [r0 EXCEPT !.todo = todo] = r1 BY DEF Job
  <2>2. [r1 EXCEPT !.pc = pc] = r2 BY DEF Job
  <2> HIDE DEF r0, r1, r2
  <2>3. [job[s] EXCEPT !.todo = todo, !.pc = pc] = [[job[s] EXCEPT !.todo = todo] EXCEPT !.pc = pc] OBVIOUS
  <2>4. [[job[s] EXCEPT !.todo = todo] EXCEPT !.pc = pc] = r2 BY <2>0, <2>1, <2>2
  <2>5. QED BY <2>3, <2>4 DEF r2
<1>3. [job[s] EXCEPT !.pc = pc, !.todo = todo] = Job(job[s].kind, pc, job[s].ask, todo, job[s].plan, job[s].failed, job[s].put)
  <2> DEFINE r0 == Job(job[s].kind, job[s].pc, job[s].ask, job[s].todo, job[s].plan, job[s].failed, job[s].put)
             r1 == Job(job[s].kind, pc, job[s].ask, job[s].todo, job[s].plan, job[s].failed, job[s].put)
             r2 == Job(job[s].kind, pc, job[s].ask, todo, job[s].plan, job[s].failed, job[s].put)
  <2>0. job[s] = r0 BY <1>1 DEF IsWork
  <2>1. [r0 EXCEPT !.pc = pc] = r1 BY DEF Job
  <2>2. [r1 EXCEPT !.todo = todo] = r2 BY DEF Job
  <2> HIDE DEF r0, r1, r2
  <2>3. [job[s] EXCEPT !.pc = pc, !.todo = todo] = [[job[s] EXCEPT !.pc = pc] EXCEPT !.todo = todo] OBVIOUS
  <2>4. [[job[s] EXCEPT !.pc = pc] EXCEPT !.todo = todo] = r2 BY <2>0, <2>1, <2>2
  <2>5. QED BY <2>3, <2>4 DEF r2
<1>4. QED BY <1>1, <1>2, <1>3 DEF Sets

LEMMA PcPlanSets ==
    ASSUME JobsTyped, NEW s \in Tasks, job[s].pc # "free", NEW pc, NEW plan,
           job' = [job EXCEPT ![s].pc = pc, ![s].plan = plan]
    PROVE  Sets(s, Job(job[s].kind, pc, job[s].ask, job[s].todo, plan, job[s].failed, job[s].put))
<1>1. IsWork(job[s]) /\ job = [t \in Tasks |-> job[t]] BY AtWork DEF JobsTyped
<1>2. [job[s] EXCEPT !.pc = pc, !.plan = plan] = Job(job[s].kind, pc, job[s].ask, job[s].todo, plan, job[s].failed, job[s].put)
  <2> DEFINE r0 == Job(job[s].kind, job[s].pc, job[s].ask, job[s].todo, job[s].plan, job[s].failed, job[s].put)
             r1 == Job(job[s].kind, pc, job[s].ask, job[s].todo, job[s].plan, job[s].failed, job[s].put)
             r2 == Job(job[s].kind, pc, job[s].ask, job[s].todo, plan, job[s].failed, job[s].put)
  <2>0. job[s] = r0 BY <1>1 DEF IsWork
  <2>1. [r0 EXCEPT !.pc = pc] = r1 BY DEF Job
  <2>2. [r1 EXCEPT !.plan = plan] = r2 BY DEF Job
  <2> HIDE DEF r0, r1, r2
  <2>3. [job[s] EXCEPT !.pc = pc, !.plan = plan] = [[job[s] EXCEPT !.pc = pc] EXCEPT !.plan = plan] OBVIOUS
  <2>4. [[job[s] EXCEPT !.pc = pc] EXCEPT !.plan = plan] = r2 BY <2>0, <2>1, <2>2
  <2>5. QED BY <2>3, <2>4 DEF r2
<1>3. QED BY <1>1, <1>2 DEF Sets

LEMMA PcTodoPlanSets ==
    ASSUME JobsTyped, NEW s \in Tasks, job[s].pc # "free", NEW pc, NEW todo, NEW plan,
           job' = [job EXCEPT ![s].pc = pc, ![s].todo = todo, ![s].plan = plan]
    PROVE  Sets(s, Job(job[s].kind, pc, job[s].ask, todo, plan, job[s].failed, job[s].put))
<1>1. IsWork(job[s]) /\ job = [t \in Tasks |-> job[t]] BY AtWork DEF JobsTyped
<1>2. [job[s] EXCEPT !.pc = pc, !.todo = todo, !.plan = plan] = Job(job[s].kind, pc, job[s].ask, todo, plan, job[s].failed, job[s].put)
  <2> DEFINE r0 == Job(job[s].kind, job[s].pc, job[s].ask, job[s].todo, job[s].plan, job[s].failed, job[s].put)
             r1 == Job(job[s].kind, pc, job[s].ask, job[s].todo, job[s].plan, job[s].failed, job[s].put)
             r2 == Job(job[s].kind, pc, job[s].ask, todo, job[s].plan, job[s].failed, job[s].put)
             r3 == Job(job[s].kind, pc, job[s].ask, todo, plan, job[s].failed, job[s].put)
  <2>0. job[s] = r0 BY <1>1 DEF IsWork
  <2>1. [r0 EXCEPT !.pc = pc] = r1 BY DEF Job
  <2>2. [r1 EXCEPT !.todo = todo] = r2 BY DEF Job
  <2>3. [r2 EXCEPT !.plan = plan] = r3 BY DEF Job
  <2> HIDE DEF r0, r1, r2, r3
  <2>4. [job[s] EXCEPT !.pc = pc, !.todo = todo, !.plan = plan] = [[[job[s] EXCEPT !.pc = pc] EXCEPT !.todo = todo] EXCEPT !.plan = plan] OBVIOUS
  <2>5. [[[job[s] EXCEPT !.pc = pc] EXCEPT !.todo = todo] EXCEPT !.plan = plan] = r3 BY <2>0, <2>1, <2>2, <2>3
  <2>6. QED BY <2>4, <2>5 DEF r3
<1>3. QED BY <1>1, <1>2 DEF Sets

LEMMA PlanSets ==
    ASSUME JobsTyped, NEW s \in Tasks, job[s].pc # "free", NEW plan,
           job' = [job EXCEPT ![s].plan = plan]
    PROVE  Sets(s, Job(job[s].kind, job[s].pc, job[s].ask, job[s].todo, plan, job[s].failed, job[s].put))
<1>1. IsWork(job[s]) /\ job = [t \in Tasks |-> job[t]] BY AtWork DEF JobsTyped
<1>2. [job[s] EXCEPT !.plan = plan] = Job(job[s].kind, job[s].pc, job[s].ask, job[s].todo, plan, job[s].failed, job[s].put)
  <2> DEFINE r0 == Job(job[s].kind, job[s].pc, job[s].ask, job[s].todo, job[s].plan, job[s].failed, job[s].put)
             r1 == Job(job[s].kind, job[s].pc, job[s].ask, job[s].todo, plan, job[s].failed, job[s].put)
  <2>0. job[s] = r0 BY <1>1 DEF IsWork
  <2>1. [r0 EXCEPT !.plan = plan] = r1 BY DEF Job
  <2> HIDE DEF r0, r1
  <2>2. QED BY <2>0, <2>1 DEF r1
<1>3. QED BY <1>1, <1>2 DEF Sets

LEMMA PlanPcPutSets ==
    ASSUME JobsTyped, NEW s \in Tasks, job[s].pc # "free", NEW plan, NEW pc, NEW put,
           job' = [job EXCEPT ![s].plan = plan, ![s].pc = pc, ![s].put = put]
    PROVE  Sets(s, Job(job[s].kind, pc, job[s].ask, job[s].todo, plan, job[s].failed, put))
<1>1. IsWork(job[s]) /\ job = [t \in Tasks |-> job[t]] BY AtWork DEF JobsTyped
<1>2. [job[s] EXCEPT !.plan = plan, !.pc = pc, !.put = put] = Job(job[s].kind, pc, job[s].ask, job[s].todo, plan, job[s].failed, put)
  <2> DEFINE r0 == Job(job[s].kind, job[s].pc, job[s].ask, job[s].todo, job[s].plan, job[s].failed, job[s].put)
             r1 == Job(job[s].kind, job[s].pc, job[s].ask, job[s].todo, plan, job[s].failed, job[s].put)
             r2 == Job(job[s].kind, pc, job[s].ask, job[s].todo, plan, job[s].failed, job[s].put)
             r3 == Job(job[s].kind, pc, job[s].ask, job[s].todo, plan, job[s].failed, put)
  <2>0. job[s] = r0 BY <1>1 DEF IsWork
  <2>1. [r0 EXCEPT !.plan = plan] = r1 BY DEF Job
  <2>2. [r1 EXCEPT !.pc = pc] = r2 BY DEF Job
  <2>3. [r2 EXCEPT !.put = put] = r3 BY DEF Job
  <2> HIDE DEF r0, r1, r2, r3
  <2>4. [job[s] EXCEPT !.plan = plan, !.pc = pc, !.put = put] = [[[job[s] EXCEPT !.plan = plan] EXCEPT !.pc = pc] EXCEPT !.put = put] OBVIOUS
  <2>5. [[[job[s] EXCEPT !.plan = plan] EXCEPT !.pc = pc] EXCEPT !.put = put] = r3 BY <2>0, <2>1, <2>2, <2>3
  <2>6. QED BY <2>4, <2>5 DEF r3
<1>3. QED BY <1>1, <1>2 DEF Sets

LEMMA PutSets ==
    ASSUME JobsTyped, NEW s \in Tasks, job[s].pc # "free", NEW put,
           job' = [job EXCEPT ![s].put = put]
    PROVE  Sets(s, Job(job[s].kind, job[s].pc, job[s].ask, job[s].todo, job[s].plan, job[s].failed, put))
<1>1. IsWork(job[s]) /\ job = [t \in Tasks |-> job[t]] BY AtWork DEF JobsTyped
<1>2. [job[s] EXCEPT !.put = put] = Job(job[s].kind, job[s].pc, job[s].ask, job[s].todo, job[s].plan, job[s].failed, put)
  <2> DEFINE r0 == Job(job[s].kind, job[s].pc, job[s].ask, job[s].todo, job[s].plan, job[s].failed, job[s].put)
             r1 == Job(job[s].kind, job[s].pc, job[s].ask, job[s].todo, job[s].plan, job[s].failed, put)
  <2>0. job[s] = r0 BY <1>1 DEF IsWork
  <2>1. [r0 EXCEPT !.put = put] = r1 BY DEF Job
  <2> HIDE DEF r0, r1
  <2>2. QED BY <2>0, <2>1 DEF r1
<1>3. QED BY <1>1, <1>2 DEF Sets

LEMMA AskPlanSets ==
    ASSUME JobsTyped, NEW s \in Tasks, job[s].pc # "free", NEW ask, NEW plan,
           job' = [job EXCEPT ![s].ask = ask, ![s].plan = plan]
    PROVE  Sets(s, Job(job[s].kind, job[s].pc, ask, job[s].todo, plan, job[s].failed, job[s].put))
<1>1. IsWork(job[s]) /\ job = [t \in Tasks |-> job[t]] BY AtWork DEF JobsTyped
<1>2. [job[s] EXCEPT !.ask = ask, !.plan = plan] = Job(job[s].kind, job[s].pc, ask, job[s].todo, plan, job[s].failed, job[s].put)
  <2> DEFINE r0 == Job(job[s].kind, job[s].pc, job[s].ask, job[s].todo, job[s].plan, job[s].failed, job[s].put)
             r1 == Job(job[s].kind, job[s].pc, ask, job[s].todo, job[s].plan, job[s].failed, job[s].put)
             r2 == Job(job[s].kind, job[s].pc, ask, job[s].todo, plan, job[s].failed, job[s].put)
  <2>0. job[s] = r0 BY <1>1 DEF IsWork
  <2>1. [r0 EXCEPT !.ask = ask] = r1 BY DEF Job
  <2>2. [r1 EXCEPT !.plan = plan] = r2 BY DEF Job
  <2> HIDE DEF r0, r1, r2
  <2>3. [job[s] EXCEPT !.ask = ask, !.plan = plan] = [[job[s] EXCEPT !.ask = ask] EXCEPT !.plan = plan] OBVIOUS
  <2>4. [[job[s] EXCEPT !.ask = ask] EXCEPT !.plan = plan] = r2 BY <2>0, <2>1, <2>2
  <2>5. QED BY <2>3, <2>4 DEF r2
<1>3. QED BY <1>1, <1>2 DEF Sets

LEMMA TodoSets ==
    ASSUME JobsTyped, NEW s \in Tasks, job[s].pc # "free", NEW todo,
           job' = [job EXCEPT ![s].todo = todo]
    PROVE  Sets(s, Job(job[s].kind, job[s].pc, job[s].ask, todo, job[s].plan, job[s].failed, job[s].put))
<1>1. IsWork(job[s]) /\ job = [t \in Tasks |-> job[t]] BY AtWork DEF JobsTyped
<1>2. [job[s] EXCEPT !.todo = todo] = Job(job[s].kind, job[s].pc, job[s].ask, todo, job[s].plan, job[s].failed, job[s].put)
  <2> DEFINE r0 == Job(job[s].kind, job[s].pc, job[s].ask, job[s].todo, job[s].plan, job[s].failed, job[s].put)
             r1 == Job(job[s].kind, job[s].pc, job[s].ask, todo, job[s].plan, job[s].failed, job[s].put)
  <2>0. job[s] = r0 BY <1>1 DEF IsWork
  <2>1. [r0 EXCEPT !.todo = todo] = r1 BY DEF Job
  <2> HIDE DEF r0, r1
  <2>2. QED BY <2>0, <2>1 DEF r1
<1>3. QED BY <1>1, <1>2 DEF Sets

LEMMA TodoFailedSets ==
    ASSUME JobsTyped, NEW s \in Tasks, job[s].pc # "free", NEW todo, NEW failed,
           job' = [job EXCEPT ![s].todo = todo, ![s].failed = failed]
    PROVE  Sets(s, Job(job[s].kind, job[s].pc, job[s].ask, todo, job[s].plan, failed, job[s].put))
<1>1. IsWork(job[s]) /\ job = [t \in Tasks |-> job[t]] BY AtWork DEF JobsTyped
<1>2. [job[s] EXCEPT !.todo = todo, !.failed = failed] = Job(job[s].kind, job[s].pc, job[s].ask, todo, job[s].plan, failed, job[s].put)
  <2> DEFINE r0 == Job(job[s].kind, job[s].pc, job[s].ask, job[s].todo, job[s].plan, job[s].failed, job[s].put)
             r1 == Job(job[s].kind, job[s].pc, job[s].ask, todo, job[s].plan, job[s].failed, job[s].put)
             r2 == Job(job[s].kind, job[s].pc, job[s].ask, todo, job[s].plan, failed, job[s].put)
  <2>0. job[s] = r0 BY <1>1 DEF IsWork
  <2>1. [r0 EXCEPT !.todo = todo] = r1 BY DEF Job
  <2>2. [r1 EXCEPT !.failed = failed] = r2 BY DEF Job
  <2> HIDE DEF r0, r1, r2
  <2>3. [job[s] EXCEPT !.todo = todo, !.failed = failed] = [[job[s] EXCEPT !.todo = todo] EXCEPT !.failed = failed] OBVIOUS
  <2>4. [[job[s] EXCEPT !.todo = todo] EXCEPT !.failed = failed] = r2 BY <2>0, <2>1, <2>2
  <2>5. QED BY <2>3, <2>4 DEF r2
<1>3. QED BY <1>1, <1>2 DEF Sets

\* Which request is at which point.
LEMMA AtPoint ==
    ASSUME JobsTyped, NEW s \in Tasks, job[s].pc # "free" \/ job[s] # Free
    PROVE  /\ job[s].pc = "panel" \/ job[s].kind = "list" => ListFits(job[s])
           /\ job[s].pc \in {"moving", "moved"} \/ job[s].kind = "rename" => RenameFits(job[s])
           /\ job[s].pc = "saved" \/ job[s].kind = "save" => SaveFits(job[s])
           /\ job[s].pc \in {"deleted", "shrunk", "remove"} \/ job[s].kind = "delete" => DeleteFits(job[s])
           /\ job[s].pc = "told" \/ job[s].kind = "stories" => TellFits(job[s])
           /\ job[s].pc \in {"clear", "read", "plan", "attach", "find"} \/ job[s].kind \in {"import", "replace"} => ImportFits(job[s])
           /\ job[s].pc \in {"chunks", "drop"} => ImportFits(job[s]) \/ FileFits(job[s])
           /\ job[s].kind \in {"upload", "refill"} => FileFits(job[s])
           /\ job[s].pc = "reading" \/ job[s].kind = "export" => ExportFits(job[s])
BY AtWork DEF JobFits, ListFits, RenameFits, SaveFits, DeleteFits, TellFits, ImportFits, FileFits, ExportFits

LEMMA FieldsAre == ASSUME NEW kind, NEW pc, NEW ask, NEW todo, NEW plan, NEW failed, NEW put
    PROVE  LET j == Job(kind, pc, ask, todo, plan, failed, put)
           IN  /\ j.kind = kind /\ j.pc = pc /\ j.ask = ask /\ j.todo = todo /\ j.plan = plan
               /\ j.failed = failed /\ j.put = put
BY DEF Job

LEMMA WorkOK ==
    ASSUME NEW kind, NEW pc, NEW ask, NEW todo, NEW plan, NEW failed, NEW put,
           pc # "free", todo \in Seq(Command), failed \in BOOLEAN,
           JobFits(Job(kind, pc, ask, todo, plan, failed, put)),
           pc \in {"chunks", "drop"} => IsPutting(put)
    PROVE  JobOK(Job(kind, pc, ask, todo, plan, failed, put))
<1> DEFINE j == Job(kind, pc, ask, todo, plan, failed, put)
<1>1. /\ j.kind = kind /\ j.pc = pc /\ j.ask = ask /\ j.todo = todo /\ j.plan = plan
      /\ j.failed = failed /\ j.put = put
  BY FieldsAre
<1>2. IsWork(j) BY <1>1 DEF IsWork
<1>3. JobFits(j) OBVIOUS
<1> HIDE DEF j
<1>4. JobOK(j) BY <1>1, <1>2, <1>3 DEF JobOK
<1>5. QED BY <1>4 DEF j

-----------------------------------------------------------------------------
\* What each action makes of its request.
LEMMA BeginSets ==
    ASSUME JobsTyped, NEW s \in Tasks, NEW kind, NEW pc, NEW ask, NEW todo, NEW plan,
           Takes(s, Work(kind, pc, ask, todo, plan))
    PROVE  Sets(s, Job(kind, pc, ask, todo, plan, FALSE, None))
BY WorkIs, TakesSets

LEMMA LoadPanelIs == ASSUME JobsTyped, NEW s \in Tasks, LoadPanel(s)
    PROVE Sets(s, Job("list", "panel", {record[i].category : i \in Existing(record)}, <<>>, categories, FALSE, None))
BY BeginSets DEF LoadPanel

LEMMA SetCategoriesIs == ASSUME JobsTyped, NEW s \in Tasks, NEW added, NEW removed, SetCategories(s, added, removed)
    PROVE Sets(s, Free)
BY EndsSets DEF SetCategories

LEMMA RenameIs == ASSUME JobsTyped, NEW s \in Tasks, NEW from, NEW to, RenameCategory(s, from, to)
    PROVE LET at == Min(Named(categories, from))
          IN  Sets(s, Job("rename", "moving", [from |-> categories[at], to |-> to], <<>>,
                          [categories EXCEPT ![at] = to], FALSE, None))
BY BeginSets DEF RenameCategory

LEMMA MoveChallengesIs == ASSUME JobsTyped, NEW s \in Tasks, MoveChallenges(s)
    PROVE Sets(s, Job(job[s].kind, "moved", job[s].ask, Moves(job[s].ask), job[s].plan, job[s].failed, job[s].put))
BY TodoPcSets DEF MoveChallenges, Busy

LEMMA WriteListIs == ASSUME JobsTyped, NEW s \in Tasks, WriteList(s) PROVE Sets(s, Free)
BY EndsSets DEF WriteList

LEMMA SaveIs == ASSUME JobsTyped, NEW s \in Tasks, NEW i, NEW name, NEW text, Save(s, i, name, text)
    PROVE Sets(s, Job("save", "saved", i, <<Put("record", i, [category |-> name, text |-> text]), Put("answer", i, text)>>,
                      <<>>, FALSE, None))
BY BeginSets DEF Save

LEMMA DeleteIs == ASSUME JobsTyped, NEW s \in Tasks, NEW i, Delete(s, i)
    PROVE Sets(s, Job("delete", "deleted", i, <<Put("record", i, None), Put("answer", i, None)>>, <<>>, FALSE, None))
BY BeginSets DEF Delete

Shrunk(i) == [id \in StoryIds |-> Without(stories[id], {i})]

LEMMA ReadStoriesIs == ASSUME JobsTyped, NEW s \in Tasks, ReadStories(s)
    PROVE \E todo \in {<<>>, <<Put("stories", None, Shrunk(job[s].ask))>>} :
             Sets(s, Job(job[s].kind, "shrunk", job[s].ask, todo, job[s].plan, job[s].failed, job[s].put))
<1> DEFINE i == job[s].ask
           told == <<Put("stories", None, Shrunk(i))>>
<1>1. job[s].pc # "free" /\ job[s].todo = <<>> BY DEF ReadStories, Busy
<1>2. CASE \E id \in StoryIds : Contains(stories[id], i)
  <2>1. job' = [job EXCEPT ![s].pc = "shrunk", ![s].todo = told] BY <1>2 DEF ReadStories, Shrunk
  <2> HIDE DEF told
  <2>2. Sets(s, Job(job[s].kind, "shrunk", job[s].ask, told, job[s].plan, job[s].failed, job[s].put))
    BY <1>1, <2>1, TodoPcSets
  <2>3. QED BY <2>2 DEF told
<1>3. CASE ~\E id \in StoryIds : Contains(stories[id], i)
  <2>1. job' = [job EXCEPT ![s].pc = "shrunk"] BY <1>3 DEF ReadStories, Goes
  <2>2. QED BY <1>1, <2>1, GoesSets
<1>4. QED BY <1>2, <1>3

LEMMA ListFilesIs == ASSUME JobsTyped, NEW s \in Tasks, ListFiles(s)
    PROVE Sets(s, Job(job[s].kind, "remove", job[s].ask, job[s].todo,
                      [k \in DOMAIN files[job[s].ask] |-> files[job[s].ask][k].id], job[s].failed, job[s].put))
BY PcPlanSets DEF ListFiles, Busy

LEMMA RemoveNextIs == ASSUME JobsTyped, NEW s \in Tasks, RemoveNext(s)
    PROVE \/ job[s].plan = <<>> /\ Sets(s, Free) /\ UNCHANGED store
          \/ /\ job[s].plan # <<>> /\ RemoveFile(Head(job[s].plan))
             /\ Sets(s, Job(job[s].kind, job[s].pc, job[s].ask, job[s].todo, Tail(job[s].plan), job[s].failed, job[s].put))
<1>1. job[s].pc # "free" BY DEF RemoveNext, Busy
<1>2. CASE job[s].plan = <<>> BY <1>2, EndsSets DEF RemoveNext
<1>3. CASE job[s].plan # <<>>
  <2>1. RemoveFile(Head(job[s].plan)) /\ job' = [job EXCEPT ![s].plan = Tail(job[s].plan)] BY <1>3 DEF RemoveNext
  <2>2. QED BY <1>1, <1>3, <2>1, PlanSets
<1>4. QED BY <1>2, <1>3

LEMMA CheckStepsIs == ASSUME JobsTyped, NEW s \in Tasks, NEW all, CheckSteps(s, all)
    PROVE Sets(s, Job("stories", "told", None, <<Put("stories", None, all)>>, <<>>, FALSE, None))
BY BeginSets DEF CheckSteps

LEMMA ImportIs == ASSUME JobsTyped, NEW s \in Tasks, NEW b, Import(s, b)
    PROVE Sets(s, Job("import", "read", b, <<>>, <<>>, FALSE, None))
BY BeginSets DEF Import

Nothing == [i \in Items |-> None]
NoSteps == [id \in StoryIds |-> <<>>]
Cleared == <<Put("record", None, Nothing), Put("answer", None, Nothing),
             Put("categories", None, <<>>), Put("stories", None, NoSteps)>>

LEMMA ReplaceIs == ASSUME JobsTyped, NEW s \in Tasks, NEW b, Replace(s, b)
    PROVE Sets(s, Job("replace", "clear", b, Cleared, <<>>, FALSE, None))
BY BeginSets DEF Replace, Cleared, Nothing, NoSteps

LEMMA ClearFilesIs == ASSUME JobsTyped, NEW s \in Tasks, ClearFiles(s)
    PROVE Sets(s, Job(job[s].kind, "read", job[s].ask, job[s].todo, job[s].plan, job[s].failed, job[s].put))
BY GoesSets DEF ClearFiles, Busy, Goes

LEMMA ReadBoardIs == ASSUME JobsTyped, NEW s \in Tasks, ReadBoard(s)
    PROVE \/ Sets(s, Free)
          \/ /\ Accepts(stories, job[s].ask.stories)
             /\ Len(Unioned(categories, job[s].ask.categories)) <= ListMax
             /\ Sets(s, Job(job[s].kind, "plan", job[s].ask, job[s].todo, Writes(job[s].ask), job[s].failed, job[s].put))
<1> DEFINE b == job[s].ask
           ok == Accepts(stories, b.stories) /\ Len(Unioned(categories, b.categories)) <= ListMax
<1>1. job[s].pc # "free" BY DEF ReadBoard, Busy
<1>2. CASE ok
  <2>1. job' = [job EXCEPT ![s].pc = "plan", ![s].plan = Writes(b)] BY <1>2 DEF ReadBoard
  <2>2. QED BY <1>1, <1>2, <2>1, PcPlanSets
<1>3. CASE ~ok
  <2>1. Ends(s) BY <1>3 DEF ReadBoard
  <2>2. QED BY <2>1, EndsSets
<1>4. QED BY <1>2, <1>3

LEMMA PlanFilesIs == ASSUME JobsTyped, NEW s \in Tasks, PlanFiles(s)
    PROVE \/ Sets(s, Free)
          \/ Sets(s, Job(job[s].kind, "attach", job[s].ask, job[s].plan, Additions(job[s].ask), job[s].failed, job[s].put))
<1> DEFINE b == job[s].ask
           ok == \A k \in DOMAIN b.challenges : Len(files[b.challenges[k].item]) + Len(Lacks(b.challenges[k])) <= ItemMax
<1>1. job[s].pc # "free" BY DEF PlanFiles, Busy
<1>2. CASE ok
  <2>1. job' = [job EXCEPT ![s].pc = "attach", ![s].todo = job[s].plan, ![s].plan = Additions(b)] BY <1>2 DEF PlanFiles
  <2>2. QED BY <1>1, <2>1, PcTodoPlanSets
<1>3. CASE ~ok
  <2>1. Ends(s) BY <1>3 DEF PlanFiles
  <2>2. QED BY <2>1, EndsSets
<1>4. QED BY <1>2, <1>3

\* A file an import names: a link, or a file whose bytes are missing.
NewFile(add) == [id |-> made + 1, content |-> add[2], missing |-> add[2] # Link, prefix |-> made + 1]

LEMMA AttachNextIs == ASSUME JobsTyped, NEW s \in Tasks, AttachNext(s)
    PROVE \/ /\ job[s].plan = <<>> /\ UNCHANGED <<store, made>>
             /\ Sets(s, Job(job[s].kind, "find", job[s].ask, job[s].todo, SetToSeq(job[s].ask.carried), job[s].failed, job[s].put))
          \/ LET add == Head(job[s].plan) IN
             /\ job[s].plan # <<>> /\ Commit(add[1], NewFile(add)) /\ made' = made + 1
             /\ \/ Sets(s, Free)
                \/ Sets(s, Job(job[s].kind, job[s].pc, job[s].ask, job[s].todo, Tail(job[s].plan), job[s].failed, job[s].put))
<1> DEFINE add == Head(job[s].plan)
           ok == CommitVerdict(add[1], NewFile(add)) = "ok"
<1>1. job[s].pc # "free" BY DEF AttachNext, Busy
<1>2. CASE job[s].plan = <<>>
  <2>1. job' = [job EXCEPT ![s].pc = "find", ![s].plan = SetToSeq(job[s].ask.carried)] /\ UNCHANGED <<store, made>>
    BY <1>2 DEF AttachNext
  <2>2. QED BY <1>1, <1>2, <2>1, PcPlanSets
<1>3. CASE job[s].plan # <<>>
  <2>1. /\ Commit(add[1], NewFile(add)) /\ made' = made + 1
        /\ IF ok THEN job' = [job EXCEPT ![s].plan = Tail(job[s].plan)] ELSE Ends(s)
    BY <1>3 DEF AttachNext, NewFile
  <2>2. CASE ok
    <3>1. job' = [job EXCEPT ![s].plan = Tail(job[s].plan)] BY <2>1, <2>2
    <3>2. QED BY <1>1, <1>3, <2>1, <3>1, PlanSets
  <2>3. CASE ~ok
    <3>1. Ends(s) BY <2>1, <2>3
    <3>2. QED BY <1>3, <2>1, <3>1, EndsSets
  <2>4. QED BY <2>2, <2>3
<1>4. QED BY <1>2, <1>3

LEMMA FindNextIs == ASSUME JobsTyped, NEW s \in Tasks, FindNext(s)
    PROVE \/ Sets(s, Free) /\ UNCHANGED made
          \/ /\ job[s].plan # <<>> /\ UNCHANGED made
             /\ Sets(s, Job(job[s].kind, job[s].pc, job[s].ask, job[s].todo, Tail(job[s].plan), job[s].failed, job[s].put))
          \/ /\ job[s].plan # <<>> /\ made' = made + 1
             /\ \E att \in Missing(Head(job[s].plan)[1], Head(job[s].plan)[2]) :
                   Sets(s, Job(job[s].kind, "chunks", job[s].ask, job[s].todo, Tail(job[s].plan), job[s].failed, Writing(att)))
<1> DEFINE file == Head(job[s].plan)
           found == Missing(file[1], file[2])
           att == CHOOSE x \in found : TRUE
<1>1. job[s].pc # "free" BY DEF FindNext, Busy
<1>2. CASE job[s].plan = <<>>
  <2>1. Ends(s) /\ UNCHANGED made BY <1>2 DEF FindNext
  <2>2. QED BY <2>1, EndsSets
<1>3. CASE job[s].plan # <<>> /\ found = {}
  <2>1. job' = [job EXCEPT ![s].plan = Tail(job[s].plan)] /\ UNCHANGED made BY <1>3 DEF FindNext
  <2>2. QED BY <1>1, <1>3, <2>1, PlanSets
<1>4. CASE job[s].plan # <<>> /\ found # {}
  <2>1. /\ job' = [job EXCEPT ![s].plan = Tail(job[s].plan), ![s].pc = "chunks", ![s].put = Writing(att)]
        /\ made' = made + 1
    BY <1>4 DEF FindNext
  <2>2. att \in found BY <1>4
  <2> HIDE DEF att, found
  <2>3. Sets(s, Job(job[s].kind, "chunks", job[s].ask, job[s].todo, Tail(job[s].plan), job[s].failed, Writing(att)))
    BY <1>1, <2>1, PlanPcPutSets
  <2>4. QED BY <1>4, <2>1, <2>2, <2>3 DEF found
<1>5. QED BY <1>2, <1>3, <1>4

\* An upload of its own: the file it writes.
Fresh(content) == [id |-> made + 1, content |-> content, missing |-> FALSE, prefix |-> made + 1]

LEMMA UploadIs == ASSUME JobsTyped, NEW s \in Tasks, NEW i, NEW content, Upload(s, i, content)
    PROVE Sets(s, Job("upload", "chunks", i, <<>>, <<>>, FALSE, [att |-> Fresh(content), prefix |-> made + 1, n |-> 0]))
<1> DEFINE put == [att |-> Fresh(content), prefix |-> made + 1, n |-> 0]
<1>1. Takes(s, [Work("upload", "chunks", i, <<>>, <<>>) EXCEPT !.put = put]) BY DEF Upload, Fresh
<1> HIDE DEF put
<1>2. [Work("upload", "chunks", i, <<>>, <<>>) EXCEPT !.put = put] = Job("upload", "chunks", i, <<>>, <<>>, FALSE, put)
  <2>1. Work("upload", "chunks", i, <<>>, <<>>) = Job("upload", "chunks", i, <<>>, <<>>, FALSE, None) BY WorkIs, Zenon
  <2>0. \A f, e : [Job("upload", "chunks", i, e, e, f, None) EXCEPT !.put = put] = Job("upload", "chunks", i, e, e, f, put)
    BY DEF Job
  <2>2. [Job("upload", "chunks", i, <<>>, <<>>, FALSE, None) EXCEPT !.put = put] = Job("upload", "chunks", i, <<>>, <<>>, FALSE, put)
    BY <2>0, Zenon
  <2>3. QED BY <2>1, <2>2, Zenon
<1>3. QED BY <1>1, <1>2, TakesSets DEF put

LEMMA RefillIs == ASSUME JobsTyped, NEW s \in Tasks, NEW i, NEW content, Refill(s, i, content)
    PROVE \E att \in Missing(i, content) : Sets(s, Job("refill", "chunks", i, <<>>, <<>>, FALSE, Writing(att)))
<1>1. PICK att \in Missing(i, content) : Takes(s, [Work("refill", "chunks", i, <<>>, <<>>) EXCEPT !.put = Writing(att)])
  BY DEF Refill
<1> DEFINE put == Writing(att)
<1> HIDE DEF put
<1>2. [Work("refill", "chunks", i, <<>>, <<>>) EXCEPT !.put = put] = Job("refill", "chunks", i, <<>>, <<>>, FALSE, put)
  <2>1. Work("refill", "chunks", i, <<>>, <<>>) = Job("refill", "chunks", i, <<>>, <<>>, FALSE, None) BY WorkIs, Zenon
  <2>0. \A f, e : [Job("refill", "chunks", i, e, e, f, None) EXCEPT !.put = put] = Job("refill", "chunks", i, e, e, f, put)
    BY DEF Job
  <2>2. [Job("refill", "chunks", i, <<>>, <<>>, FALSE, None) EXCEPT !.put = put] = Job("refill", "chunks", i, <<>>, <<>>, FALSE, put)
    BY <2>0, Zenon
  <2>3. QED BY <2>1, <2>2, Zenon
<1>3. QED BY <1>1, <1>2, TakesSets DEF put

LEMMA PutChunkIs == ASSUME JobsTyped, NEW s \in Tasks, PutChunk(s)
    PROVE LET put == job[s].put
          IN  Sets(s, Job(job[s].kind, job[s].pc, job[s].ask, job[s].todo, job[s].plan, job[s].failed,
                          [att |-> put.att, prefix |-> put.prefix, n |-> put.n + 1]))
<1> DEFINE put == job[s].put
<1>1. job[s].pc = "chunks" BY DEF PutChunk, Busy
<1>2. IsPutting(put) BY <1>1, AtWork
<1>3. job' = [job EXCEPT ![s].put = [put EXCEPT !.n = put.n + 1]] BY DEF PutChunk
<1>4. [put EXCEPT !.n = put.n + 1] = [att |-> put.att, prefix |-> put.prefix, n |-> put.n + 1]
  <2> HIDE DEF put
  <2>1. QED BY <1>2 DEF IsPutting
<1>5. job[s].pc # "free" BY <1>1
<1>6. QED BY <1>3, <1>4, <1>5, PutSets

\* A request that fills, done with one file, looks for the next.
LEMMA FinishIs == ASSUME JobsTyped, NEW s \in Tasks, Finish(s)
    PROVE \/ Sets(s, Free)
          \/ /\ job[s].kind \in {"import", "replace"} /\ Accepted(s)
             /\ Sets(s, Job(job[s].kind, "find", job[s].ask, job[s].todo, job[s].plan, job[s].failed, job[s].put))
<1>1. job[s].pc # "free" BY DEF Finish, Written, Busy
<1>2. CASE job[s].kind \in {"import", "replace"} /\ Accepted(s)
  <2>1. job' = [job EXCEPT ![s].pc = "find"] BY <1>2 DEF Finish, Goes
  <2>2. QED BY <1>1, <1>2, <2>1, GoesSets
<1>3. CASE ~(job[s].kind \in {"import", "replace"} /\ Accepted(s))
  <2>1. Ends(s) BY <1>3 DEF Finish
  <2>2. QED BY <2>1, EndsSets
<1>4. QED BY <1>2, <1>3

LEMMA DropsIs == ASSUME JobsTyped, NEW s \in Tasks, FinishUnheard(s) \/ ChunkFails(s)
    PROVE Sets(s, Job(job[s].kind, "drop", job[s].ask, job[s].todo, job[s].plan, job[s].failed, job[s].put))
BY GoesSets DEF FinishUnheard, ChunkFails, Written, Busy, Goes

LEMMA DropChunksIs == ASSUME JobsTyped, NEW s \in Tasks, DropChunks(s) PROVE Sets(s, Free)
BY EndsSets DEF DropChunks

Unread == [rows |-> Nothing, answers |-> Nothing, categories |-> <<>>, stories |-> NoSteps, whole |-> TRUE]

LEMMA ExportIs == ASSUME JobsTyped, NEW s \in Tasks, Export(s)
    PROVE Sets(s, Job("export", "reading", Parts, <<>>, Unread, FALSE, None))
BY BeginSets DEF Export, Unread, Nothing, NoSteps

\* What an export holds after it read a part, or could not.
Reads(plan, part) ==
    [rows       |-> IF part = "rows" THEN record ELSE plan.rows,
     answers    |-> IF part = "rows" THEN answer ELSE plan.answers,
     categories |-> IF part = "categories" THEN categories ELSE plan.categories,
     stories    |-> IF part \notin {"rows", "categories"} THEN stories ELSE plan.stories,
     whole      |-> plan.whole]

LEMMA ExportReadIs == ASSUME JobsTyped, NEW s \in Tasks, NEW part, ExportRead(s, part)
    PROVE Sets(s, Job(job[s].kind, job[s].pc, job[s].ask \ {part}, job[s].todo, Reads(job[s].plan, part), job[s].failed, job[s].put))
<1> DEFINE p == job[s].plan
           new == CASE part = "rows" -> [p EXCEPT !.rows = record, !.answers = answer]
                    [] part = "categories" -> [p EXCEPT !.categories = categories]
                    [] OTHER -> [p EXCEPT !.stories = stories]
<1>1. job[s].pc = "reading" /\ job[s].pc # "free" BY DEF ExportRead, Busy
<1>2. ExportFits(job[s]) BY <1>1, AtPoint
<1>3. p = [rows |-> p.rows, answers |-> p.answers, categories |-> p.categories, stories |-> p.stories, whole |-> p.whole]
  BY <1>2 DEF ExportFits, IsExport
<1>4. job' = [job EXCEPT ![s].ask = job[s].ask \ {part}, ![s].plan = new] BY DEF ExportRead
<1>5. new = Reads(p, part)
  <2> HIDE DEF p
  <2>1. CASE part = "rows"
    <3> DEFINE q == [rows |-> record, answers |-> p.answers, categories |-> p.categories, stories |-> p.stories, whole |-> p.whole]
               r == [rows |-> record, answers |-> answer, categories |-> p.categories, stories |-> p.stories, whole |-> p.whole]
    <3>1. [p EXCEPT !.rows = record] = q BY <1>3
    <3>2. [q EXCEPT !.answers = answer] = r OBVIOUS
    <3>3. [p EXCEPT !.rows = record, !.answers = answer] = [[p EXCEPT !.rows = record] EXCEPT !.answers = answer] OBVIOUS
    <3>4. r = Reads(p, part) BY <2>1 DEF Reads
    <3> HIDE DEF q, r
    <3>5. QED BY <2>1, <3>1, <3>2, <3>3, <3>4
  <2>2. CASE part = "categories" BY <1>3, <2>2 DEF Reads
  <2>3. CASE part \notin {"rows", "categories"} BY <1>3, <2>3 DEF Reads
  <2>4. QED BY <2>1, <2>2, <2>3
<1> HIDE DEF new
<1>6. Sets(s, Job(job[s].kind, job[s].pc, job[s].ask \ {part}, job[s].todo, new, job[s].failed, job[s].put))
  BY <1>1, <1>4, AskPlanSets
<1>7. QED BY <1>5, <1>6

Skips(plan) == [rows |-> plan.rows, answers |-> plan.answers, categories |-> plan.categories,
                stories |-> plan.stories, whole |-> FALSE]

LEMMA ExportUnreadIs == ASSUME JobsTyped, NEW s \in Tasks, NEW part, ExportUnread(s, part)
    PROVE Sets(s, Job(job[s].kind, job[s].pc, job[s].ask \ {part}, job[s].todo, Skips(job[s].plan), job[s].failed, job[s].put))
<1> DEFINE p == job[s].plan
<1>1. job[s].pc = "reading" /\ job[s].pc # "free" BY DEF ExportUnread, Busy
<1>2. ExportFits(job[s]) BY <1>1, AtPoint
<1>3. p = [rows |-> p.rows, answers |-> p.answers, categories |-> p.categories, stories |-> p.stories, whole |-> p.whole]
  BY <1>2 DEF ExportFits, IsExport
<1>4. job' = [job EXCEPT ![s].ask = job[s].ask \ {part}, ![s].plan = [p EXCEPT !.whole = FALSE]] BY DEF ExportUnread
<1>5. [p EXCEPT !.whole = FALSE] = Skips(p)
  <2> DEFINE q == [rows |-> p.rows, answers |-> p.answers, categories |-> p.categories, stories |-> p.stories, whole |-> p.whole]
  <2>0. \A f : [q EXCEPT !.whole = f] = [rows |-> p.rows, answers |-> p.answers, categories |-> p.categories, stories |-> p.stories, whole |-> f]
    OBVIOUS
  <2>1. [q EXCEPT !.whole = FALSE] = Skips(p) BY <2>0, Zenon DEF Skips
  <2> HIDE DEF q
  <2>2. p = q BY <1>3 DEF q
  <2>3. QED BY <2>1, <2>2
<1> HIDE DEF p
<1>6. QED BY <1>1, <1>4, <1>5, AskPlanSets DEF p

LEMMA ExportDoneIs == ASSUME JobsTyped, NEW s \in Tasks, ExportDone(s) PROVE Sets(s, Free)
BY EndsSets DEF ExportDone

LEMMA RunCommandIs == ASSUME JobsTyped, NEW s \in Tasks, RunCommand(s)
    PROVE Sets(s, Job(job[s].kind, job[s].pc, job[s].ask, Tail(job[s].todo), job[s].plan, job[s].failed, job[s].put))
<1>1. job[s].pc # "free" BY AtWork DEF RunCommand
<1>2. job' = [job EXCEPT ![s].todo = Tail(job[s].todo)] BY DEF RunCommand
<1>3. QED BY <1>1, <1>2, TodoSets

LEMMA CommandFailsIs == ASSUME JobsTyped, NEW s \in Tasks, CommandFails(s)
    PROVE Sets(s, Job(job[s].kind, job[s].pc, job[s].ask, Tail(job[s].todo), job[s].plan, TRUE, job[s].put))
<1>1. job[s].pc # "free" BY AtWork DEF CommandFails
<1>2. job' = [job EXCEPT ![s].todo = Tail(job[s].todo), ![s].failed = TRUE] BY DEF CommandFails
<1>3. QED BY <1>1, <1>2, TodoFailedSets

LEMMA OverIs == ASSUME JobsTyped, NEW s \in Tasks, Returns(s) \/ RequestDies(s) PROVE Sets(s, Free)
BY EndsSets DEF Returns, RequestDies

LEMMA CommandIs ==
    ASSUME NEW p \in Command
    PROVE  /\ p = Put(p.key, p.item, p.to)
           /\ \/ p.key = "record" /\ p.item \in Items /\ p.to \in Record
              \/ p.key = "record" /\ p.item = None /\ p.to \in Rows
              \/ p.key = "answer" /\ p.item \in Items /\ p.to \in Texts \union {None}
              \/ p.key = "answer" /\ p.item = None /\ p.to \in Answers
              \/ p.key = "categories" /\ p.item = None /\ p.to \in GoodLists
              \/ p.key = "stories" /\ p.item = None /\ p.to \in GoodStories
BY DEF Command, Put

LEMMA PutsAre ==
    ASSUME NEW i, NEW to
    PROVE  /\ i \in Items /\ to \in Record => Put("record", i, to) \in Command
           /\ to \in Rows => Put("record", None, to) \in Command
           /\ i \in Items /\ to \in Texts \union {None} => Put("answer", i, to) \in Command
           /\ to \in Answers => Put("answer", None, to) \in Command
           /\ to \in GoodLists => Put("categories", None, to) \in Command
           /\ to \in GoodStories => Put("stories", None, to) \in Command
BY DEF Command, Put

\* A command leaves a board.
LEMMA Lands ==
    ASSUME BoardTyped, NEW p \in Command,
           record' = Over(p, "record", record), answer' = Over(p, "answer", answer),
           categories' = Over(p, "categories", categories), stories' = Over(p, "stories", stories)
    PROVE  BoardTyped'
<1>0. None \notin Items BY ContentAssumption
<1>1. CASE p.key = "record" /\ p.item \in Items /\ p.to \in Record
  <2>1. record' = [record EXCEPT ![p.item] = p.to] /\ UNCHANGED <<answer, categories, stories>> BY <1>0, <1>1 DEF Over
  <2>2. QED BY <1>1, <2>1 DEF BoardTyped, Rows
<1>2. CASE p.key = "record" /\ p.item = None /\ p.to \in Rows BY <1>2 DEF Over, BoardTyped
<1>3. CASE p.key = "answer" /\ p.item \in Items /\ p.to \in Texts \union {None}
  <2>1. answer' = [answer EXCEPT ![p.item] = p.to] /\ UNCHANGED <<record, categories, stories>> BY <1>0, <1>3 DEF Over
  <2>2. QED BY <1>3, <2>1 DEF BoardTyped, Answers
<1>4. CASE p.key = "answer" /\ p.item = None /\ p.to \in Answers BY <1>4 DEF Over, BoardTyped
<1>5. CASE p.key = "categories" /\ p.item = None /\ p.to \in GoodLists BY <1>5 DEF Over, BoardTyped
<1>6. CASE p.key = "stories" /\ p.item = None /\ p.to \in GoodStories BY <1>6 DEF Over, BoardTyped
<1>7. QED BY <1>1, <1>2, <1>3, <1>4, <1>5, <1>6, CommandIs

\* A challenge taken out of the stories leaves each other where it was told.
LEMMA ShrunkStories ==
    ASSUME NEW all \in GoodStories, NEW set
    PROVE  [id \in StoryIds |-> Without(all[id], set)] \in GoodStories
<1> DEFINE new == [id \in StoryIds |-> Without(all[id], set)]
<1>1. all \in [StoryIds -> Seq(Items)] /\ Canonical(all) BY DEF GoodStories
<1>2. \A id \in StoryIds : new[id] \in Seq(Items) BY <1>1, WithoutIs
<1>3. new \in [StoryIds -> Seq(Items)]
  <2>1. new = [id \in StoryIds |-> new[id]] OBVIOUS
  <2> HIDE DEF new
  <2>2. QED BY <1>2, <2>1
<1>4. ASSUME NEW id \in StoryIds
      PROVE \E at \in [DOMAIN new[id] -> DOMAIN all[id]] :
               /\ \A n \in DOMAIN new[id] : new[id][n] = all[id][at[n]]
               /\ \A m, n \in DOMAIN new[id] : m # n => at[m] # at[n]
  <2> DEFINE list == all[id]
             out == Without(list, set)
  <2>1. list \in Seq(Items) BY <1>1
  <2>2. new[id] = out OBVIOUS
  <2> HIDE DEF list, out
  <2>3. /\ out \in Seq(Items) /\ Len(out) \in Nat
        /\ \E at \in [1..Len(out) -> 1..Len(list)] :
             /\ \A n \in 1..Len(out) : out[n] = list[at[n]]
             /\ \A m, n \in 1..Len(out) : m # n => at[m] # at[n]
    BY <2>1, WithoutIs DEF out
  <2>4. DOMAIN out = 1..Len(out) /\ DOMAIN list = 1..Len(list) BY <2>1, <2>3
  <2> HIDE DEF new
  <2>5. QED BY <2>2, <2>3, <2>4, SMTT(30) DEF list
<1> HIDE DEF new
<1>5. Canonical(new)
  <2> SUFFICES ASSUME NEW a \in StoryIds, NEW b \in StoryIds, NEW j \in DOMAIN new[a], NEW k \in DOMAIN new[b],
                      new[a][j] = new[b][k]
               PROVE a = b /\ j = k
    BY DEF Canonical
  <2>1. PICK f \in [DOMAIN new[a] -> DOMAIN all[a]] :
               /\ \A n \in DOMAIN new[a] : new[a][n] = all[a][f[n]]
               /\ \A m, n \in DOMAIN new[a] : m # n => f[m] # f[n]
    BY <1>4
  <2>2. PICK g \in [DOMAIN new[b] -> DOMAIN all[b]] :
               /\ \A n \in DOMAIN new[b] : new[b][n] = all[b][g[n]]
    BY <1>4
  <2>3. all[a][f[j]] = all[b][g[k]] /\ f[j] \in DOMAIN all[a] /\ g[k] \in DOMAIN all[b] BY <2>1, <2>2
  <2>4. a = b /\ f[j] = g[k] BY <1>1, <2>3 DEF Canonical
  <2>5. new[a][j] = new[a][k] /\ k \in DOMAIN new[a] BY <2>4
  <2>6. all[a][f[j]] = all[a][f[k]] /\ f[k] \in DOMAIN all[a] BY <2>1, <2>5
  <2>7. f[j] = f[k] BY <1>1, <2>3, <2>6 DEF Canonical
  <2>8. QED BY <2>1, <2>4, <2>5, <2>7
<1>6. QED BY <1>3, <1>5 DEF GoodStories, new

\* What a bundle is read as.
Lines(b) == [item : Items, category : ToSet(b.categories), text : Texts, attach : Seq(Contents)]

LEMMA BundleIs ==
    ASSUME NEW b \in Bundles
    PROVE  /\ b.challenges \in Seq(Lines(b)) /\ \A k \in DOMAIN b.challenges : b.challenges[k] \in Lines(b)
           /\ b.categories \in Seq(Names) /\ NoTwins(b.categories)
           /\ b.stories \in [StoryIds -> Seq(Items)]
           /\ IsFiniteSet(b.carried) /\ b.carried \subseteq Items \X Digests
<1>1. Parsed(b) BY ContentAssumption
<1> DEFINE items == [k \in DOMAIN b.challenges |-> b.challenges[k].item]
<1>2. b.challenges \in Seq(Lines(b)) BY <1>1 DEF Parsed, Lines
<1>10. \A k \in DOMAIN b.challenges : b.challenges[k] \in Lines(b)
  <2> DEFINE cs == b.challenges
  <2>1. cs \in Seq(Lines(b)) BY <1>2
  <2> HIDE DEF cs
  <2>2. \A k \in DOMAIN cs : cs[k] \in Lines(b) BY <2>1
  <2>3. QED BY <2>2 DEF cs
<1>3. ToSet(items) \subseteq Items
  <2> SUFFICES ASSUME NEW k \in DOMAIN b.challenges PROVE b.challenges[k].item \in Items BY DEF ToSet
  <2>1. b.challenges[k] \in Lines(b) BY <1>10
  <2>2. QED BY <2>1 DEF Lines
<1>4. b.stories \in [StoryIds -> Seq(ToSet(items))] BY <1>1 DEF Parsed
<1> HIDE DEF items
<1>5. b.stories \in [StoryIds -> Seq(Items)]
  <2>1. \A id \in StoryIds : b.stories[id] \in Seq(Items) BY <1>3, <1>4, SeqMonotonic
  <2>2. QED BY <1>4, <2>1
<1>6. b.categories \in Seq(Names) /\ Distinct(b.categories) = b.categories BY <1>1 DEF Parsed
<1>7. NoTwins(b.categories) BY <1>6, DistinctSame
<1>8. IsFiniteSet(b.carried) /\ b.carried \subseteq Items \X Digests BY <1>1 DEF Parsed
<1>9. QED BY <1>2, <1>5, <1>6, <1>7, <1>8, <1>10

\* A list with one name respelled or renamed, to a name it does not hold.
LEMMA RenamedList ==
    ASSUME NEW list \in GoodLists, NEW from \in Names, NEW to \in Names, Named(list, from) # {},
           Named(list, to) \subseteq {Min(Named(list, from))}
    PROVE  LET at == Min(Named(list, from)) IN
           /\ at \in DOMAIN list /\ list[at] \in Names
           /\ [list EXCEPT ![at] = to] \in GoodLists
           /\ ToSet(list) \subseteq ToSet([list EXCEPT ![at] = to]) \union {list[at]}
           /\ to \in ToSet([list EXCEPT ![at] = to])
<1> DEFINE twins == Named(list, from)
           at == Min(twins)
           new == [list EXCEPT ![at] = to]
<1>1. list \in Seq(Names) /\ NoTwins(list) /\ Len(list) <= ListMax BY DEF GoodLists
<1>2. Len(list) \in Nat /\ DOMAIN list = 1..Len(list) BY <1>1
<1>3. twins \in SUBSET (1..Len(list)) /\ \A k \in twins : k \in DOMAIN list BY <1>2 DEF Named
<1> HIDE DEF twins
<1>4. at \in twins BY <1>2, <1>3, FirstPlace DEF twins
<1> HIDE DEF at
<1>5. at \in DOMAIN list /\ list[at] \in Names BY <1>1, <1>3, <1>4
<1>6. new \in Seq(Names) /\ DOMAIN new = DOMAIN list /\ Len(new) = Len(list)
      /\ new[at] = to /\ \A k \in DOMAIN list : k # at => new[k] = list[k]
  BY <1>1, <1>5
<1> HIDE DEF new
<1>7. \A k \in DOMAIN list : k # at => Fold[list[k]] # Fold[to] BY DEF Named, at, twins
<1>8. NoTwins(new)
  <2> SUFFICES ASSUME NEW j \in DOMAIN list, NEW k \in DOMAIN list, Fold[new[j]] = Fold[new[k]] PROVE j = k
    BY <1>6 DEF NoTwins
  <2>1. CASE j = at /\ k = at BY <2>1
  <2>2. CASE j = at /\ k # at BY <1>6, <1>7, <2>2
  <2>3. CASE j # at /\ k = at BY <1>6, <1>7, <2>3
  <2>4. CASE j # at /\ k # at BY <1>1, <1>6, <2>4 DEF NoTwins
  <2>5. QED BY <2>1, <2>2, <2>3, <2>4
<1>9. new \in GoodLists BY <1>1, <1>6, <1>8 DEF GoodLists
<1>10. ToSet(list) \subseteq ToSet(new) \union {list[at]} BY <1>6 DEF ToSet
<1>11. to \in ToSet(new) BY <1>5, <1>6 DEF ToSet
<1>12. QED BY <1>5, <1>9, <1>10, <1>11 DEF new, at, twins

\* The commands that move a name's challenges: one for each.
LEMMA MovesAre ==
    ASSUME BoardTyped, NEW ask \in [from : Names, to : Names]
    PROVE  /\ Moves(ask) \in Seq(Command)
           /\ \A k \in DOMAIN Moves(ask) : \E i \in Existing(record) :
                 Moves(ask)[k] = Put("record", i, [category |-> ask.to, text |-> record[i].text])
           /\ \A i \in Existing(record) : record[i].category = ask.from => \E k \in DOMAIN Moves(ask) : Moves(ask)[k].item = i
<1> DEFINE moving == {i \in Existing(record) : record[i].category = ask.from}
           ids == SetToSeq(moving)
           new(i) == [record[i] EXCEPT !.category = ask.to]
           out == [k \in DOMAIN ids |-> Put("record", ids[k], new(ids[k]))]
<1>1. IsFiniteSet(moving)
  <2>1. IsFiniteSet(Items) BY ContentAssumption
  <2>2. moving \in SUBSET Items BY DEF Existing
  <2> HIDE DEF moving
  <2>3. QED BY <2>1, <2>2, FS_Subset
<1>2. \A i : i \in moving <=> i \in Items /\ record[i] # None /\ record[i].category = ask.from BY DEF Existing
<1>3. Moves(ask) = out BY DEF Moves, Moving
<1> HIDE DEF moving
<1>4. ids \in Seq(moving) /\ ToSet(ids) = moving BY <1>1, LaidOut
<1> HIDE DEF ids
<1>5. ASSUME NEW i \in moving PROVE new(i) \in Record /\ new(i) = [category |-> ask.to, text |-> record[i].text]
  <2> DEFINE r == record[i]
  <2>1. r \in [category : Names, text : Texts] BY <1>2 DEF BoardTyped, Rows, Record
  <2> HIDE DEF r
  <2>2. [r EXCEPT !.category = ask.to] = [category |-> ask.to, text |-> r.text] BY <2>1
  <2>3. [category |-> ask.to, text |-> r.text] \in Record BY <2>1 DEF Record
  <2>4. QED BY <2>2, <2>3 DEF r
<1> HIDE DEF new
<1>6. \A k \in DOMAIN ids : ids[k] \in moving BY <1>4 DEF ToSet
<1>7. \A k \in DOMAIN ids : out[k] \in Command
  <2> SUFFICES ASSUME NEW k \in DOMAIN ids PROVE Put("record", ids[k], new(ids[k])) \in Command OBVIOUS
  <2>1. ids[k] \in Items /\ new(ids[k]) \in Record BY <1>2, <1>5, <1>6
  <2>2. QED BY <2>1, PutsAre
<1>8. out \in Seq(Command)
  <2>1. DOMAIN ids = 1..Len(ids) /\ Len(ids) \in Nat BY <1>4
  <2>2. out = [k \in 1..Len(ids) |-> out[k]] BY <2>1
  <2> HIDE DEF out
  <2>3. QED BY <1>7, <2>1, <2>2
<1>9. \A k \in DOMAIN ids : \E i \in Existing(record) : out[k] = Put("record", i, [category |-> ask.to, text |-> record[i].text])
  BY <1>2, <1>5, <1>6 DEF Existing
<1>10. \A i \in moving : \E k \in DOMAIN ids : out[k].item = i
  <2> SUFFICES ASSUME NEW i \in moving PROVE \E k \in DOMAIN ids : out[k].item = i OBVIOUS
  <2>1. PICK k \in DOMAIN ids : ids[k] = i BY <1>4 DEF ToSet
  <2>2. out[k].item = i BY <2>1 DEF Put
  <2>3. QED BY <2>2
<1>11. DOMAIN out = DOMAIN ids OBVIOUS
<1> HIDE DEF out
<1>12. QED BY <1>2, <1>3, <1>8, <1>9, <1>10, <1>11 DEF Existing

\* What an import writes: a row and its answer for each challenge, then the lists.
LEMMA WritesAre ==
    ASSUME BoardTyped, NEW b \in Bundles, Accepts(stories, b.stories), Len(Unioned(categories, b.categories)) <= ListMax
    PROVE  LET list == Unioned(categories, b.categories)
               n == Len(b.challenges)
               out == Writes(b)
           IN  /\ list \in GoodLists /\ Merged(stories, b.stories) \in GoodStories
               /\ n \in Nat /\ Len(out) = 2 * n + 2 /\ DOMAIN out = 1..(2 * n + 2)
               /\ \A k \in 1..n : LET c == b.challenges[k] IN
                     /\ c \in Lines(b) /\ Spelling(list, c.category) \in ToSet(list)
                     /\ out[2 * k - 1] = Put("record", c.item, [category |-> Spelling(list, c.category), text |-> c.text])
                     /\ out[2 * k] = Put("answer", c.item, c.text)
               /\ out[2 * n + 1] = Put("categories", None, list)
               /\ out[2 * n + 2] = Put("stories", None, Merged(stories, b.stories))
               /\ ToSet(categories) \subseteq ToSet(list)
               /\ ToSet(list) \subseteq ToSet(categories) \union ToSet(b.categories)
               /\ out \in Seq(Command)
<1> DEFINE old == categories
           extra == b.categories
           list == Unioned(old, extra)
           told == Merged(stories, b.stories)
           cs == b.challenges
           n == Len(cs)
           cell(m) == LET c == cs[(m + 1) \div 2]
                      IN  IF m % 2 = 1 THEN Put("record", c.item, [category |-> Spelling(list, c.category), text |-> c.text])
                          ELSE Put("answer", c.item, c.text)
           rows == [m \in 1..2 * n |-> cell(m)]
           out == Writes(b)
<1>1. cs \in Seq(Lines(b)) /\ (\A k \in DOMAIN cs : cs[k] \in Lines(b)) /\ extra \in Seq(Names) BY BundleIs
<1>2. old \in Seq(Names) /\ NoTwins(old) BY DEF BoardTyped, GoodLists
<1>3. n \in Nat /\ DOMAIN cs = 1..n
  <2> HIDE DEF cs
  <2>1. QED BY <1>1
<1>4. old \o extra \in Seq(Names) /\ \A k \in DOMAIN extra : \E j \in DOMAIN (old \o extra) : (old \o extra)[j] = extra[k]
  <2> HIDE DEF old, extra
  <2>1. old \o extra \in Seq(Names) BY <1>1, <1>2
  <2>2. ASSUME NEW k \in DOMAIN extra PROVE \E j \in DOMAIN (old \o extra) : (old \o extra)[j] = extra[k]
    <3>1. Len(old) + k \in DOMAIN (old \o extra) /\ (old \o extra)[Len(old) + k] = extra[k] BY <1>1, <1>2
    <3>2. QED BY <3>1
  <2>3. QED BY <2>1, <2>2
<1>5. list = Distinct(old \o extra) BY DEF Unioned
<1>6. list \in Seq(Names) /\ NoTwins(list) /\ ToSet(list) \subseteq ToSet(old \o extra)
      /\ \A k \in DOMAIN (old \o extra) : \E m \in DOMAIN list : Fold[list[m]] = Fold[(old \o extra)[k]]
  <2> DEFINE both == old \o extra
  <2>1. both \in Seq(Names) /\ list = Distinct(both) BY <1>4, <1>5
  <2> HIDE DEF both, list
  <2>2. /\ list \in Seq(Names) /\ NoTwins(list) /\ ToSet(list) \subseteq ToSet(both)
        /\ \A k \in DOMAIN both : \E m \in DOMAIN list : Fold[list[m]] = Fold[both[k]]
    BY <2>1, DistinctIs
  <2>3. QED BY <2>2 DEF both
<1>7. ToSet(old) \subseteq ToSet(list) BY <1>1, <1>2, <1>5, DistinctKeeps
<1>8. ToSet(old \o extra) \subseteq ToSet(old) \union ToSet(extra)
  <2> HIDE DEF old, extra
  <2>1. QED BY <1>1, <1>2 DEF ToSet
<1>9. list \in GoodLists BY <1>6 DEF GoodLists
<1> HIDE DEF list
<1>10. told \in GoodStories
  <2>1. stories \in [StoryIds -> Seq(Items)] BY DEF BoardTyped, GoodStories
  <2>2. b.stories \in [StoryIds -> Seq(Items)] BY BundleIs
  <2>3. told \in [StoryIds -> Seq(Items)] BY <2>1, <2>2 DEF Merged
  <2>4. Canonical(told) BY DEF Accepts
  <2> HIDE DEF told
  <2>5. QED BY <2>3, <2>4 DEF GoodStories
<1>11. ASSUME NEW k \in 1..n PROVE Spelling(list, cs[k].category) \in ToSet(list)
  <2>1. cs[k] \in Lines(b) BY <1>1, <1>3
  <2>2. cs[k].category \in ToSet(extra) BY <2>1 DEF Lines
  <2> HIDE DEF cs, extra, old
  <2>3. PICK j \in DOMAIN extra : cs[k].category = extra[j] BY <2>2 DEF ToSet
  <2>4. PICK l \in DOMAIN (old \o extra) : (old \o extra)[l] = extra[j] BY <1>4
  <2>5. \E m \in DOMAIN list : Fold[list[m]] = Fold[cs[k].category] BY <1>6, <2>3, <2>4
  <2>6. QED BY <1>6, <2>5, SpellingIs
<1>12. out = rows \o <<Put("categories", None, list), Put("stories", None, told)>> BY DEF Writes, list
<1>13. ASSUME NEW m \in 1..2 * n
       PROVE  /\ (m + 1) \div 2 \in 1..n /\ cell(m) \in Command
  <2>1. (m + 1) \div 2 \in 1..n BY <1>3
  <2> DEFINE c == cs[(m + 1) \div 2]
             r == [category |-> Spelling(list, c.category), text |-> c.text]
  <2>2. c \in Lines(b) /\ Spelling(list, c.category) \in ToSet(list) BY <1>1, <1>3, <1>11, <2>1
  <2>3. cell(m) = IF m % 2 = 1 THEN Put("record", c.item, r) ELSE Put("answer", c.item, c.text) OBVIOUS
  <2> HIDE DEF c, cell
  <2>4. ToSet(list) \subseteq Names BY <1>6 DEF ToSet
  <2>5. c.item \in Items /\ c.text \in Texts /\ r \in Record BY <2>2, <2>4 DEF Lines, Record
  <2> HIDE DEF r
  <2>6. Put("record", c.item, r) \in Command /\ Put("answer", c.item, c.text) \in Command BY <2>5, PutsAre
  <2>7. QED BY <2>1, <2>3, <2>6
<1>14. rows \in Seq(Command) /\ Len(rows) = 2 * n /\ \A m \in 1..2 * n : rows[m] = cell(m)
  <2>1. 2 * n \in Nat BY <1>3
  <2> DEFINE N == 2 * n
  <2>2. rows = [m \in 1..N |-> rows[m]] /\ \A m \in 1..N : rows[m] = cell(m) BY <1>13
  <2>3. \A m \in 1..N : cell(m) \in Command BY <1>13
  <2>4. N \in Nat BY <2>1
  <2> HIDE DEF rows, cell, N
  <2>5. \A m \in 1..N : rows[m] \in Command BY <2>2, <2>3
  <2>6. rows \in [1..N -> Command] BY <2>2, <2>5
  <2>7. rows \in Seq(Command) /\ Len(rows) = N
    <3>1. rows \in Seq(Command) BY <2>4, <2>6
    <3>2. DOMAIN rows = 1..N BY <2>6
    <3>3. QED BY <2>4, <3>1, <3>2
  <2>8. QED BY <2>2, <2>7 DEF N
<1>15. ASSUME NEW k \in 1..n
       PROVE  /\ 2 * k - 1 \in 1..2 * n /\ 2 * k \in 1..2 * n
              /\ cell(2 * k - 1) = Put("record", cs[k].item, [category |-> Spelling(list, cs[k].category), text |-> cs[k].text])
              /\ cell(2 * k) = Put("answer", cs[k].item, cs[k].text)
  <2>1. 2 * k - 1 \in 1..2 * n /\ 2 * k \in 1..2 * n BY <1>3
  <2>2. (2 * k - 1 + 1) \div 2 = k /\ (2 * k + 1) \div 2 = k /\ (2 * k - 1) % 2 = 1 /\ (2 * k) % 2 # 1 BY <1>3
  <2> HIDE DEF cs
  <2>3. QED BY <2>1, <2>2
<1> DEFINE tail == <<Put("categories", None, list), Put("stories", None, told)>>
<1>16. tail \in Seq(Command) /\ Len(tail) = 2 /\ tail[1] = Put("categories", None, list) /\ tail[2] = Put("stories", None, told)
  <2>1. Put("categories", None, list) \in Command /\ Put("stories", None, told) \in Command BY <1>9, <1>10, PutsAre
  <2>2. QED BY <2>1
<1> HIDE DEF rows, cell, tail
<1>17. /\ out \in Seq(Command) /\ Len(out) = 2 * n + 2 /\ DOMAIN out = 1..(2 * n + 2)
       /\ \A m \in 1..2 * n : out[m] = rows[m]
       /\ out[2 * n + 1] = tail[1] /\ out[2 * n + 2] = tail[2]
  <2> HIDE DEF out, cs
  <2>1. out = rows \o tail BY <1>12 DEF tail
  <2> DEFINE N == 2 * n
  <2>2. N \in Nat /\ Len(rows) = N /\ rows \in Seq(Command) BY <1>3, <1>14
  <2> HIDE DEF N, n
  <2>8. /\ out \in Seq(Command) /\ Len(out) = Len(rows) + Len(tail)
        /\ \A m \in 1..Len(rows) + Len(tail) : out[m] = IF m <= Len(rows) THEN rows[m] ELSE tail[m - Len(rows)]
    BY <1>16, <2>1, <2>2, ConcatProperties, ZenonT(40)
  <2>3. out \in Seq(Command) /\ Len(out) = N + 2 BY <1>16, <2>2, <2>8
  <2>4. \A m \in 1..N : out[m] = rows[m] BY <1>16, <2>1, <2>2
  <2>5. out[N + 1] = tail[1] /\ out[N + 2] = tail[2]
    <3>1. N + 1 \in 1..N + 2 /\ N + 2 \in 1..N + 2 /\ ~(N + 1 <= N) /\ ~(N + 2 <= N) /\ N + 1 - N = 1 /\ N + 2 - N = 2
      BY <2>2
    <3>2. QED BY <1>16, <2>2, <2>8, <3>1
  <2>6. DOMAIN out = 1..(N + 2) BY <2>2, <2>3
  <2>7. QED BY <2>3, <2>4, <2>5, <2>6 DEF N
<1>18. \A k \in 1..n : /\ cs[k] \in Lines(b) /\ Spelling(list, cs[k].category) \in ToSet(list)
          /\ out[2 * k - 1] = Put("record", cs[k].item, [category |-> Spelling(list, cs[k].category), text |-> cs[k].text])
          /\ out[2 * k] = Put("answer", cs[k].item, cs[k].text)
  BY <1>1, <1>3, <1>11, <1>14, <1>15, <1>17
<1>19. ToSet(list) \subseteq ToSet(old) \union ToSet(extra) BY <1>6, <1>8
<1> HIDE DEF out, cs, told
<1>20. QED BY <1>3, <1>7, <1>9, <1>10, <1>16, <1>17, <1>18, <1>19 DEF list, out, cs, told, tail

\* A request that begins, or goes on, is what its point asks for.
LEMMA NewOK ==
    ASSUME NEW kind, NEW pc, NEW ask, NEW todo, NEW plan,
           pc \notin {"free", "chunks", "drop"}, todo \in Seq(Command),
           JobFits(Job(kind, pc, ask, todo, plan, FALSE, None))
    PROVE  JobOK(Job(kind, pc, ask, todo, plan, FALSE, None))
<1> DEFINE f == FALSE
<1>1. f \in BOOLEAN /\ (pc # "free") /\ (pc \in {"chunks", "drop"} => IsPutting(None)) OBVIOUS
<1> HIDE DEF f
<1>2. JobFits(Job(kind, pc, ask, todo, plan, f, None)) BY Zenon DEF f
<1>3. JobOK(Job(kind, pc, ask, todo, plan, f, None)) BY <1>1, <1>2, WorkOK
<1>4. QED BY <1>3, Zenon DEF f

LEMMA EmptyIs == <<>> \in Seq(Command) /\ \A S : <<>> \in Seq(S)
OBVIOUS

LEMMA EmptyListIs == <<>> \in GoodLists
BY ContentAssumption DEF GoodLists, NoTwins

LEMMA EmptyBoardIs == Nothing \in Rows /\ Nothing \in Answers /\ NoSteps \in GoodStories
<1>1. Nothing \in Rows /\ Nothing \in Answers BY DEF Nothing, Rows, Answers, Record
<1>2. NoSteps \in [StoryIds -> Seq(Items)] BY EmptyIs DEF NoSteps
<1>3. Canonical(NoSteps) BY DEF Canonical, NoSteps
<1>4. QED BY <1>1, <1>2, <1>3 DEF GoodStories

LEMMA LoadPanelTyped == ASSUME Typed, NEW s \in Tasks, LoadPanel(s) PROVE JobsTyped'
<1> DEFINE ask == {record[i].category : i \in Existing(record)}
           todo == <<>>
           j == Job("list", "panel", ask, todo, categories, FALSE, None)
<1>1. JobsTyped /\ BoardTyped BY DEF Typed
<1>2. Sets(s, j) BY <1>1, LoadPanelIs
<1>3. ask \subseteq Names
  <2>1. \A i \in Existing(record) : record[i] \in [category : Names, text : Texts]
    BY <1>1 DEF BoardTyped, Rows, Record, Existing
  <2>2. QED BY <2>1
<1>4. todo \in Seq(Command) /\ todo = <<>> BY EmptyIs
<1> HIDE DEF ask
<1>5. j.kind = "list" /\ j.pc = "panel" /\ j.ask = ask /\ j.todo = todo /\ j.plan = categories BY DEF Job
<1> HIDE DEF j, todo
<1>6. JobFits(j) BY <1>1, <1>3, <1>4, <1>5 DEF JobFits, ListFits, BoardTyped
<1>7. JobOK(j) BY <1>4, <1>6, NewOK DEF j
<1>8. QED BY <1>1, <1>2, <1>7, SetsTyped

LEMMA RenameTyped == ASSUME Typed, NEW s \in Tasks, NEW from \in Names, NEW to \in Names, RenameCategory(s, from, to)
    PROVE JobsTyped'
<1> DEFINE at == Min(Named(categories, from))
           ask == [from |-> categories[at], to |-> to]
           todo == <<>>
           plan == [categories EXCEPT ![at] = to]
           j == Job("rename", "moving", ask, todo, plan, FALSE, None)
<1>1. JobsTyped /\ BoardTyped BY DEF Typed
<1>2. Sets(s, j) BY <1>1, RenameIs
<1>3. categories \in GoodLists /\ Named(categories, from) # {} /\ Named(categories, to) \subseteq {at}
  BY <1>1 DEF BoardTyped, RenameCategory
<1>4. categories[at] \in Names /\ plan \in GoodLists BY <1>3, RenamedList
<1>5. ask \in [from : Names, to : Names] BY <1>4
<1>6. todo \in Seq(Command) /\ todo = <<>> BY EmptyIs
<1> HIDE DEF ask, plan
<1>7. j.kind = "rename" /\ j.pc = "moving" /\ j.ask = ask /\ j.todo = todo /\ j.plan = plan BY DEF Job
<1> HIDE DEF j, todo
<1>8. JobFits(j) BY <1>4, <1>5, <1>7 DEF JobFits, RenameFits
<1>9. JobOK(j) BY <1>6, <1>8, NewOK DEF j
<1>10. QED BY <1>1, <1>2, <1>9, SetsTyped

LEMMA SaveTyped == ASSUME Typed, NEW s \in Tasks, NEW i \in Items, NEW name \in Names, NEW text \in Texts, Save(s, i, name, text)
    PROVE JobsTyped'
<1> DEFINE row == [category |-> name, text |-> text]
           todo == <<Put("record", i, row), Put("answer", i, text)>>
           plan == <<>>
           j == Job("save", "saved", i, todo, plan, FALSE, None)
<1>1. JobsTyped BY DEF Typed
<1>2. Sets(s, j) BY <1>1, SaveIs
<1>3. row \in Record BY DEF Record
<1>4. Put("record", i, row) \in Command /\ Put("answer", i, text) \in Command
  <2> HIDE DEF row
  <2>1. QED BY <1>3, PutsAre
<1>5. todo \in Seq(Command) BY <1>4
<1> HIDE DEF todo, plan
<1>6. j.kind = "save" /\ j.pc = "saved" BY DEF Job
<1> HIDE DEF j
<1>7. JobFits(j) BY <1>6 DEF JobFits, SaveFits
<1>8. JobOK(j) BY <1>5, <1>7, NewOK DEF j
<1>9. QED BY <1>1, <1>2, <1>8, SetsTyped

LEMMA DeleteTyped == ASSUME Typed, NEW s \in Tasks, NEW i \in Items, Delete(s, i) PROVE JobsTyped'
<1> DEFINE todo == <<Put("record", i, None), Put("answer", i, None)>>
           plan == <<>>
           j == Job("delete", "deleted", i, todo, plan, FALSE, None)
<1>1. JobsTyped BY DEF Typed
<1>2. Sets(s, j) BY <1>1, DeleteIs
<1>3. None \in Record /\ None \in Texts \union {None} BY DEF Record
<1>4. Put("record", i, None) \in Command /\ Put("answer", i, None) \in Command BY <1>3, PutsAre
<1>5. todo \in Seq(Command) BY <1>4
<1> HIDE DEF todo, plan
<1>6. j.kind = "delete" /\ j.pc = "deleted" /\ j.ask = i BY DEF Job
<1> HIDE DEF j
<1>7. JobFits(j) BY <1>6 DEF JobFits, DeleteFits
<1>8. JobOK(j) BY <1>5, <1>7, NewOK DEF j
<1>9. QED BY <1>1, <1>2, <1>8, SetsTyped

LEMMA CheckStepsTyped == ASSUME Typed, NEW s \in Tasks, NEW all \in Tellings, CheckSteps(s, all) PROVE JobsTyped'
<1> DEFINE todo == <<Put("stories", None, all)>>
           plan == <<>>
           j == Job("stories", "told", None, todo, plan, FALSE, None)
<1>1. JobsTyped BY DEF Typed
<1>2. Sets(s, j) BY <1>1, CheckStepsIs
<1>3. all \in GoodStories BY ContentAssumption DEF GoodStories, CheckSteps
<1>4. Put("stories", None, all) \in Command BY <1>3, PutsAre
<1>5. todo \in Seq(Command) BY <1>4
<1> HIDE DEF todo, plan
<1>6. j.kind = "stories" /\ j.pc = "told" BY DEF Job
<1> HIDE DEF j
<1>7. JobFits(j) BY <1>6 DEF JobFits, TellFits
<1>8. JobOK(j) BY <1>5, <1>7, NewOK DEF j
<1>9. QED BY <1>1, <1>2, <1>8, SetsTyped

LEMMA ImportTyped == ASSUME Typed, NEW s \in Tasks, NEW b \in Bundles, Import(s, b) PROVE JobsTyped'
<1> DEFINE todo == <<>>
           plan == <<>>
           j == Job("import", "read", b, todo, plan, FALSE, None)
<1>1. JobsTyped BY DEF Typed
<1>2. Sets(s, j) BY <1>1, ImportIs
<1>5. todo \in Seq(Command) /\ todo = <<>> BY EmptyIs
<1> HIDE DEF todo, plan
<1>6. j.kind = "import" /\ j.pc = "read" /\ j.ask = b /\ j.todo = todo BY DEF Job
<1> HIDE DEF j
<1>7. JobFits(j) BY <1>5, <1>6 DEF JobFits, ImportFits
<1>8. JobOK(j) BY <1>5, <1>7, NewOK DEF j
<1>9. QED BY <1>1, <1>2, <1>8, SetsTyped DEF todo, plan

LEMMA ClearedIs == Cleared \in Seq(Command)
<1>1. /\ Put("record", None, Nothing) \in Command /\ Put("answer", None, Nothing) \in Command
      /\ Put("categories", None, <<>>) \in Command /\ Put("stories", None, NoSteps) \in Command
  BY EmptyBoardIs, EmptyListIs, PutsAre
<1>2. QED BY <1>1 DEF Cleared

LEMMA ReplaceTyped == ASSUME Typed, NEW s \in Tasks, NEW b \in Bundles, Replace(s, b) PROVE JobsTyped'
<1> DEFINE plan == <<>>
           j == Job("replace", "clear", b, Cleared, plan, FALSE, None)
<1>1. JobsTyped BY DEF Typed
<1>2. Sets(s, j) BY <1>1, ReplaceIs
<1> HIDE DEF plan
<1>6. j.kind = "replace" /\ j.pc = "clear" /\ j.ask = b BY DEF Job
<1> HIDE DEF j
<1>7. JobFits(j) BY <1>6 DEF JobFits, ImportFits
<1>8. JobOK(j) BY <1>7, ClearedIs, NewOK DEF j
<1>9. QED BY <1>1, <1>2, <1>8, SetsTyped

LEMMA ExportTyped == ASSUME Typed, NEW s \in Tasks, Export(s) PROVE JobsTyped'
<1> DEFINE todo == <<>>
           plan == Unread
           j == Job("export", "reading", Parts, todo, plan, FALSE, None)
<1>1. JobsTyped BY DEF Typed
<1>2. Sets(s, j) BY <1>1, ExportIs
<1>5. todo \in Seq(Command) /\ todo = <<>> BY EmptyIs
<1>6. IsExport(plan)
  <2> DEFINE w == TRUE
             e == <<>>
             p == [rows |-> Nothing, answers |-> Nothing, categories |-> e, stories |-> NoSteps, whole |-> w]
  <2>1. w \in BOOLEAN /\ e \in GoodLists BY EmptyListIs
  <2>2. plan = p BY Zenon DEF Unread
  <2> HIDE DEF w, e, plan
  <2>3. /\ p = [rows |-> p.rows, answers |-> p.answers, categories |-> p.categories, stories |-> p.stories, whole |-> p.whole]
        /\ p.rows = Nothing /\ p.answers = Nothing /\ p.categories = e /\ p.stories = NoSteps /\ p.whole = w
    OBVIOUS
  <2> HIDE DEF p
  <2>4. IsExport(p) BY <2>1, <2>3, EmptyBoardIs DEF IsExport
  <2>5. QED BY <2>2, <2>4
<1> HIDE DEF todo, plan
<1>7. j.kind = "export" /\ j.pc = "reading" /\ j.ask = Parts /\ j.todo = todo /\ j.plan = plan BY DEF Job
<1> HIDE DEF j
<1>8. JobFits(j) BY <1>5, <1>6, <1>7 DEF JobFits, ExportFits
<1>9. JobOK(j) BY <1>5, <1>8, NewOK DEF j
<1>10. QED BY <1>1, <1>2, <1>9, SetsTyped DEF todo, plan

\* A request that goes on.
LEMMA MovesOnOK ==
    ASSUME JobsTyped, NEW s \in Tasks, job[s].pc # "free", NEW pc, NEW ask, NEW todo, NEW plan, NEW put,
           pc # "free", todo \in Seq(Command),
           JobFits(Job(job[s].kind, pc, ask, todo, plan, job[s].failed, put)),
           pc \in {"chunks", "drop"} => IsPutting(put)
    PROVE  JobOK(Job(job[s].kind, pc, ask, todo, plan, job[s].failed, put))
<1>1. job[s].failed \in BOOLEAN BY AtWork
<1>2. QED BY <1>1, WorkOK

LEMMA FreeOK == JobOK(Free)
BY DEF JobOK

LEMMA EndsTyped == ASSUME JobsTyped, NEW s \in Tasks, Sets(s, Free) PROVE JobsTyped'
BY FreeOK, SetsTyped

LEMMA MoveChallengesTyped == ASSUME Typed, NEW s \in Tasks, MoveChallenges(s) PROVE JobsTyped'
<1> DEFINE j == Job(job[s].kind, "moved", job[s].ask, Moves(job[s].ask), job[s].plan, job[s].failed, job[s].put)
<1>1. JobsTyped /\ BoardTyped BY DEF Typed
<1>2. Sets(s, j) BY <1>1, MoveChallengesIs
<1>3. job[s].pc = "moving" BY DEF MoveChallenges, Busy
<1>4. RenameFits(job[s]) BY <1>1, <1>3, AtPoint
<1>5. Moves(job[s].ask) \in Seq(Command) BY <1>1, <1>4, MovesAre DEF RenameFits
<1>6. j.kind = job[s].kind /\ j.pc = "moved" /\ j.ask = job[s].ask /\ j.plan = job[s].plan BY DEF Job
<1>7. JobFits(j)
  <2> HIDE DEF j
  <2>1. QED BY <1>4, <1>6 DEF JobFits, RenameFits
<1>8. JobOK(j) BY <1>1, <1>3, <1>5, <1>7, MovesOnOK
<1>9. QED BY <1>1, <1>2, <1>8, SetsTyped

LEMMA ReadStoriesTyped == ASSUME Typed, NEW s \in Tasks, ReadStories(s) PROVE JobsTyped'
<1>1. JobsTyped /\ BoardTyped BY DEF Typed
<1>2. PICK todo \in {<<>>, <<Put("stories", None, Shrunk(job[s].ask))>>} :
             Sets(s, Job(job[s].kind, "shrunk", job[s].ask, todo, job[s].plan, job[s].failed, job[s].put))
  BY <1>1, ReadStoriesIs
<1> DEFINE j == Job(job[s].kind, "shrunk", job[s].ask, todo, job[s].plan, job[s].failed, job[s].put)
<1>3. job[s].pc = "deleted" BY DEF ReadStories, Busy
<1>4. DeleteFits(job[s]) BY <1>1, <1>3, AtPoint
<1>5. Shrunk(job[s].ask) \in GoodStories BY <1>1, ShrunkStories DEF BoardTyped, Shrunk
<1>6. Put("stories", None, Shrunk(job[s].ask)) \in Command BY <1>5, PutsAre
<1>7. todo \in Seq(Command)
  <2> DEFINE p == Put("stories", None, Shrunk(job[s].ask))
  <2>1. p \in Command BY <1>6
  <2> HIDE DEF p
  <2>2. <<p>> \in Seq(Command) BY <2>1
  <2>3. todo = <<>> \/ todo = <<p>> BY <1>2 DEF p
  <2>4. QED BY <2>2, <2>3, EmptyIs
<1>8. j.kind = job[s].kind /\ j.pc = "shrunk" /\ j.ask = job[s].ask BY DEF Job
<1>9. JobFits(j)
  <2> HIDE DEF j
  <2>1. QED BY <1>4, <1>8 DEF JobFits, DeleteFits
<1>10. JobOK(j) BY <1>1, <1>3, <1>7, <1>9, MovesOnOK
<1>11. QED BY <1>1, <1>2, <1>10, SetsTyped

LEMMA ListFilesTyped == ASSUME Typed, NEW s \in Tasks, ListFiles(s) PROVE JobsTyped'
<1> DEFINE list == files[job[s].ask]
           plan == [k \in DOMAIN list |-> list[k].id]
           j == Job(job[s].kind, "remove", job[s].ask, job[s].todo, plan, job[s].failed, job[s].put)
<1>1. JobsTyped /\ StoreTyped BY DEF Typed
<1>2. Sets(s, j) BY <1>1, ListFilesIs
<1>3. job[s].pc = "shrunk" /\ job[s].todo = <<>> BY DEF ListFiles, Busy
<1>4. DeleteFits(job[s]) BY <1>1, <1>3, AtPoint
<1>5. plan \in Seq(Nat)
  <2>1. list \in Seq(Attachment) BY <1>1, <1>4 DEF StoreTyped, DeleteFits
  <2> HIDE DEF list
  <2>2. \A k \in DOMAIN list : list[k] \in Attachment BY <2>1
  <2>3. \A att \in Attachment : att.id \in Nat BY DEF Attachment
  <2>4. \A k \in DOMAIN list : list[k].id \in Nat BY <2>2, <2>3
  <2>5. QED BY <2>1, <2>4
<1> HIDE DEF plan
<1>6. j.kind = job[s].kind /\ j.pc = "remove" /\ j.ask = job[s].ask /\ j.plan = plan /\ j.todo = job[s].todo BY DEF Job
<1>7. JobFits(j)
  <2> HIDE DEF j
  <2>1. QED BY <1>3, <1>4, <1>5, <1>6 DEF JobFits, DeleteFits
<1>8. job[s].todo \in Seq(Command) BY <1>1, <1>3, AtWork
<1>9. JobOK(j) BY <1>1, <1>3, <1>7, <1>8, MovesOnOK
<1>10. QED BY <1>1, <1>2, <1>9, SetsTyped DEF plan

LEMMA TailIs == ASSUME NEW S, NEW list \in Seq(S), list # <<>> PROVE Head(list) \in S /\ Tail(list) \in Seq(S)
OBVIOUS

LEMMA RemoveNextTyped == ASSUME Typed, NEW s \in Tasks, RemoveNext(s) PROVE JobsTyped'
<1>1. JobsTyped /\ StoreTyped BY DEF Typed
<1>2. CASE Sets(s, Free) BY <1>1, <1>2, EndsTyped
<1>3. CASE job[s].plan # <<>> /\ Sets(s, Job(job[s].kind, job[s].pc, job[s].ask, job[s].todo, Tail(job[s].plan), job[s].failed, job[s].put))
  <2> DEFINE plan == Tail(job[s].plan)
             j == Job(job[s].kind, job[s].pc, job[s].ask, job[s].todo, plan, job[s].failed, job[s].put)
  <2>1. job[s].pc = "remove" /\ job[s].todo = <<>> BY DEF RemoveNext, Busy
  <2>2. DeleteFits(job[s]) BY <1>1, <2>1, AtPoint
  <2>3. plan \in Seq(Nat) BY <1>3, <2>1, <2>2, TailIs DEF DeleteFits
  <2> HIDE DEF plan
  <2>4. j.kind = job[s].kind /\ j.pc = "remove" /\ j.ask = job[s].ask /\ j.plan = plan /\ j.todo = job[s].todo BY <2>1 DEF Job
  <2>5. JobFits(j)
    <3> HIDE DEF j
    <3>1. QED BY <2>1, <2>2, <2>3, <2>4 DEF JobFits, DeleteFits
  <2>6. job[s].todo \in Seq(Command) BY <1>1, <2>1, AtWork
  <2>7. JobOK(j) BY <1>1, <2>1, <2>5, <2>6, MovesOnOK
  <2>8. QED BY <1>1, <1>3, <2>7, SetsTyped DEF plan
<1>4. QED BY <1>1, <1>2, <1>3, RemoveNextIs

\* An import goes on: its bundle stays, and what it needs at each point.
LEMMA ImportGoesOn ==
    ASSUME JobsTyped, NEW s \in Tasks, NEW pc, NEW todo, NEW plan, NEW put, ImportFits(job[s]), job[s].pc # "free",
           \/ pc = "read" /\ todo = <<>>
           \/ pc = "plan" /\ plan \in Seq(Command) /\ todo = <<>>
           \/ pc = "attach" /\ plan \in Seq(Items \X Contents) /\ todo \in Seq(Command)
           \/ pc = "find" /\ plan \in Seq(Items \X Digests) /\ todo = <<>>
           \/ pc \in {"chunks", "drop"} /\ plan \in Seq(Items \X Digests) /\ todo = <<>> /\ IsPutting(put),
           Sets(s, Job(job[s].kind, pc, job[s].ask, todo, plan, job[s].failed, put))
    PROVE  JobsTyped'
<1> DEFINE j == Job(job[s].kind, pc, job[s].ask, todo, plan, job[s].failed, put)
<1>1. j.kind = job[s].kind /\ j.pc = pc /\ j.ask = job[s].ask /\ j.todo = todo /\ j.plan = plan BY DEF Job
<1>2. JobFits(j)
  <2> HIDE DEF j
  <2>1. j.kind \in {"import", "replace"} /\ j.ask \in Bundles BY <1>1 DEF ImportFits
  <2>2. QED BY <1>1, <2>1 DEF JobFits, ImportFits
<1>3. todo \in Seq(Command) /\ pc # "free" BY EmptyIs
<1>4. JobOK(j) BY <1>2, <1>3, MovesOnOK
<1>5. QED BY <1>4, SetsTyped

LEMMA ClearFilesTyped == ASSUME Typed, NEW s \in Tasks, ClearFiles(s) PROVE JobsTyped'
<1>1. JobsTyped /\ job[s].pc = "clear" /\ job[s].todo = <<>> BY DEF Typed, ClearFiles, Busy
<1>2. ImportFits(job[s]) BY <1>1, AtPoint
<1>3. QED BY <1>1, <1>2, ClearFilesIs, ImportGoesOn

LEMMA ReadBoardTyped == ASSUME Typed, NEW s \in Tasks, ReadBoard(s) PROVE JobsTyped'
<1>1. JobsTyped /\ BoardTyped /\ job[s].pc = "read" /\ job[s].todo = <<>> BY DEF Typed, ReadBoard, Busy
<1>2. ImportFits(job[s]) BY <1>1, AtPoint
<1>3. CASE Sets(s, Free) BY <1>1, <1>3, EndsTyped
<1>4. CASE /\ Accepts(stories, job[s].ask.stories) /\ Len(Unioned(categories, job[s].ask.categories)) <= ListMax
           /\ Sets(s, Job(job[s].kind, "plan", job[s].ask, job[s].todo, Writes(job[s].ask), job[s].failed, job[s].put))
  <2>1. job[s].ask \in Bundles BY <1>2 DEF ImportFits
  <2>2. Writes(job[s].ask) \in Seq(Command) BY <1>1, <1>4, <2>1, WritesAre
  <2>3. QED BY <1>1, <1>2, <1>4, <2>2, ImportGoesOn
<1>5. QED BY <1>1, <1>3, <1>4, ReadBoardIs

LEMMA LacksIs == ASSUME StoreTyped, NEW b \in Bundles, NEW k \in DOMAIN b.challenges
    PROVE Lacks(b.challenges[k]) \in Seq(Contents) /\ b.challenges[k].item \in Items
<1> DEFINE c == b.challenges[k]
<1>1. c \in Lines(b) BY BundleIs
<1> HIDE DEF c
<1>2. c.attach \in Seq(Contents) /\ c.item \in Items BY <1>1 DEF Lines
<1>3. Lacks(c) \in Seq(Contents) BY <1>2, WithoutIs DEF Lacks
<1>4. QED BY <1>2, <1>3 DEF c

LEMMA AdditionsIs == ASSUME StoreTyped, NEW b \in Bundles PROVE Additions(b) \in Seq(Items \X Contents)
<1> DEFINE cs == b.challenges
           N == Len(cs)
           pairs(k) == LET c == b.challenges[k] IN [n \in DOMAIN Lacks(c) |-> <<c.item, Lacks(c)[n]>>]
           seqs == [k \in DOMAIN cs |-> pairs(k)]
<1>1. N \in Nat /\ DOMAIN cs = 1..N
  <2>1. cs \in Seq(Lines(b)) BY BundleIs
  <2> HIDE DEF cs
  <2>2. QED BY <2>1
<1>2. ASSUME NEW k \in DOMAIN cs PROVE pairs(k) \in Seq(Items \X Contents)
  <2> DEFINE lacks == Lacks(b.challenges[k])
             i == b.challenges[k].item
  <2>1. lacks \in Seq(Contents) /\ i \in Items BY LacksIs
  <2>2. pairs(k) = [n \in DOMAIN lacks |-> <<i, lacks[n]>>] OBVIOUS
  <2> HIDE DEF lacks, i, pairs
  <2>3. QED BY <2>1, <2>2
<1>3. Additions(b) = FlattenSeq(seqs) BY DEF Additions
<1> HIDE DEF pairs, N
<1>4. seqs \in [1..N -> Seq(Items \X Contents)] BY <1>1, <1>2
<1> HIDE DEF seqs
<1>5. QED BY <1>1, <1>3, <1>4, FlattenedIs

LEMMA PlanFilesTyped == ASSUME Typed, NEW s \in Tasks, PlanFiles(s) PROVE JobsTyped'
<1>1. JobsTyped /\ StoreTyped /\ job[s].pc = "plan" /\ job[s].todo = <<>> BY DEF Typed, PlanFiles, Busy
<1>2. ImportFits(job[s]) BY <1>1, AtPoint
<1>3. CASE Sets(s, Free) BY <1>1, <1>3, EndsTyped
<1>4. CASE Sets(s, Job(job[s].kind, "attach", job[s].ask, job[s].plan, Additions(job[s].ask), job[s].failed, job[s].put))
  <2>1. job[s].ask \in Bundles /\ job[s].plan \in Seq(Command) BY <1>1, <1>2 DEF ImportFits
  <2>2. Additions(job[s].ask) \in Seq(Items \X Contents) BY <1>1, <2>1, AdditionsIs
  <2>3. QED BY <1>1, <1>2, <1>4, <2>1, <2>2, ImportGoesOn
<1>5. QED BY <1>1, <1>3, <1>4, PlanFilesIs

LEMMA AttachNextTyped == ASSUME Typed, NEW s \in Tasks, AttachNext(s) PROVE JobsTyped'
<1>1. JobsTyped /\ StoreTyped /\ job[s].pc = "attach" /\ job[s].todo = <<>> BY DEF Typed, AttachNext, Busy
<1>2. ImportFits(job[s]) BY <1>1, AtPoint
<1>3. CASE Sets(s, Free) BY <1>1, <1>3, EndsTyped
<1>4. CASE Sets(s, Job(job[s].kind, "find", job[s].ask, job[s].todo, SetToSeq(job[s].ask.carried), job[s].failed, job[s].put))
  <2> DEFINE carried == job[s].ask.carried
  <2>1. job[s].ask \in Bundles BY <1>1, <1>2 DEF ImportFits
  <2>2. IsFiniteSet(carried) /\ carried \subseteq Items \X Digests BY <2>1, BundleIs
  <2>3. SetToSeq(carried) \in Seq(Items \X Digests)
    <3> HIDE DEF carried
    <3>1. SetToSeq(carried) \in Seq(carried) BY <2>2, LaidOut
    <3>2. QED BY <2>2, <3>1, SeqMonotonic
  <2>4. QED BY <1>1, <1>2, <1>4, <2>3, ImportGoesOn
<1>5. CASE /\ job[s].plan # <<>>
           /\ Sets(s, Job(job[s].kind, job[s].pc, job[s].ask, job[s].todo, Tail(job[s].plan), job[s].failed, job[s].put))
  <2>1. Tail(job[s].plan) \in Seq(Items \X Contents) BY <1>1, <1>2, <1>5, TailIs DEF ImportFits
  <2>2. job[s].todo \in Seq(Command) BY <1>1, AtWork
  <2>3. QED BY <1>1, <1>2, <1>5, <2>1, <2>2, ImportGoesOn
<1>6. QED BY <1>1, <1>3, <1>4, <1>5, AttachNextIs

LEMMA MissingIs == ASSUME StoreTyped, NEW i \in Items, NEW content, NEW att \in Missing(i, content)
    PROVE att \in Attachment /\ att \in Attached /\ att.missing /\ att.content = content /\ IsPutting(Writing(att))
<1> DEFINE list == files[i]
<1>1. list \in Seq(Attachment) BY DEF StoreTyped
<1>2. att \in ToSet(list) /\ att.missing /\ att.content = content BY DEF Missing
<1>3. att \in Attachment
  <2> HIDE DEF list
  <2>1. QED BY <1>1, <1>2 DEF ToSet
<1>4. att \in Attached BY <1>2 DEF Attached
<1>5. made + 1 \in Nat BY DEF StoreTyped
<1>6. Size[att.content] \in Nat BY <1>3, ContentAssumption DEF Attachment
<1>7. 0 \in 0..Size[att.content] BY <1>6
<1>8. IsPutting(Writing(att)) BY <1>3, <1>5, <1>7 DEF IsPutting, Writing, FreshPrefix
<1>9. QED BY <1>2, <1>3, <1>4, <1>8

LEMMA FindNextTyped == ASSUME Typed, NEW s \in Tasks, FindNext(s) PROVE JobsTyped'
<1>1. JobsTyped /\ StoreTyped /\ job[s].pc = "find" /\ job[s].todo = <<>> BY DEF Typed, FindNext, Busy
<1>2. ImportFits(job[s]) BY <1>1, AtPoint
<1>3. CASE Sets(s, Free) BY <1>1, <1>3, EndsTyped
<1>4. CASE /\ job[s].plan # <<>>
           /\ Sets(s, Job(job[s].kind, job[s].pc, job[s].ask, job[s].todo, Tail(job[s].plan), job[s].failed, job[s].put))
  <2>1. Tail(job[s].plan) \in Seq(Items \X Digests) BY <1>1, <1>2, <1>4, TailIs DEF ImportFits
  <2>2. QED BY <1>1, <1>2, <1>4, <2>1, ImportGoesOn
<1>5. CASE /\ job[s].plan # <<>>
           /\ \E att \in Missing(Head(job[s].plan)[1], Head(job[s].plan)[2]) :
                 Sets(s, Job(job[s].kind, "chunks", job[s].ask, job[s].todo, Tail(job[s].plan), job[s].failed, Writing(att)))
  <2>1. Tail(job[s].plan) \in Seq(Items \X Digests) /\ Head(job[s].plan) \in Items \X Digests
    BY <1>1, <1>2, <1>5, TailIs DEF ImportFits
  <2>2. PICK att \in Missing(Head(job[s].plan)[1], Head(job[s].plan)[2]) :
             Sets(s, Job(job[s].kind, "chunks", job[s].ask, job[s].todo, Tail(job[s].plan), job[s].failed, Writing(att)))
    BY <1>5
  <2>3. IsPutting(Writing(att)) BY <1>1, <2>1, MissingIs
  <2>4. QED BY <1>1, <1>2, <2>1, <2>2, <2>3, ImportGoesOn
<1>6. QED BY <1>1, <1>3, <1>4, <1>5, FindNextIs

\* A request that writes a file begins, writes, and gives up.
LEMMA WritesOK ==
    ASSUME NEW kind \in {"upload", "refill"}, NEW i \in Items, NEW put, IsPutting(put)
    PROVE  JobOK(Job(kind, "chunks", i, <<>>, <<>>, FALSE, put))
<1> DEFINE f == FALSE
           e == <<>>
           j == Job(kind, "chunks", i, e, e, f, put)
<1>1. f \in BOOLEAN /\ e \in Seq(Command) /\ e = <<>> OBVIOUS
<1>2. j = Job(kind, "chunks", i, <<>>, <<>>, FALSE, put) OBVIOUS
<1> HIDE DEF f, e
<1>3. j.kind = kind /\ j.pc = "chunks" /\ j.ask = i /\ j.todo = e BY DEF Job
<1>4. JobFits(j)
  <2> HIDE DEF j
  <2>1. QED BY <1>1, <1>3 DEF JobFits, FileFits
<1>5. JobOK(j) BY <1>1, <1>4, WorkOK
<1> HIDE DEF j
<1>6. QED BY <1>2, <1>5

LEMMA UploadTyped == ASSUME Typed, NEW s \in Tasks, NEW i \in Items, NEW content \in Contents, Upload(s, i, content) PROVE JobsTyped'
<1> DEFINE put == [att |-> Fresh(content), prefix |-> made + 1, n |-> 0]
<1>1. JobsTyped /\ StoreTyped BY DEF Typed
<1>2. IsPutting(put)
  <2>1. made + 1 \in Nat BY <1>1 DEF StoreTyped
  <2>2. Fresh(content) \in Attachment /\ Fresh(content).content = content BY <2>1 DEF Attachment, Fresh
  <2>3. 0 \in 0..Size[content] BY ContentAssumption
  <2>4. QED BY <2>1, <2>2, <2>3 DEF IsPutting
<1>3. Sets(s, Job("upload", "chunks", i, <<>>, <<>>, FALSE, put)) BY <1>1, UploadIs
<1> HIDE DEF put
<1>4. JobOK(Job("upload", "chunks", i, <<>>, <<>>, FALSE, put)) BY <1>2, WritesOK
<1>5. QED BY <1>1, <1>3, <1>4, SetsTyped

LEMMA RefillTyped == ASSUME Typed, NEW s \in Tasks, NEW i \in Items, NEW content, Refill(s, i, content) PROVE JobsTyped'
<1>1. JobsTyped /\ StoreTyped BY DEF Typed
<1>2. PICK att \in Missing(i, content) : Sets(s, Job("refill", "chunks", i, <<>>, <<>>, FALSE, Writing(att)))
  BY <1>1, RefillIs
<1>3. IsPutting(Writing(att)) BY <1>1, MissingIs
<1>4. JobOK(Job("refill", "chunks", i, <<>>, <<>>, FALSE, Writing(att))) BY <1>3, WritesOK
<1>5. QED BY <1>1, <1>2, <1>4, SetsTyped

LEMMA WriteGoesOn ==
    ASSUME JobsTyped, NEW s \in Tasks, NEW pc \in {"chunks", "drop"}, NEW put, job[s].pc = "chunks", IsPutting(put),
           Sets(s, Job(job[s].kind, pc, job[s].ask, job[s].todo, job[s].plan, job[s].failed, put))
    PROVE  JobsTyped'
<1> DEFINE j == Job(job[s].kind, pc, job[s].ask, job[s].todo, job[s].plan, job[s].failed, put)
<1>1. ImportFits(job[s]) \/ FileFits(job[s]) BY AtPoint
<1>2. j.kind = job[s].kind /\ j.pc = pc /\ j.ask = job[s].ask /\ j.todo = job[s].todo /\ j.plan = job[s].plan BY DEF Job
<1>3. JobFits(j)
  <2> HIDE DEF j
  <2>1. QED BY <1>1, <1>2 DEF JobFits, ImportFits, FileFits
<1>4. job[s].todo \in Seq(Command) BY AtWork
<1>5. JobOK(j) BY <1>3, <1>4, MovesOnOK
<1>6. QED BY <1>5, SetsTyped

LEMMA PutChunkTyped == ASSUME Typed, NEW s \in Tasks, PutChunk(s) PROVE JobsTyped'
<1> DEFINE p == job[s].put
           put == [att |-> p.att, prefix |-> p.prefix, n |-> p.n + 1]
<1>1. JobsTyped /\ job[s].pc = "chunks" /\ p.n < Size[p.att.content] BY DEF Typed, PutChunk, Busy
<1>2. IsPutting(p) BY <1>1, AtWork
<1>3. IsPutting(put)
  <2>1. Size[p.att.content] \in Nat BY <1>2, ContentAssumption DEF IsPutting, Attachment
  <2>2. p.att \in Attachment /\ p.prefix \in Nat /\ p.n \in Nat BY <1>2, <2>1 DEF IsPutting
  <2> HIDE DEF p
  <2>3. p.n + 1 \in 0..Size[p.att.content] BY <1>1, <2>1, <2>2
  <2>4. QED BY <2>2, <2>3 DEF IsPutting
<1>4. Sets(s, Job(job[s].kind, job[s].pc, job[s].ask, job[s].todo, job[s].plan, job[s].failed, put)) BY <1>1, PutChunkIs
<1> HIDE DEF put
<1>5. QED BY <1>1, <1>3, <1>4, WriteGoesOn

LEMMA DropsTyped == ASSUME Typed, NEW s \in Tasks, FinishUnheard(s) \/ ChunkFails(s) PROVE JobsTyped'
<1>1. JobsTyped /\ job[s].pc = "chunks" BY DEF Typed, FinishUnheard, ChunkFails, Written, Busy
<1>2. IsPutting(job[s].put) BY <1>1, AtWork
<1>3. Sets(s, Job(job[s].kind, "drop", job[s].ask, job[s].todo, job[s].plan, job[s].failed, job[s].put)) BY <1>1, DropsIs
<1>4. QED BY <1>1, <1>2, <1>3, WriteGoesOn

LEMMA FinishTyped == ASSUME Typed, NEW s \in Tasks, Finish(s) PROVE JobsTyped'
<1>1. JobsTyped /\ job[s].pc = "chunks" /\ job[s].todo = <<>> BY DEF Typed, Finish, Written, Busy
<1>2. CASE Sets(s, Free) BY <1>1, <1>2, EndsTyped
<1>3. CASE /\ job[s].kind \in {"import", "replace"}
           /\ Sets(s, Job(job[s].kind, "find", job[s].ask, job[s].todo, job[s].plan, job[s].failed, job[s].put))
  <2>1. ImportFits(job[s]) BY <1>1, <1>3, AtPoint
  <2>2. job[s].plan \in Seq(Items \X Digests) BY <1>1, <2>1 DEF ImportFits
  <2>3. QED BY <1>1, <1>3, <2>1, <2>2, ImportGoesOn
<1>4. QED BY <1>1, <1>2, <1>3, FinishIs

\* An export reads on.
LEMMA ExportGoesOn ==
    ASSUME JobsTyped, NEW s \in Tasks, NEW ask, NEW plan, job[s].pc = "reading", ask \subseteq Parts, IsExport(plan),
           Sets(s, Job(job[s].kind, job[s].pc, ask, job[s].todo, plan, job[s].failed, job[s].put))
    PROVE  JobsTyped'
<1> DEFINE j == Job(job[s].kind, job[s].pc, ask, job[s].todo, plan, job[s].failed, job[s].put)
<1>1. ExportFits(job[s]) /\ job[s].todo \in Seq(Command) BY AtPoint, AtWork
<1>2. j.kind = job[s].kind /\ j.pc = job[s].pc /\ j.ask = ask /\ j.todo = job[s].todo /\ j.plan = plan BY DEF Job
<1>3. JobFits(j)
  <2> HIDE DEF j
  <2>1. QED BY <1>1, <1>2 DEF JobFits, ExportFits
<1>4. JobOK(j) BY <1>1, <1>3, MovesOnOK
<1>5. QED BY <1>4, SetsTyped

LEMMA ExportReadTyped == ASSUME Typed, NEW s \in Tasks, NEW part, ExportRead(s, part) PROVE JobsTyped'
<1> DEFINE p == job[s].plan
           plan == Reads(p, part)
<1>1. JobsTyped /\ BoardTyped /\ job[s].pc = "reading" BY DEF Typed, ExportRead, Busy
<1>2. ExportFits(job[s]) BY <1>1, AtPoint
<1>3. IsExport(p) /\ job[s].ask \subseteq Parts BY <1>2 DEF ExportFits
<1>4. IsExport(plan)
  <2> HIDE DEF p
  <2>1. QED BY <1>1, <1>3 DEF IsExport, Reads, BoardTyped
<1> HIDE DEF plan
<1>5. job[s].ask \ {part} \subseteq Parts BY <1>3
<1>6. Sets(s, Job(job[s].kind, job[s].pc, job[s].ask \ {part}, job[s].todo, plan, job[s].failed, job[s].put))
  BY <1>1, ExportReadIs DEF plan
<1>7. QED BY <1>1, <1>4, <1>5, <1>6, ExportGoesOn

LEMMA ExportUnreadTyped == ASSUME Typed, NEW s \in Tasks, NEW part, ExportUnread(s, part) PROVE JobsTyped'
<1> DEFINE p == job[s].plan
           plan == Skips(p)
<1>1. JobsTyped /\ BoardTyped /\ job[s].pc = "reading" BY DEF Typed, ExportUnread, Busy
<1>2. ExportFits(job[s]) BY <1>1, AtPoint
<1>3. IsExport(p) /\ job[s].ask \subseteq Parts BY <1>2 DEF ExportFits
<1>4. IsExport(plan)
  <2> HIDE DEF p
  <2> DEFINE q(w) == [rows |-> p.rows, answers |-> p.answers, categories |-> p.categories, stories |-> p.stories, whole |-> w]
  <2>1. \A w \in BOOLEAN : IsExport(q(w)) BY <1>3 DEF IsExport
  <2>2. plan = q(FALSE) BY DEF Skips
  <2> HIDE DEF plan, q
  <2>3. QED BY <2>1, <2>2
<1> HIDE DEF plan
<1>5. job[s].ask \ {part} \subseteq Parts BY <1>3
<1>6. Sets(s, Job(job[s].kind, job[s].pc, job[s].ask \ {part}, job[s].todo, plan, job[s].failed, job[s].put))
  BY <1>1, ExportUnreadIs DEF plan
<1>7. QED BY <1>1, <1>4, <1>5, <1>6, ExportGoesOn

\* A pipeline goes on by a command, that runs or fails.
LEMMA PipelineGoesOn ==
    ASSUME JobsTyped, NEW s \in Tasks, job[s] # Free, job[s].todo # <<>>, NEW failed \in BOOLEAN,
           Sets(s, Job(job[s].kind, job[s].pc, job[s].ask, Tail(job[s].todo), job[s].plan, failed, job[s].put))
    PROVE  JobsTyped' /\ Head(job[s].todo) \in Command
<1> DEFINE todo == Tail(job[s].todo)
           j == Job(job[s].kind, job[s].pc, job[s].ask, todo, job[s].plan, failed, job[s].put)
<1>1. job[s].todo \in Seq(Command) /\ JobFits(job[s]) /\ job[s].pc # "free"
      /\ (job[s].pc \in {"chunks", "drop"} => IsPutting(job[s].put))
  BY AtWork
<1>2. todo \in Seq(Command) /\ Head(job[s].todo) \in Command BY <1>1, TailIs
<1> HIDE DEF todo
<1>3. j.kind = job[s].kind /\ j.pc = job[s].pc /\ j.ask = job[s].ask /\ j.plan = job[s].plan BY DEF Job
<1>4. JobFits(j)
  <2> HIDE DEF j
  <2>1. QED BY <1>1, <1>3 DEF JobFits, ListFits, RenameFits, SaveFits, DeleteFits, TellFits, ImportFits, FileFits, ExportFits
<1>5. JobOK(j) BY <1>1, <1>2, <1>4, WorkOK
<1>6. QED BY <1>2, <1>5, SetsTyped DEF todo

LEMMA RunCommandTyped == ASSUME Typed, NEW s \in Tasks, RunCommand(s) PROVE JobsTyped' /\ BoardTyped'
<1>1. JobsTyped /\ BoardTyped /\ job[s] # Free /\ job[s].todo # <<>> BY DEF Typed, RunCommand
<1>2. job[s].failed \in BOOLEAN BY <1>1, AtWork
<1>3. JobsTyped' /\ Head(job[s].todo) \in Command BY <1>1, <1>2, RunCommandIs, PipelineGoesOn
<1>4. BoardTyped' BY <1>1, <1>3, Lands DEF RunCommand
<1>5. QED BY <1>3, <1>4

LEMMA CommandFailsTyped == ASSUME Typed, NEW s \in Tasks, CommandFails(s) PROVE JobsTyped'
<1> DEFINE f == TRUE
<1>1. JobsTyped /\ job[s] # Free /\ job[s].todo # <<>> BY DEF Typed, CommandFails
<1>2. Sets(s, Job(job[s].kind, job[s].pc, job[s].ask, Tail(job[s].todo), job[s].plan, f, job[s].put)) BY <1>1, CommandFailsIs
<1>3. f \in BOOLEAN OBVIOUS
<1> HIDE DEF f
<1>4. QED BY <1>1, <1>2, <1>3, PipelineGoesOn

-----------------------------------------------------------------------------
\* What a function takes a finite set to is finite.
LEMMA FiniteImage == ASSUME NEW f, IsFiniteSet(DOMAIN f) PROVE IsFiniteSet({f[x] : x \in DOMAIN f})
<1> DEFINE T == {f[x] : x \in DOMAIN f}
           g == [x \in DOMAIN f |-> f[x]]
<1>1. g \in [DOMAIN f -> T] /\ \A y \in T : \E x \in DOMAIN f : g[x] = y OBVIOUS
<1>2. g \in Surjection(DOMAIN f, T) BY <1>1 DEF Surjection
<1> HIDE DEF g, T
<1>3. IsFiniteSet(T) BY <1>2, FS_Surjection
<1>4. QED BY <1>3 DEF T

\* What is attached is a finite set of attachments, each of some weight.
LEMMA WeightIs == ASSUME NEW att \in Attachment PROVE Weight(att) \in Nat /\ Size[att.content] \in Nat
BY ContentAssumption DEF Weight, Attachment

LEMMA AtIs == ASSUME StoreTyped, NEW i \in Items
    PROVE /\ files[i] \in Seq(Attachment) /\ ToSet(files[i]) \subseteq Attachment /\ ToSet(files[i]) \subseteq Attached
          /\ IsFiniteSet(ToSet(files[i])) /\ Len(files[i]) \in Nat /\ DOMAIN files[i] = 1..Len(files[i])
<1> DEFINE list == files[i]
<1>1. list \in Seq(Attachment) BY DEF StoreTyped
<1>2. ToSet(list) \subseteq Attached BY DEF Attached
<1> HIDE DEF list
<1>3. Len(list) \in Nat /\ DOMAIN list = 1..Len(list) /\ ToSet(list) \subseteq Attachment BY <1>1 DEF ToSet
<1>4. IsFiniteSet(ToSet(list))
  <2>1. IsFiniteSet(DOMAIN list) BY <1>3, FS_Interval
  <2>2. ToSet(list) = {list[k] : k \in DOMAIN list} BY DEF ToSet
  <2>3. QED BY <2>1, <2>2, FiniteImage
<1>5. QED BY <1>1, <1>2, <1>3, <1>4 DEF list

LEMMA AttachedIs == ASSUME StoreTyped
    PROVE /\ Attached \subseteq Attachment /\ IsFiniteSet(Attached)
          /\ \A att : att \in Attached <=> \E i \in Items : \E k \in DOMAIN files[i] : files[i][k] = att
<1>1. IsFiniteSet({ToSet(files[i]) : i \in Items})
  <2>1. IsFiniteSet(Items) BY ContentAssumption
  <2> DEFINE f == [i \in Items |-> ToSet(files[i])]
  <2>2. DOMAIN f = Items /\ {f[i] : i \in DOMAIN f} = {ToSet(files[i]) : i \in Items} OBVIOUS
  <2> HIDE DEF f
  <2>3. QED BY <2>1, <2>2, FiniteImage
<1>2. \A S \in {ToSet(files[i]) : i \in Items} : IsFiniteSet(S) BY AtIs
<1>3. IsFiniteSet(Attached) BY <1>1, <1>2, FS_UNION DEF Attached
<1>4. Attached \subseteq Attachment BY AtIs DEF Attached
<1>5. \A att : att \in Attached <=> \E i \in Items : \E k \in DOMAIN files[i] : files[i][k] = att BY DEF Attached, ToSet
<1>6. QED BY <1>3, <1>4, <1>5

LEMMA WeightsNat == ASSUME NEW S, S \subseteq Attachment, IsFiniteSet(S) PROVE Weights(S) \in Nat
<1> DEFINE f == [att \in S |-> Weight(att)]
<1>1. f \in [S -> Nat] BY WeightIs
<1>2. Weights(S) = SumFunction(f) BY DEF Weights
<1> HIDE DEF f
<1>3. QED BY <1>1, <1>2, SumNat

LEMMA DroppedIs == ASSUME StoreTyped, NEW id PROVE Dropped(id) \subseteq Attachment /\ Dropped(id) \subseteq Attached /\ IsFiniteSet(Dropped(id))
BY AttachedIs, FS_Subset DEF Dropped

\* What the operations on files leave.
FilesTyped == files \in [Items -> Seq(Attachment)] /\ blob \subseteq Nat \X Nat /\ bytes \in Int

LEMMA CommitTyped == ASSUME StoreTyped, NEW i \in Items, NEW att \in Attachment, Commit(i, att) PROVE FilesTyped'
<1>1. files \in [Items -> Seq(Attachment)] /\ blob \subseteq Nat \X Nat /\ bytes \in Int /\ Weight(att) \in Nat
  BY WeightIs DEF StoreTyped
<1>2. CASE CommitVerdict(i, att) = "ok"
  <2>1. files' = [files EXCEPT ![i] = Append(files[i], att)] /\ bytes' = bytes + Weight(att) /\ blob' = blob
    BY <1>2 DEF Commit
  <2>2. Append(files[i], att) \in Seq(Attachment) BY <1>1
  <2>3. files' \in [Items -> Seq(Attachment)] BY <1>1, <2>1, <2>2
  <2>4. QED BY <1>1, <2>1, <2>3 DEF FilesTyped
<1>3. CASE CommitVerdict(i, att) # "ok"
  <2>1. files' = files /\ bytes' = bytes /\ blob' \subseteq blob BY <1>3 DEF Commit
  <2>2. QED BY <1>1, <2>1 DEF FilesTyped
<1>4. QED BY <1>2, <1>3

LEMMA FilledIs == ASSUME NEW att \in Attachment, NEW prefix \in Nat
    PROVE LET new == [att EXCEPT !.missing = FALSE, !.prefix = prefix]
          IN  /\ new \in Attachment /\ new.id = att.id /\ new.content = att.content /\ new.missing = FALSE /\ new.prefix = prefix
<1> DEFINE one == [id |-> att.id, content |-> att.content, missing |-> FALSE, prefix |-> att.prefix]
           two == [id |-> att.id, content |-> att.content, missing |-> FALSE, prefix |-> prefix]
<1>1. att = [id |-> att.id, content |-> att.content, missing |-> att.missing, prefix |-> att.prefix]
      /\ att.id \in Nat /\ att.content \in Contents
  BY DEF Attachment
<1>2. [att EXCEPT !.missing = FALSE] = one
  <2>1. \A f : [att EXCEPT !.missing = f] = [id |-> att.id, content |-> att.content, missing |-> f, prefix |-> att.prefix]
    BY <1>1
  <2>2. QED BY <2>1, Zenon
<1>3. [one EXCEPT !.prefix = prefix] = two
  <2>1. \A f, p : [[id |-> att.id, content |-> att.content, missing |-> f, prefix |-> p] EXCEPT !.prefix = prefix]
                   = [id |-> att.id, content |-> att.content, missing |-> f, prefix |-> prefix]
    OBVIOUS
  <2>2. QED BY <2>1, Zenon
<1>4. [att EXCEPT !.missing = FALSE, !.prefix = prefix] = [[att EXCEPT !.missing = FALSE] EXCEPT !.prefix = prefix] OBVIOUS
<1>5. two \in Attachment /\ two.id = att.id /\ two.content = att.content /\ two.missing = FALSE /\ two.prefix = prefix
  BY <1>1 DEF Attachment
<1> HIDE DEF one, two
<1>6. QED BY <1>2, <1>3, <1>4, <1>5

\* An accepted fill, a file at a time.
Filled(att, prefix) == [att EXCEPT !.missing = FALSE, !.prefix = prefix]
LEMMA FillIs ==
    ASSUME StoreTyped, NEW att \in Attachment, NEW prefix \in Nat, Fill(att, prefix), FillVerdict(att) = "ok"
    PROVE  /\ files' \in [Items -> Seq(Attachment)]
           /\ \A i \in Items : /\ DOMAIN files'[i] = DOMAIN files[i] /\ Len(files'[i]) = Len(files[i])
                               /\ \A k \in DOMAIN files[i] :
                                     files'[i][k] = IF files[i][k] = att THEN Filled(att, prefix) ELSE files[i][k]
           /\ bytes' = bytes + Size[att.content] /\ blob' = blob
<1> DEFINE new == Filled(att, prefix)
           cell(i, k) == IF files[i][k] = att THEN new ELSE files[i][k]
<1>1. files' = [i \in Items |-> [k \in DOMAIN files[i] |-> cell(i, k)]] /\ bytes' = bytes + Size[att.content] /\ blob' = blob
  BY DEF Fill, Filled
<1>2. new \in Attachment BY FilledIs DEF Filled
<1> HIDE DEF new
<1>3. ASSUME NEW i \in Items PROVE files'[i] = [k \in DOMAIN files[i] |-> cell(i, k)] BY <1>1
<1>4. ASSUME NEW i \in Items
      PROVE /\ files'[i] \in Seq(Attachment) /\ DOMAIN files'[i] = DOMAIN files[i] /\ Len(files'[i]) = Len(files[i])
            /\ \A k \in DOMAIN files[i] : files'[i][k] = cell(i, k)
  <2> DEFINE list == files[i]
             out == files'[i]
  <2>1. list \in Seq(Attachment) BY AtIs
  <2>2. out = [k \in DOMAIN list |-> IF list[k] = att THEN new ELSE list[k]] BY <1>3
  <2> HIDE DEF list, out
  <2>3. DOMAIN list = 1..Len(list) /\ Len(list) \in Nat BY <2>1
  <2>4. \A k \in DOMAIN list : out[k] \in Attachment BY <1>2, <2>1, <2>2
  <2>5. out \in Seq(Attachment) BY <2>2, <2>3, <2>4
  <2>6. DOMAIN out = DOMAIN list /\ Len(out) = Len(list) BY <2>2, <2>3, <2>5
  <2>7. QED BY <2>2, <2>5, <2>6 DEF list, out
<1>5. files' \in [Items -> Seq(Attachment)] BY <1>1, <1>4
<1> HIDE DEF cell
<1>6. QED BY <1>1, <1>4, <1>5 DEF new, cell

LEMMA FillTyped == ASSUME StoreTyped, NEW att \in Attachment, NEW prefix \in Nat, Fill(att, prefix) PROVE FilesTyped'
<1>1. files \in [Items -> Seq(Attachment)] /\ blob \subseteq Nat \X Nat /\ bytes \in Int /\ Size[att.content] \in Nat
  BY WeightIs DEF StoreTyped
<1>2. CASE FillVerdict(att) = "ok" BY <1>1, <1>2, FillIs DEF FilesTyped
<1>3. CASE FillVerdict(att) # "ok"
  <2>1. files' = files /\ bytes' = bytes /\ blob' \subseteq blob BY <1>3 DEF Fill
  <2>2. QED BY <1>1, <2>1 DEF FilesTyped
<1>4. QED BY <1>2, <1>3

LEMMA RemoveTyped == ASSUME StoreTyped, NEW id, RemoveFile(id) PROVE FilesTyped'
<1>1. files \in [Items -> Seq(Attachment)] /\ blob \subseteq Nat \X Nat /\ bytes \in Int
  BY DEF StoreTyped
<1>2. \A i \in Items : Without(files[i], Dropped(id)) \in Seq(Attachment) BY AtIs, WithoutIs
<1>3. files' = [i \in Items |-> Without(files[i], Dropped(id))] BY DEF RemoveFile
<1>4. files' \in [Items -> Seq(Attachment)] BY <1>2, <1>3
<1>5. blob' \subseteq blob BY DEF RemoveFile
<1>6. bytes' \in Int BY <1>1, DroppedIs, WeightsNat DEF RemoveFile
<1>7. QED BY <1>1, <1>4, <1>5, <1>6 DEF FilesTyped

LEMMA ScriptTyped == ASSUME Typed, NEW s \in Tasks, Written(s), Script(s) PROVE FilesTyped'
<1>1. JobsTyped /\ StoreTyped /\ job[s].pc = "chunks" BY DEF Typed, Written, Busy
<1>2. IsPutting(job[s].put) BY <1>1, AtWork
<1>3. job[s].put.att \in Attachment /\ job[s].put.prefix \in Nat BY <1>2 DEF IsPutting
<1>4. CASE job[s].kind = "upload"
  <2>1. FileFits(job[s]) BY <1>1, <1>4, AtPoint
  <2>2. job[s].ask \in Items /\ Commit(job[s].ask, job[s].put.att) BY <1>4, <2>1 DEF FileFits, Script
  <2>3. QED BY <1>1, <1>3, <2>2, CommitTyped
<1>5. CASE job[s].kind # "upload"
  <2>1. Fill(job[s].put.att, job[s].put.prefix) BY <1>5 DEF Script
  <2>2. QED BY <1>1, <1>3, <2>1, FillTyped
<1>6. QED BY <1>4, <1>5

-----------------------------------------------------------------------------
\* The steps, one action each.
LEMMA Steps ==
    ASSUME NEW P, Next,
           \A s \in Tasks : (ListStep(s) \/ ChallengeStep(s) \/ ImportStep(s) \/ FileStep(s)
                             \/ ExportStep(s) \/ FaultStep(s) \/ RunCommand(s) \/ Returns(s)) => P,
           \A id : RemoveAttachment(id) => P
    PROVE  P
BY DEF Next

LEMMA BeginsTyped == ASSUME Typed, NEW s \in Tasks, NEW kind, Begins(s, kind)
    PROVE BoardTyped' /\ StoreTyped' /\ HistoryTyped'
<1>1. UNCHANGED board /\ UNCHANGED store /\ UNCHANGED <<made, broken, half, swept, doubt>> BY DEF Begins, BoardOnly
<1>2. crossed' \in BOOLEAN BY DEF Begins, Crosses, Typed, HistoryTyped
<1>3. BoardTyped' BY <1>1 DEF Typed, BoardTyped, board
<1>4. StoreTyped' BY <1>1 DEF Typed, StoreTyped, store
<1>5. HistoryTyped' BY <1>1, <1>2 DEF Typed, HistoryTyped
<1>6. QED BY <1>3, <1>4, <1>5

LEMMA SameHistory == ASSUME Typed, UNCHANGED <<crossed, broken, half, swept, doubt>> PROVE HistoryTyped'
BY DEF Typed, HistoryTyped

LEMMA SameBoard == ASSUME Typed, UNCHANGED board PROVE BoardTyped'
BY DEF Typed, BoardTyped, board

LEMMA SameStore == ASSUME Typed, UNCHANGED store, UNCHANGED made PROVE StoreTyped'
BY DEF Typed, StoreTyped, store

LEMMA NewStore == ASSUME Typed, FilesTyped', made' \in {made, made + 1} PROVE StoreTyped'
BY DEF Typed, StoreTyped, FilesTyped

LEMMA StaysTyped == ASSUME Typed, UNCHANGED <<board, left, crossed>>, BoardOnly
    PROVE BoardTyped' /\ StoreTyped' /\ HistoryTyped'
BY SameBoard, SameStore, SameHistory DEF BoardOnly

LEMMA ListKept == ASSUME Typed, NEW s \in Tasks, ListStep(s) PROVE Typed'
<1>1. CASE LoadPanel(s)
  <2>1. Begins(s, "list") BY <1>1 DEF LoadPanel
  <2>2. QED BY <1>1, <2>1, LoadPanelTyped, BeginsTyped DEF Typed
<1>2. ASSUME NEW added \in {<<>>} \union {<<n>> : n \in Names}, NEW removed, SetCategories(s, added, removed) PROVE Typed'
  <2> DEFINE plan == job[s].plan
             both == Without(plan, removed) \o added
  <2>1. Typed /\ JobsTyped /\ BoardTyped /\ Sets(s, Free) BY <1>2, SetCategoriesIs DEF Typed
  <2>2. job[s].pc = "panel" /\ categories' = Distinct(both) /\ Len(Distinct(both)) <= ListMax
        /\ UNCHANGED <<record, answer, stories, crossed>> /\ BoardOnly
    BY <1>2 DEF SetCategories, Busy
  <2>3. plan \in Seq(Names) BY <2>1, <2>2, AtPoint DEF ListFits, GoodLists
  <2>4. Without(plan, removed) \in Seq(Names) BY <2>3, WithoutIs
  <2>5. added \in Seq(Names)
    <3>1. \A n \in Names : <<n>> \in Seq(Names) OBVIOUS
    <3>2. added = <<>> \/ \E n \in Names : added = <<n>> BY <1>2
    <3>3. QED BY <3>1, <3>2, EmptyIs
  <2>6. both \in Seq(Names)
    <3> DEFINE one == Without(plan, removed)
    <3>1. one \in Seq(Names) BY <2>4
    <3> HIDE DEF one
    <3>2. one \o added \in Seq(Names) BY <2>5, <3>1
    <3>3. QED BY <3>2 DEF one
  <2> HIDE DEF both
  <2>7. Distinct(both) \in Seq(Names) /\ NoTwins(Distinct(both)) BY <2>6, DistinctIs
  <2>8. categories' \in GoodLists BY <2>2, <2>7 DEF GoodLists
  <2>9. BoardTyped' BY <2>1, <2>2, <2>8 DEF BoardTyped
  <2>10. StoreTyped' /\ HistoryTyped' BY <2>2, SameStore, SameHistory DEF BoardOnly
  <2>11. JobsTyped' BY <2>1, EndsTyped
  <2>12. QED BY <2>9, <2>10, <2>11 DEF Typed
<1>3. ASSUME NEW from \in Names, NEW to \in Names, RenameCategory(s, from, to) PROVE Typed'
  <2>1. Begins(s, "rename") BY <1>3 DEF RenameCategory
  <2>2. QED BY <1>3, <2>1, RenameTyped, BeginsTyped DEF Typed
<1>4. CASE MoveChallenges(s)
  <2>1. UNCHANGED <<board, left, crossed>> /\ BoardOnly BY <1>4 DEF MoveChallenges
  <2>2. QED BY <1>4, <2>1, MoveChallengesTyped, StaysTyped DEF Typed
<1>5. CASE WriteList(s)
  <2>1. JobsTyped /\ BoardTyped /\ Sets(s, Free) BY <1>5, WriteListIs DEF Typed
  <2>2. job[s].pc = "moved" /\ categories' = job[s].plan /\ UNCHANGED <<record, answer, stories, crossed>> /\ BoardOnly
    BY <1>5 DEF WriteList, Busy
  <2>3. job[s].plan \in GoodLists BY <2>1, <2>2, AtPoint DEF RenameFits
  <2>4. BoardTyped' BY <2>1, <2>2, <2>3 DEF BoardTyped
  <2>5. StoreTyped' /\ HistoryTyped' BY <2>2, SameStore, SameHistory DEF BoardOnly
  <2>6. JobsTyped' BY <2>1, EndsTyped
  <2>7. QED BY <2>4, <2>5, <2>6 DEF Typed
<1>6. QED BY <1>1, <1>2, <1>3, <1>4, <1>5 DEF ListStep

LEMMA ChallengeKept == ASSUME Typed, NEW s \in Tasks, ChallengeStep(s) PROVE Typed'
<1>1. ASSUME NEW i \in Items, NEW n \in Names, NEW t \in Texts, Save(s, i, n, t) PROVE Typed'
  <2>1. Begins(s, "save") BY <1>1 DEF Save
  <2>2. QED BY <1>1, <2>1, SaveTyped, BeginsTyped DEF Typed
<1>2. ASSUME NEW i \in Items, Delete(s, i) PROVE Typed'
  <2>1. Begins(s, "delete") BY <1>2 DEF Delete
  <2>2. QED BY <1>2, <2>1, DeleteTyped, BeginsTyped DEF Typed
<1>3. CASE ReadStories(s)
  <2>1. UNCHANGED <<board, left, crossed>> /\ BoardOnly BY <1>3 DEF ReadStories
  <2>2. QED BY <1>3, <2>1, ReadStoriesTyped, StaysTyped DEF Typed
<1>4. CASE ListFiles(s)
  <2>1. UNCHANGED <<board, left, crossed>> /\ BoardOnly BY <1>4 DEF ListFiles
  <2>2. QED BY <1>4, <2>1, ListFilesTyped, StaysTyped DEF Typed
<1>5. CASE RemoveNext(s)
  <2>1. UNCHANGED made /\ UNCHANGED swept /\ FilesOnly BY <1>5 DEF RemoveNext
  <2>2. BoardTyped' /\ HistoryTyped' BY <2>1, SameBoard, SameHistory DEF FilesOnly
  <2>3. StoreTyped'
    <3>1. UNCHANGED store \/ RemoveFile(Head(job[s].plan)) BY <1>5 DEF RemoveNext
    <3>2. RemoveFile(Head(job[s].plan)) => FilesTyped' BY RemoveTyped DEF Typed
    <3>3. QED BY <2>1, <3>1, <3>2, SameStore, NewStore
  <2>4. QED BY <1>5, <2>2, <2>3, RemoveNextTyped DEF Typed
<1>6. ASSUME NEW all \in Tellings, CheckSteps(s, all) PROVE Typed'
  <2>1. Begins(s, "stories") BY <1>6 DEF CheckSteps
  <2>2. QED BY <1>6, <2>1, CheckStepsTyped, BeginsTyped DEF Typed
<1>7. QED BY <1>1, <1>2, <1>3, <1>4, <1>5, <1>6 DEF ChallengeStep

LEMMA NewFileIs == ASSUME StoreTyped, NEW add \in Items \X Contents
    PROVE NewFile(add) \in Attachment /\ NewFile(add).id = made + 1 /\ NewFile(add).prefix = made + 1
          /\ NewFile(add).content = add[2] /\ (NewFile(add).missing <=> add[2] # Link)
<1> DEFINE m == add[2] # Link
           f == [id |-> made + 1, content |-> add[2], missing |-> m, prefix |-> made + 1]
<1>1. made + 1 \in Nat /\ add[2] \in Contents BY DEF StoreTyped
<1>2. m \in BOOLEAN /\ NewFile(add) = f BY DEF NewFile
<1>3. (m <=> add[2] # Link) OBVIOUS
<1> HIDE DEF m
<1>4. f \in Attachment /\ f.id = made + 1 /\ f.prefix = made + 1 /\ f.content = add[2] /\ f.missing = m
  BY <1>1, <1>2 DEF Attachment
<1> HIDE DEF f
<1>5. QED BY <1>2, <1>3, <1>4

LEMMA ImportKept == ASSUME Typed, NEW s \in Tasks, ImportStep(s) PROVE Typed'
<1>1. ASSUME NEW b \in Bundles, Import(s, b) PROVE Typed'
  <2>1. Begins(s, "import") BY <1>1 DEF Import
  <2>2. QED BY <1>1, <2>1, ImportTyped, BeginsTyped DEF Typed
<1>2. ASSUME NEW b \in Bundles, Replace(s, b) PROVE Typed'
  <2>1. Begins(s, "replace") BY <1>2 DEF Replace
  <2>2. QED BY <1>2, <2>1, ReplaceTyped, BeginsTyped DEF Typed
<1>3. CASE ClearFiles(s)
  <2>1. /\ files' = [i \in Items |-> <<>>] /\ blob' = {} /\ bytes' = 0
        /\ swept' = (swept \/ \E t \in Tasks : job[t].pc = "chunks") /\ UNCHANGED made /\ FilesOnly
    BY <1>3 DEF ClearFiles
  <2>2. StoreTyped'
    <3>1. files' \in [Items -> Seq(Attachment)] BY <2>1, EmptyIs
    <3>2. QED BY <2>1, <3>1 DEF Typed, StoreTyped
  <2>3. BoardTyped' BY <2>1, SameBoard DEF FilesOnly
  <2>4. HistoryTyped' BY <2>1 DEF FilesOnly, Typed, HistoryTyped
  <2>5. QED BY <1>3, <2>2, <2>3, <2>4, ClearFilesTyped DEF Typed
<1>4. CASE ReadBoard(s)
  <2>1. UNCHANGED <<board, left, crossed>> /\ BoardOnly BY <1>4 DEF ReadBoard
  <2>2. QED BY <1>4, <2>1, ReadBoardTyped, StaysTyped DEF Typed
<1>5. CASE PlanFiles(s)
  <2>1. UNCHANGED <<board, left, crossed>> /\ BoardOnly BY <1>5 DEF PlanFiles
  <2>2. QED BY <1>5, <2>1, PlanFilesTyped, StaysTyped DEF Typed
<1>6. CASE AttachNext(s)
  <2>0. JobsTyped /\ StoreTyped /\ job[s].pc = "attach" BY <1>6 DEF Typed, AttachNext, Busy
  <2>1. UNCHANGED swept /\ FilesOnly BY <1>6 DEF AttachNext
  <2>2. BoardTyped' /\ HistoryTyped' BY <2>1, SameBoard, SameHistory DEF FilesOnly
  <2>3. CASE UNCHANGED <<store, made>>
    <3>1. StoreTyped' BY <2>3, SameStore
    <3>2. QED BY <1>6, <2>2, <3>1, AttachNextTyped DEF Typed
  <2>4. CASE /\ job[s].plan # <<>> /\ made' = made + 1
             /\ Commit(Head(job[s].plan)[1], NewFile(Head(job[s].plan)))
    <3> DEFINE add == Head(job[s].plan)
    <3>1. job[s].plan \in Seq(Items \X Contents) BY <2>0, AtPoint DEF ImportFits
    <3>2. add \in Items \X Contents BY <2>4, <3>1, TailIs
    <3> HIDE DEF add
    <3>3. NewFile(add) \in Attachment /\ add[1] \in Items BY <2>0, <3>2, NewFileIs
    <3>4. FilesTyped' BY <2>0, <2>4, <3>3, CommitTyped DEF add
    <3>5. StoreTyped' BY <2>4, <3>4, NewStore
    <3>6. QED BY <1>6, <2>2, <3>5, AttachNextTyped DEF Typed
  <2>5. QED BY <1>6, <2>0, <2>3, <2>4, AttachNextIs
<1>7. CASE FindNext(s)
  <2>1. UNCHANGED store /\ UNCHANGED swept /\ FilesOnly BY <1>7 DEF FindNext
  <2>2. BoardTyped' /\ HistoryTyped' BY <2>1, SameBoard, SameHistory DEF FilesOnly
  <2>3. made' \in {made, made + 1} BY <1>7, FindNextIs DEF Typed
  <2>4. StoreTyped' BY <2>1, <2>3 DEF Typed, StoreTyped, store
  <2>5. QED BY <1>7, <2>2, <2>4, FindNextTyped DEF Typed
<1>8. QED BY <1>1, <1>2, <1>3, <1>4, <1>5, <1>6, <1>7 DEF ImportStep

LEMMA FileKept == ASSUME Typed, NEW s \in Tasks, FileStep(s) PROVE Typed'
<1>1. ASSUME NEW i \in Items, NEW c \in Contents, Upload(s, i, c) PROVE Typed'
  <2>1. UNCHANGED store /\ UNCHANGED swept /\ FilesOnly /\ made' = made + 1 BY <1>1 DEF Upload
  <2>2. BoardTyped' /\ HistoryTyped' BY <2>1, SameBoard, SameHistory DEF FilesOnly
  <2>3. StoreTyped' BY <2>1 DEF Typed, StoreTyped, store
  <2>4. QED BY <1>1, <2>2, <2>3, UploadTyped DEF Typed
<1>2. ASSUME NEW i \in Items, NEW c \in Digests, Refill(s, i, c) PROVE Typed'
  <2>1. UNCHANGED store /\ UNCHANGED swept /\ FilesOnly /\ made' = made + 1 BY <1>2 DEF Refill
  <2>2. BoardTyped' /\ HistoryTyped' BY <2>1, SameBoard, SameHistory DEF FilesOnly
  <2>3. StoreTyped' BY <2>1 DEF Typed, StoreTyped, store
  <2>4. QED BY <1>2, <2>2, <2>3, RefillTyped DEF Typed
<1>3. CASE PutChunk(s)
  <2> DEFINE put == job[s].put
  <2>1. /\ UNCHANGED <<files, bytes, made, swept>> /\ FilesOnly /\ job[s].pc = "chunks"
        /\ blob' = blob \union {<<put.prefix, put.n + 1>>}
    BY <1>3 DEF PutChunk, Busy
  <2>2. BoardTyped' /\ HistoryTyped' BY <2>1, SameBoard, SameHistory DEF FilesOnly
  <2>3. IsPutting(put) BY <2>1, AtWork DEF Typed
  <2>4. put.prefix \in Nat /\ put.n + 1 \in Nat
    <3>1. put.att \in Attachment BY <2>3 DEF IsPutting
    <3>2. Size[put.att.content] \in Nat BY <3>1, WeightIs
    <3>3. QED BY <2>3, <3>2 DEF IsPutting
  <2>5. StoreTyped' BY <2>1, <2>4 DEF Typed, StoreTyped
  <2>6. QED BY <1>3, <2>2, <2>5, PutChunkTyped DEF Typed
<1>4. CASE Finish(s)
  <2>1. Written(s) /\ Script(s) /\ UNCHANGED made /\ UNCHANGED swept /\ FilesOnly BY <1>4 DEF Finish
  <2>2. BoardTyped' /\ HistoryTyped' BY <2>1, SameBoard, SameHistory DEF FilesOnly
  <2>3. StoreTyped' BY <2>1, ScriptTyped, NewStore
  <2>4. QED BY <1>4, <2>2, <2>3, FinishTyped DEF Typed
<1>5. CASE DropChunks(s)
  <2>1. /\ UNCHANGED <<files, bytes, made, swept>> /\ FilesOnly
        /\ blob' = blob \ Chunks(job[s].put.prefix, job[s].put.att.content)
    BY <1>5 DEF DropChunks
  <2>2. BoardTyped' /\ HistoryTyped' BY <2>1, SameBoard, SameHistory DEF FilesOnly
  <2>3. blob' \subseteq blob BY <2>1
  <2>4. StoreTyped' BY <2>1, <2>3 DEF Typed, StoreTyped
  <2>5. JobsTyped' BY <1>5, DropChunksIs, EndsTyped DEF Typed
  <2>6. QED BY <2>2, <2>4, <2>5 DEF Typed
<1>6. QED BY <1>1, <1>2, <1>3, <1>4, <1>5 DEF FileStep

LEMMA ExportKept == ASSUME Typed, NEW s \in Tasks, ExportStep(s) PROVE Typed'
<1>1. CASE Export(s)
  <2>1. Begins(s, "export") BY <1>1 DEF Export
  <2>2. QED BY <1>1, <2>1, ExportTyped, BeginsTyped DEF Typed
<1>2. ASSUME NEW part \in Parts, ExportRead(s, part) PROVE Typed'
  <2>1. UNCHANGED <<board, left, crossed>> /\ BoardOnly BY <1>2 DEF ExportRead
  <2>2. QED BY <1>2, <2>1, ExportReadTyped, StaysTyped DEF Typed
<1>3. CASE ExportDone(s)
  <2>1. UNCHANGED <<board, store, made, left, crossed, broken, half, swept, doubt>> BY <1>3 DEF ExportDone
  <2>2. BoardTyped' /\ StoreTyped' /\ HistoryTyped' BY <2>1, SameBoard, SameStore, SameHistory
  <2>3. JobsTyped' BY <1>3, ExportDoneIs, EndsTyped DEF Typed
  <2>4. QED BY <2>2, <2>3 DEF Typed
<1>4. QED BY <1>1, <1>2, <1>3 DEF ExportStep

\* What a request that breaks off may leave is some of the names.
LEMMA UnsettledIs == ASSUME Typed, NEW s \in Tasks, job[s] # Free PROVE Unsettled(job[s]) \subseteq Names
<1>1. JobsTyped BY DEF Typed
<1>2. CASE job[s].kind = "rename"
  <2>1. job[s].ask \in [from : Names, to : Names] BY <1>1, <1>2, AtPoint DEF RenameFits
  <2>2. QED BY <1>2, <2>1 DEF Unsettled
<1>3. CASE job[s].kind = "import"
  <2>1. job[s].ask \in Bundles BY <1>1, <1>3, AtPoint DEF ImportFits
  <2>2. job[s].ask.categories \in Seq(Names) BY <2>1, BundleIs
  <2>3. ToSet(job[s].ask.categories) \subseteq Names BY <2>2 DEF ToSet
  <2>4. QED BY <1>3, <2>3 DEF Unsettled
<1>4. CASE job[s].kind = "replace" BY <1>4 DEF Unsettled
<1>5. CASE job[s].kind \notin {"rename", "import", "replace"} BY <1>5 DEF Unsettled
<1>6. QED BY <1>2, <1>3, <1>4, <1>5

LEMMA BreaksTyped == ASSUME Typed, NEW s \in Tasks, job[s] # Free, Breaks(s) PROVE BoardTyped' /\ StoreTyped' /\ HistoryTyped'
<1>1. /\ broken' = TRUE /\ half' = half \union Unsettled(job[s]) /\ UNCHANGED board /\ UNCHANGED store
      /\ UNCHANGED <<made, crossed, swept, doubt>>
  BY DEF Breaks
<1>2. HistoryTyped' BY <1>1, UnsettledIs DEF Typed, HistoryTyped
<1>3. QED BY <1>1, <1>2, SameBoard, SameStore

LEMMA FaultKept == ASSUME Typed, NEW s \in Tasks, FaultStep(s) PROVE Typed'
<1>1. CASE CommandFails(s)
  <2>1. job[s] # Free /\ Breaks(s) BY <1>1 DEF CommandFails
  <2>2. QED BY <1>1, <2>1, CommandFailsTyped, BreaksTyped DEF Typed
<1>2. CASE RequestDies(s)
  <2>1. job[s] # Free /\ Breaks(s) BY <1>2 DEF RequestDies
  <2>2. JobsTyped' BY <1>2, OverIs, EndsTyped DEF Typed
  <2>3. QED BY <2>1, <2>2, BreaksTyped DEF Typed
<1>3. CASE ChunkFails(s)
  <2>1. UNCHANGED store /\ UNCHANGED made /\ UNCHANGED swept /\ FilesOnly BY <1>3 DEF ChunkFails
  <2>2. BoardTyped' /\ StoreTyped' /\ HistoryTyped' BY <2>1, SameBoard, SameStore, SameHistory DEF FilesOnly
  <2>3. QED BY <1>3, <2>2, DropsTyped DEF Typed
<1>4. CASE FinishUnheard(s)
  <2>1. /\ Written(s) /\ Script(s) /\ doubt' = (doubt \/ Accepted(s)) /\ UNCHANGED board /\ UNCHANGED made
        /\ UNCHANGED <<crossed, broken, half, swept>>
    BY <1>4 DEF FinishUnheard
  <2>2. StoreTyped' BY <2>1, ScriptTyped, NewStore
  <2>3. Accepted(s) \in BOOLEAN BY DEF Accepted
  <2>4. HistoryTyped' BY <2>1, <2>3 DEF Typed, HistoryTyped
  <2>5. QED BY <1>4, <2>1, <2>2, <2>4, SameBoard, DropsTyped DEF Typed
<1>5. ASSUME NEW part \in Parts, ExportUnread(s, part) PROVE Typed'
  <2>1. UNCHANGED board /\ UNCHANGED crossed /\ BoardOnly BY <1>5 DEF ExportUnread
  <2>2. BoardTyped' /\ StoreTyped' /\ HistoryTyped' BY <2>1, SameBoard, SameStore, SameHistory DEF BoardOnly
  <2>3. QED BY <1>5, <2>2, ExportUnreadTyped DEF Typed
<1>6. QED BY <1>1, <1>2, <1>3, <1>4, <1>5 DEF FaultStep

LEMMA TypedInit == ASSUME Init PROVE Typed
<1>1. PICK b \in Boards : /\ record = b.record /\ categories = b.categories /\ stories = b.stories
                          /\ answer = [i \in Items |-> IF b.record[i] = None THEN None ELSE b.record[i].text]
  BY DEF Init
<1>2. /\ b.record \in [Items -> Record] /\ b.categories \in Seq(Names) /\ Distinct(b.categories) = b.categories
      /\ Len(b.categories) <= ListMax /\ b.stories \in [StoryIds -> Seq(Items)] /\ Canonical(b.stories)
  BY ContentAssumption
<1>3. categories \in GoodLists BY <1>1, <1>2, DistinctSame DEF GoodLists
<1>4. stories \in GoodStories BY <1>1, <1>2 DEF GoodStories
<1>5. answer \in Answers
  <2>1. \A i \in Items : b.record[i] = None \/ b.record[i].text \in Texts BY <1>2 DEF Record
  <2>2. \A i \in Items : (IF b.record[i] = None THEN None ELSE b.record[i].text) \in Texts \union {None} BY <2>1
  <2>3. QED BY <1>1, <2>2 DEF Answers
<1>6. BoardTyped BY <1>1, <1>2, <1>3, <1>4, <1>5 DEF BoardTyped, Rows
<1>7. StoreTyped
  <2>1. files = [i \in Items |-> <<>>] /\ blob = {} /\ bytes = 0 /\ made = 0 BY DEF Init
  <2>2. files \in [Items -> Seq(Attachment)] BY <2>1, EmptyIs
  <2>3. QED BY <2>1, <2>2 DEF StoreTyped
<1>8. JobsTyped
  <2>1. job = [s \in Tasks |-> Free] BY DEF Init
  <2>2. \A s \in Tasks : job[s] = Free BY <2>1
  <2>3. \A s \in Tasks : JobOK(job[s]) BY <2>2, FreeOK
  <2>4. QED BY <2>1, <2>2, <2>3 DEF JobsTyped
<1>9. HistoryTyped BY DEF Init, HistoryTyped
<1>10. QED BY <1>6, <1>7, <1>8, <1>9 DEF Typed

LEMMA TypedKept == ASSUME Typed, Next PROVE Typed'
<1>1. ASSUME NEW s \in Tasks, RunCommand(s) PROVE Typed'
  <2>1. UNCHANGED <<left, crossed>> /\ BoardOnly BY <1>1 DEF RunCommand
  <2>2. StoreTyped' /\ HistoryTyped' BY <2>1, SameStore, SameHistory DEF BoardOnly
  <2>3. QED BY <1>1, <2>2, RunCommandTyped DEF Typed
<1>2. ASSUME NEW s \in Tasks, Returns(s) PROVE Typed'
  <2>1. UNCHANGED <<board, left, crossed>> /\ BoardOnly BY <1>2 DEF Returns
  <2>2. JobsTyped' BY <1>2, OverIs, EndsTyped DEF Typed
  <2>3. QED BY <2>1, <2>2, StaysTyped DEF Typed
<1>3. ASSUME NEW id, RemoveAttachment(id) PROVE Typed'
  <2>1. RemoveFile(id) /\ UNCHANGED <<job, made, swept>> /\ FilesOnly BY <1>3 DEF RemoveAttachment
  <2>2. FilesTyped' BY <2>1, RemoveTyped DEF Typed
  <2>3. BoardTyped' /\ StoreTyped' /\ HistoryTyped' BY <2>1, <2>2, SameBoard, NewStore, SameHistory DEF FilesOnly
  <2>4. JobsTyped' BY <2>1 DEF Typed, JobsTyped
  <2>5. QED BY <2>3, <2>4 DEF Typed
<1>4. QED BY <1>1, <1>2, <1>3, ListKept, ChallengeKept, ImportKept, FileKept, ExportKept, FaultKept, Steps

-----------------------------------------------------------------------------
\* The files of a table, and that it lists each id once.
Lists == [Items -> Seq(Attachment)]
Of(all) == UNION {ToSet(all[i]) : i \in Items}
OnceIn(all) == \A i, j \in Items : \A k \in DOMAIN all[i], l \in DOMAIN all[j] :
                  all[i][k].id = all[j][l].id => i = j /\ k = l
WithFile(all, i, att) == [all EXCEPT ![i] = Append(all[i], att)]
Appends(all, i, att, new) ==
    /\ new \in Lists /\ Of(new) = Of(all) \union {att} /\ att \notin Of(all) /\ OnceIn(new)
    /\ Len(new[i]) = Len(all[i]) + 1 /\ \A j \in Items : j # i => new[j] = all[j]
IdsIn(list) == {att.id : att \in ToSet(list)}

LEMMA OfIs == ASSUME NEW all \in Lists
    PROVE /\ Of(all) \subseteq Attachment /\ IsFiniteSet(Of(all))
          /\ \A att : att \in Of(all) <=> \E i \in Items : \E k \in DOMAIN all[i] : all[i][k] = att
          /\ \A i \in Items : /\ all[i] \in Seq(Attachment) /\ DOMAIN all[i] = 1..Len(all[i]) /\ Len(all[i]) \in Nat
                              /\ \A k \in DOMAIN all[i] : all[i][k] \in Attachment
<1>1. ASSUME NEW i \in Items
      PROVE /\ all[i] \in Seq(Attachment) /\ DOMAIN all[i] = 1..Len(all[i]) /\ Len(all[i]) \in Nat
            /\ (\A k \in DOMAIN all[i] : all[i][k] \in Attachment)
            /\ ToSet(all[i]) \subseteq Attachment /\ IsFiniteSet(ToSet(all[i]))
  <2> DEFINE list == all[i]
  <2>1. list \in Seq(Attachment) BY DEF Lists
  <2> HIDE DEF list
  <2>2. Len(list) \in Nat /\ DOMAIN list = 1..Len(list) /\ \A k \in DOMAIN list : list[k] \in Attachment BY <2>1
  <2>3. ToSet(list) \subseteq Attachment BY <2>2 DEF ToSet
  <2>4. IsFiniteSet(DOMAIN list) BY <2>2, FS_Interval
  <2>5. ToSet(list) = {list[k] : k \in DOMAIN list} BY DEF ToSet
  <2>6. IsFiniteSet(ToSet(list)) BY <2>4, <2>5, FiniteImage
  <2>7. QED BY <2>1, <2>2, <2>3, <2>6 DEF list
<1>2. IsFiniteSet({ToSet(all[i]) : i \in Items})
  <2>1. IsFiniteSet(Items) BY ContentAssumption
  <2> DEFINE f == [i \in Items |-> ToSet(all[i])]
  <2>2. DOMAIN f = Items /\ {f[i] : i \in DOMAIN f} = {ToSet(all[i]) : i \in Items} OBVIOUS
  <2> HIDE DEF f
  <2>3. QED BY <2>1, <2>2, FiniteImage
<1>3. \A S \in {ToSet(all[i]) : i \in Items} : IsFiniteSet(S) BY <1>1
<1>4. IsFiniteSet(Of(all)) BY <1>2, <1>3, FS_UNION DEF Of
<1>5. Of(all) \subseteq Attachment BY <1>1 DEF Of
<1>6. \A att : att \in Of(all) <=> \E i \in Items : \E k \in DOMAIN all[i] : all[i][k] = att BY DEF Of, ToSet
<1>7. QED BY <1>1, <1>4, <1>5, <1>6

\* One file has an id.
LEMMA SameId == ASSUME NEW all \in Lists, OnceIn(all), NEW a \in Of(all), NEW b \in Of(all), a.id = b.id PROVE a = b
<1>1. PICK i \in Items : \E k \in DOMAIN all[i] : all[i][k] = a BY OfIs
<1>2. PICK k \in DOMAIN all[i] : all[i][k] = a BY <1>1
<1>3. PICK j \in Items : \E l \in DOMAIN all[j] : all[j][l] = b BY OfIs
<1>4. PICK l \in DOMAIN all[j] : all[j][l] = b BY <1>3
<1>5. i = j /\ k = l BY <1>2, <1>4 DEF OnceIn
<1>6. QED BY <1>2, <1>4, <1>5

\* The weight of some files and one more.
LEMMA WeightsGrow ==
    ASSUME NEW S, S \subseteq Attachment, IsFiniteSet(S), NEW att \in Attachment, att \notin S
    PROVE  Weights(S \union {att}) = Weights(S) + Weight(att)
<1> DEFINE f == [a \in S |-> Weight(a)]
           T == S \union {att}
           g == [a \in T |-> Weight(a)]
<1>1. f \in [S -> Nat] BY WeightIs
<1>2. g \in [T -> Nat] /\ g[att] = Weight(att) BY WeightIs
<1>3. \A a \in S : g[a] = f[a] OBVIOUS
<1>4. Weights(S) = SumFunction(f) /\ Weights(T) = SumFunction(g) BY DEF Weights
<1> HIDE DEF f, g
<1>5. SumFunction(g) = SumFunction(f) + g[att] BY <1>1, <1>2, <1>3, SumGrows
<1>6. QED BY <1>2, <1>4, <1>5

LEMMA WeightsOfNone == Weights({}) = 0
<1> DEFINE f == [a \in {} |-> Weight(a)]
<1>1. f \in [{} -> Nat] /\ Weights({}) = SumFunction(f) BY DEF Weights
<1>2. IsFiniteSet({}) BY FS_EmptySet
<1> HIDE DEF f
<1>3. QED BY <1>1, <1>2, SumNat

LEMMA WeightsShrink ==
    ASSUME NEW S, S \subseteq Attachment, IsFiniteSet(S), NEW att \in S
    PROVE  Weights(S \ {att}) = Weights(S) - Weight(att) /\ Weights(S \ {att}) \in Nat
<1> DEFINE T == S \ {att}
<1>1. T \subseteq Attachment /\ IsFiniteSet(T) /\ att \notin T /\ T \union {att} = S BY FS_RemoveElement
<1> HIDE DEF T
<1>2. Weights(S) = Weights(T) + Weight(att) BY <1>1, WeightsGrow
<1>3. Weights(T) \in Nat /\ Weight(att) \in Nat BY <1>1, WeightsNat, WeightIs
<1>4. Weights(T) = Weights(S) - Weight(att) BY <1>2, <1>3
<1>5. QED BY <1>3, <1>4 DEF T

\* A file is added at the end of a list.
LEMMA AppendsIs ==
    ASSUME NEW all \in Lists, NEW i \in Items, NEW att \in Attachment, OnceIn(all), \A a \in Of(all) : a.id # att.id
    PROVE  Appends(all, i, att, WithFile(all, i, att))
<1> DEFINE new == WithFile(all, i, att)
           list == all[i]
           out == Append(list, att)
           N == Len(list)
<1>0. new = [all EXCEPT ![i] = out] BY DEF WithFile
<1> HIDE DEF new
<1>1. list \in Seq(Attachment) /\ N \in Nat /\ DOMAIN list = 1..N BY OfIs
<1>2. /\ out \in Seq(Attachment) /\ Len(out) = N + 1 /\ DOMAIN out = 1..(N + 1)
      /\ out[N + 1] = att /\ \A k \in 1..N : out[k] = list[k]
  <2> HIDE DEF list
  <2>1. QED BY <1>1
<1> HIDE DEF out, N
<1>3. new \in Lists /\ new[i] = out /\ \A j \in Items : j # i => new[j] = all[j] BY <1>0, <1>2 DEF Lists
<1>4. \A k \in DOMAIN out : (k \in DOMAIN list /\ out[k] = list[k]) \/ (k = N + 1 /\ out[k] = att) BY <1>1, <1>2
<1>5. Of(new) \subseteq Of(all) \union {att}
  <2> SUFFICES ASSUME NEW a \in Of(new) PROVE a \in Of(all) \/ a = att OBVIOUS
  <2>1. PICK j \in Items : \E k \in DOMAIN new[j] : new[j][k] = a BY <1>3, OfIs
  <2>2. PICK k \in DOMAIN new[j] : new[j][k] = a BY <2>1
  <2>3. CASE j = i BY <1>3, <1>4, <2>2, <2>3, OfIs
  <2>4. CASE j # i BY <1>3, <2>2, <2>4, OfIs
  <2>5. QED BY <2>3, <2>4
<1>6. Of(all) \union {att} \subseteq Of(new)
  <2>1. att \in Of(new)
    <3>1. N + 1 \in DOMAIN new[i] /\ new[i][N + 1] = att BY <1>1, <1>2, <1>3
    <3>2. QED BY <1>3, <3>1, OfIs
  <2>2. ASSUME NEW a \in Of(all) PROVE a \in Of(new)
    <3>1. PICK j \in Items : \E k \in DOMAIN all[j] : all[j][k] = a BY OfIs
    <3>2. PICK k \in DOMAIN all[j] : all[j][k] = a BY <3>1
    <3>3. k \in DOMAIN new[j] /\ new[j][k] = a BY <1>1, <1>2, <1>3, <3>2
    <3>4. QED BY <1>3, <3>3, OfIs
  <2>3. QED BY <2>1, <2>2
<1>7. OnceIn(new)
  <2> SUFFICES ASSUME NEW h \in Items, NEW j \in Items, NEW k \in DOMAIN new[h], NEW l \in DOMAIN new[j],
                      new[h][k].id = new[j][l].id
               PROVE h = j /\ k = l
    BY DEF OnceIn
  <2> DEFINE old(x, y) == y \in DOMAIN all[x] /\ new[x][y] = all[x][y]
             last(x, y) == x = i /\ y = N + 1 /\ new[x][y] = att
  <2>1. old(h, k) \/ last(h, k) BY <1>3, <1>4
  <2>2. old(j, l) \/ last(j, l) BY <1>3, <1>4
  <2>3. old(h, k) => new[h][k].id # att.id BY OfIs
  <2>4. old(j, l) => new[j][l].id # att.id BY OfIs
  <2>5. CASE old(h, k) /\ old(j, l) BY <2>5 DEF OnceIn
  <2>6. CASE last(h, k) /\ last(j, l) BY <2>6
  <2>7. QED BY <2>1, <2>2, <2>3, <2>4, <2>5, <2>6
<1>8. att \notin Of(all) OBVIOUS
<1>9. Appends(all, i, att, new) BY <1>2, <1>3, <1>5, <1>6, <1>7, <1>8 DEF Appends, out, N
<1>10. QED BY <1>9 DEF new

\* A file is replaced by one of its id.
LEMMA ReplacesIs ==
    ASSUME NEW all \in Lists, NEW new \in Lists, OnceIn(all), NEW att \in Of(all), NEW to \in Attachment,
           to.id = att.id, to # att,
           \A i \in Items : /\ DOMAIN new[i] = DOMAIN all[i]
                            /\ \A k \in DOMAIN all[i] : new[i][k] = IF all[i][k] = att THEN to ELSE all[i][k]
    PROVE  /\ Of(new) = (Of(all) \ {att}) \union {to} /\ to \notin Of(all) /\ OnceIn(new)
           /\ \A i \in Items : IdsIn(new[i]) = IdsIn(all[i])
<1>1. \A i \in Items : \A k \in DOMAIN all[i] : new[i][k].id = all[i][k].id OBVIOUS
<1>2. OnceIn(new) BY <1>1 DEF OnceIn
<1>3. to \notin Of(all) BY SameId
<1>4. \A i \in Items : IdsIn(new[i]) = IdsIn(all[i])
  <2> TAKE i \in Items
  <2>1. IdsIn(new[i]) = {new[i][k].id : k \in DOMAIN new[i]} BY DEF IdsIn, ToSet
  <2>2. IdsIn(all[i]) = {all[i][k].id : k \in DOMAIN all[i]} BY DEF IdsIn, ToSet
  <2>3. QED BY <1>1, <2>1, <2>2
<1>5. Of(new) \subseteq (Of(all) \ {att}) \union {to}
  <2> SUFFICES ASSUME NEW a \in Of(new) PROVE a = to \/ (a \in Of(all) /\ a # att) OBVIOUS
  <2>1. PICK i \in Items : \E k \in DOMAIN new[i] : new[i][k] = a BY OfIs
  <2>2. PICK k \in DOMAIN new[i] : new[i][k] = a BY <2>1
  <2>3. QED BY <2>2, OfIs
<1>6. (Of(all) \ {att}) \union {to} \subseteq Of(new)
  <2>1. ASSUME NEW a \in Of(all), a # att PROVE a \in Of(new)
    <3>1. PICK i \in Items : \E k \in DOMAIN all[i] : all[i][k] = a BY OfIs
    <3>2. PICK k \in DOMAIN all[i] : all[i][k] = a BY <3>1
    <3>3. k \in DOMAIN new[i] /\ new[i][k] = a BY <2>1, <3>2
    <3>4. QED BY <3>3, OfIs
  <2>2. to \in Of(new)
    <3>1. PICK i \in Items : \E k \in DOMAIN all[i] : all[i][k] = att BY OfIs
    <3>2. PICK k \in DOMAIN all[i] : all[i][k] = att BY <3>1
    <3>3. k \in DOMAIN new[i] /\ new[i][k] = to BY <3>2
    <3>4. QED BY <3>3, OfIs
  <2>3. QED BY <2>1, <2>2
<1>7. QED BY <1>2, <1>3, <1>4, <1>5, <1>6

\* Files are taken out of every list.
LEMMA WithoutsIs ==
    ASSUME NEW all \in Lists, OnceIn(all), NEW set
    PROVE  LET new == [i \in Items |-> Without(all[i], set)]
           IN  /\ new \in Lists /\ Of(new) = Of(all) \ set /\ OnceIn(new)
               /\ \A i \in Items : Len(new[i]) <= Len(all[i]) /\ ToSet(new[i]) = ToSet(all[i]) \ set
<1> DEFINE new == [i \in Items |-> Without(all[i], set)]
<1>1. ASSUME NEW i \in Items
      PROVE /\ new[i] \in Seq(Attachment) /\ Len(new[i]) <= Len(all[i]) /\ ToSet(new[i]) = ToSet(all[i]) \ set
            /\ \E at \in [DOMAIN new[i] -> DOMAIN all[i]] :
                  /\ \A n \in DOMAIN new[i] : new[i][n] = all[i][at[n]]
                  /\ \A m, n \in DOMAIN new[i] : m # n => at[m] # at[n]
  <2> DEFINE list == all[i]
             out == Without(list, set)
  <2>1. list \in Seq(Attachment) BY OfIs
  <2>2. new[i] = out OBVIOUS
  <2> HIDE DEF list, out, new
  <2>3. /\ out \in Seq(Attachment) /\ Len(out) <= Len(list) /\ ToSet(out) = ToSet(list) \ set
        /\ \E at \in [1..Len(out) -> 1..Len(list)] :
              /\ \A n \in 1..Len(out) : out[n] = list[at[n]]
              /\ \A m, n \in 1..Len(out) : m # n => at[m] # at[n]
    BY <2>1, WithoutIs DEF out
  <2>4. DOMAIN out = 1..Len(out) /\ DOMAIN list = 1..Len(list) BY <2>1, <2>3
  <2>5. QED BY <2>2, <2>3, <2>4 DEF list
<1>2. new \in Lists
  <2>1. new = [i \in Items |-> new[i]] OBVIOUS
  <2> HIDE DEF new
  <2>2. QED BY <1>1, <2>1 DEF Lists
<1> HIDE DEF new
<1>3. Of(new) = Of(all) \ set BY <1>1 DEF Of
<1>4. OnceIn(new)
  <2> SUFFICES ASSUME NEW i \in Items, NEW j \in Items, NEW k \in DOMAIN new[i], NEW l \in DOMAIN new[j],
                      new[i][k].id = new[j][l].id
               PROVE i = j /\ k = l
    BY DEF OnceIn
  <2>1. PICK f \in [DOMAIN new[i] -> DOMAIN all[i]] :
                  /\ \A n \in DOMAIN new[i] : new[i][n] = all[i][f[n]]
                  /\ \A m, n \in DOMAIN new[i] : m # n => f[m] # f[n]
    BY <1>1
  <2>2. PICK g \in [DOMAIN new[j] -> DOMAIN all[j]] : \A n \in DOMAIN new[j] : new[j][n] = all[j][g[n]]
    BY <1>1
  <2>3. f[k] \in DOMAIN all[i] /\ g[l] \in DOMAIN all[j] /\ all[i][f[k]].id = all[j][g[l]].id BY <2>1, <2>2
  <2>4. i = j /\ f[k] = g[l] BY <2>3 DEF OnceIn
  <2>5. l \in DOMAIN new[i] /\ new[i][k].id = new[i][l].id BY <2>4
  <2>6. f[l] \in DOMAIN all[i] /\ all[i][f[k]].id = all[i][f[l]].id BY <2>1, <2>5
  <2>7. f[k] = f[l] BY <2>3, <2>6 DEF OnceIn
  <2>8. QED BY <2>1, <2>4, <2>5, <2>7
<1>5. QED BY <1>1, <1>2, <1>3, <1>4 DEF new

-----------------------------------------------------------------------------
\* The files' invariant.  A request is a writer until its chunks are committed,
\* filled in or dropped.
Writer(s) == job[s].pc \in {"chunks", "drop"}

Listed == OnceIn(files) /\ \A att \in Attached : att.id <= made /\ att.prefix <= made

\* No two stored files share their chunks, and no writer's are a listed file's,
\* unless its answer was lost.
OwnPrefix == \A a, b \in Attached : ~a.missing /\ ~b.missing /\ a.prefix = b.prefix => a = b
OwnPuts   == \A s, t \in Tasks : Writer(s) /\ Writer(t) /\ job[s].put.prefix = job[t].put.prefix => s = t
PutNew(s) ==
    LET put == job[s].put IN
    /\ put.prefix <= made
    /\ \A att \in Attached : ~att.missing /\ att.prefix = put.prefix => job[s].pc = "drop" /\ doubt
    /\ job[s].kind = "upload" => /\ put.att.id = put.prefix /\ put.att.prefix = put.prefix /\ ~put.att.missing
                                 /\ \A att \in Attached : att.id = put.att.id => job[s].pc = "drop"
    /\ job[s].kind # "upload" => put.att.missing
\* The chunks a writer has written are there.
PutStored(s) ==
    swept \/ doubt \/ job[s].pc = "drop" \/ \A n \in 1..job[s].put.n : <<job[s].put.prefix, n>> \in blob
Puts == \A s \in Tasks : Writer(s) => PutNew(s) /\ PutStored(s)
PutChunks(s) == Chunks(job[s].put.prefix, job[s].put.att.content)
Accounted ==
    ~broken => \A c \in blob : \/ \E att \in Attached : c \in Held(att)
                               \/ \E s \in Tasks : Writer(s) /\ c \in PutChunks(s)
FilesInv == Listed /\ OwnPrefix /\ OwnPuts /\ Puts /\ Accounted /\ BytesExact /\ CapsHold /\ FilesReadable

LEMMA InLists == ASSUME StoreTyped PROVE files \in Lists /\ Attached = Of(files) /\ Attached' = Of(files')
BY DEF StoreTyped, Lists, Attached, Of

LEMMA ExactIs == ASSUME StoreTyped PROVE /\ BytesExact <=> bytes = Weights(Attached)
                                         /\ BytesExact' <=> bytes' = Weights(Attached')
BY DEF BytesExact, Stored, Attached

LEMMA PuttingIs == ASSUME JobsTyped, NEW s \in Tasks, Writer(s)
    PROVE /\ job[s].put.att \in Attachment /\ job[s].put.prefix \in Nat /\ job[s].put.n \in 0..Size[job[s].put.att.content]
          /\ job[s].put.n \in Nat /\ Size[job[s].put.att.content] \in Nat
<1>1. IsPutting(job[s].put) BY AtWork DEF Writer
<1>2. job[s].put.att \in Attachment BY <1>1 DEF IsPutting
<1>3. Size[job[s].put.att.content] \in Nat BY <1>2, WeightIs
<1>4. QED BY <1>1, <1>2, <1>3 DEF IsPutting

\* A step that leaves the files and their writers alone, or drops a writer by a fault.
LEMMA StopsKeep ==
    ASSUME Typed, FilesInv, NEW s \in Tasks, NEW j, Sets(s, j), j.pc \notin {"chunks", "drop"},
           UNCHANGED store, UNCHANGED <<made, swept, doubt>>, broken => broken', Writer(s) => broken'
    PROVE  FilesInv'
<1>1. job'[s] = j /\ \A t \in Tasks : t # s => job'[t] = job[t] BY SetsIs
<1>2. files' = files /\ blob' = blob /\ bytes' = bytes /\ made' = made /\ swept' = swept /\ doubt' = doubt BY DEF store
<1>3. Attached' = Attached BY <1>2 DEF Attached
<1>4. \A t \in Tasks : Writer(t)' => Writer(t) /\ job'[t] = job[t] /\ t # s BY <1>1 DEF Writer
<1>5. \A t \in Tasks : Writer(t) => t = s \/ (Writer(t)' /\ job'[t] = job[t]) BY <1>1 DEF Writer
<1>6. Listed' BY <1>2, <1>3 DEF FilesInv, Listed
<1>7. OwnPrefix' BY <1>3 DEF FilesInv, OwnPrefix
<1>8. OwnPuts' BY <1>4 DEF FilesInv, OwnPuts
<1>9. Puts'
  <2> SUFFICES ASSUME NEW t \in Tasks, Writer(t)' PROVE (PutNew(t) /\ PutStored(t))' BY DEF Puts
  <2>1. PutNew(t) /\ PutStored(t) /\ job'[t] = job[t] BY <1>4 DEF FilesInv, Puts
  <2>2. QED BY <1>2, <1>3, <2>1 DEF PutNew, PutStored
<1>10. Accounted' BY <1>2, <1>3, <1>5 DEF FilesInv, Accounted, PutChunks
<1>11. BytesExact' BY <1>2 DEF FilesInv, BytesExact
<1>12. CapsHold' BY <1>2 DEF FilesInv, CapsHold
<1>13. FilesReadable' BY <1>2, <1>3 DEF FilesInv, FilesReadable
<1>14. QED BY <1>6, <1>7, <1>8, <1>9, <1>10, <1>11, <1>12, <1>13 DEF FilesInv

\* A request begins to write a file, under a prefix of its own.
LEMMA StartsKeep ==
    ASSUME Typed, FilesInv, NEW s \in Tasks, NEW j, Sets(s, j), j.pc = "chunks", ~Writer(s),
           UNCHANGED store, UNCHANGED <<swept, doubt, broken>>, made' = made + 1,
           j.put.prefix = made + 1, j.put.n = 0,
           j.kind = "upload" => j.put.att.id = made + 1 /\ j.put.att.prefix = made + 1 /\ ~j.put.att.missing,
           j.kind # "upload" => j.put.att.missing
    PROVE  FilesInv'
<1>1. job'[s] = j /\ \A t \in Tasks : t # s => job'[t] = job[t] BY SetsIs
<1>2. files' = files /\ blob' = blob /\ bytes' = bytes /\ swept' = swept /\ doubt' = doubt /\ broken' = broken BY DEF store
<1>3. Attached' = Attached /\ Attached \subseteq Attachment BY <1>2, AttachedIs DEF Attached, Typed
<1>4. made \in Nat /\ made' = made + 1 BY DEF Typed, StoreTyped
<1>5. \A t \in Tasks : t # s => (Writer(t)' <=> Writer(t)) BY <1>1 DEF Writer
<1>6. Writer(s)' BY <1>1 DEF Writer
<1>7. \A att \in Attached : att.id <= made /\ att.prefix <= made /\ att.id \in Nat /\ att.prefix \in Nat
  BY <1>3 DEF FilesInv, Listed, Attachment
<1>8. \A t \in Tasks : Writer(t) => job[t].put.prefix \in Nat /\ job[t].put.prefix <= made
  BY PuttingIs DEF Typed, FilesInv, Puts, PutNew
<1>9. Listed' BY <1>2, <1>3, <1>4, <1>7 DEF FilesInv, Listed
<1>10. OwnPrefix' BY <1>3 DEF FilesInv, OwnPrefix
<1>11. OwnPuts'
  <2> SUFFICES ASSUME NEW t \in Tasks, NEW u \in Tasks, Writer(t)', Writer(u)', job'[t].put.prefix = job'[u].put.prefix PROVE t = u
    BY DEF OwnPuts
  <2>1. CASE t = s /\ u # s BY <1>1, <1>4, <1>5, <1>8, <2>1
  <2>2. CASE t # s /\ u = s BY <1>1, <1>4, <1>5, <1>8, <2>2
  <2>3. CASE t # s /\ u # s BY <1>1, <1>5, <2>3 DEF FilesInv, OwnPuts
  <2>4. QED BY <2>1, <2>2, <2>3
<1>12. Puts'
  <2> SUFFICES ASSUME NEW t \in Tasks, Writer(t)' PROVE PutNew(t)' /\ PutStored(t)' BY DEF Puts
  <2>1. CASE t = s
    <3>1. PutNew(s)' BY <1>1, <1>3, <1>4, <1>7 DEF PutNew
    <3>2. PutStored(s)' BY <1>1 DEF PutStored
    <3>3. QED BY <2>1, <3>1, <3>2
  <2>2. CASE t # s
    <3>1. PutNew(t) /\ PutStored(t) /\ job'[t] = job[t] /\ job[t].put.prefix \in Nat BY <1>1, <1>5, <1>8, <2>2 DEF FilesInv, Puts
    <3>2. PutNew(t)' BY <1>2, <1>3, <1>4, <3>1 DEF PutNew
    <3>3. PutStored(t)' BY <1>2, <3>1 DEF PutStored
    <3>4. QED BY <3>2, <3>3
  <2>3. QED BY <2>1, <2>2
<1>13. Accounted'
  <2>1. \A t \in Tasks : Writer(t) => Writer(t)' /\ PutChunks(t)' = PutChunks(t) BY <1>1, <1>5 DEF PutChunks
  <2>2. QED BY <1>2, <1>3, <2>1 DEF FilesInv, Accounted
<1>14. BytesExact' BY <1>2 DEF FilesInv, BytesExact
<1>15. CapsHold' BY <1>2 DEF FilesInv, CapsHold
<1>16. FilesReadable' BY <1>2, <1>3 DEF FilesInv, FilesReadable
<1>17. QED BY <1>9, <1>10, <1>11, <1>12, <1>13, <1>14, <1>15, <1>16 DEF FilesInv

\* A writer gives up: it drops its chunks next.
LEMMA ChunkFailsKeeps == ASSUME Typed, FilesInv, NEW s \in Tasks, ChunkFails(s) PROVE FilesInv'
<1> DEFINE j == Job(job[s].kind, "drop", job[s].ask, job[s].todo, job[s].plan, job[s].failed, job[s].put)
<1>1. Sets(s, j) /\ Writer(s) BY DropsIs DEF Typed, ChunkFails, Busy, Writer
<1>2. j.kind = job[s].kind /\ j.pc = "drop" /\ j.put = job[s].put BY DEF Job
<1> HIDE DEF j
<1>3. job'[s] = j /\ \A t \in Tasks : t # s => job'[t] = job[t] BY <1>1, SetsIs
<1>4. files' = files /\ blob' = blob /\ bytes' = bytes /\ made' = made /\ swept' = swept /\ doubt' = doubt /\ broken' = broken
  BY DEF ChunkFails, store, FilesOnly
<1>5. Attached' = Attached BY <1>4 DEF Attached
<1>6. \A t \in Tasks : /\ Writer(t)' <=> Writer(t)
                       /\ Writer(t) => job'[t].put = job[t].put /\ job'[t].kind = job[t].kind
                       /\ job'[t].pc = job[t].pc \/ job'[t].pc = "drop"
  BY <1>1, <1>2, <1>3 DEF Writer
<1>7. Listed' BY <1>4, <1>5 DEF FilesInv, Listed
<1>8. OwnPrefix' BY <1>5 DEF FilesInv, OwnPrefix
<1>9. OwnPuts' BY <1>6 DEF FilesInv, OwnPuts
<1>10. Puts'
  <2> SUFFICES ASSUME NEW t \in Tasks, Writer(t)' PROVE PutNew(t)' /\ PutStored(t)' BY DEF Puts
  <2>1. PutNew(t) /\ PutStored(t) BY <1>6 DEF FilesInv, Puts
  <2>2. PutNew(t)' BY <1>4, <1>5, <1>6, <2>1 DEF PutNew
  <2>3. PutStored(t)' BY <1>4, <1>6, <2>1 DEF PutStored
  <2>4. QED BY <2>2, <2>3
<1>11. Accounted' BY <1>4, <1>5, <1>6 DEF FilesInv, Accounted, PutChunks
<1>12. BytesExact' BY <1>4 DEF FilesInv, BytesExact
<1>13. CapsHold' BY <1>4 DEF FilesInv, CapsHold
<1>14. FilesReadable' BY <1>4, <1>5 DEF FilesInv, FilesReadable
<1>15. QED BY <1>7, <1>8, <1>9, <1>10, <1>11, <1>12, <1>13, <1>14 DEF FilesInv

\* A chunk more.
LEMMA PutChunkKeeps == ASSUME Typed, FilesInv, NEW s \in Tasks, PutChunk(s) PROVE FilesInv'
<1> DEFINE p == job[s].put
           put == [att |-> p.att, prefix |-> p.prefix, n |-> p.n + 1]
           j == Job(job[s].kind, job[s].pc, job[s].ask, job[s].todo, job[s].plan, job[s].failed, put)
           c0 == <<p.prefix, p.n + 1>>
<1>1. Sets(s, j) /\ Writer(s) /\ job[s].pc = "chunks" BY PutChunkIs DEF Typed, PutChunk, Busy, Writer
<1>2. j.kind = job[s].kind /\ j.pc = job[s].pc /\ j.put = put BY DEF Job
<1> HIDE DEF j
<1>3. job'[s] = j /\ \A t \in Tasks : t # s => job'[t] = job[t] BY <1>1, SetsIs
<1>4. /\ files' = files /\ blob' = blob \union {c0} /\ bytes' = bytes /\ made' = made /\ swept' = swept /\ doubt' = doubt
      /\ broken' = broken /\ p.n < Size[p.att.content]
  BY DEF PutChunk, FilesOnly
<1>5. Attached' = Attached BY <1>4 DEF Attached
<1>6. \A t \in Tasks : /\ Writer(t)' <=> Writer(t)
                       /\ Writer(t) => /\ job'[t].put.prefix = job[t].put.prefix /\ job'[t].put.att = job[t].put.att
                                       /\ job'[t].kind = job[t].kind
                       /\ job'[t].pc = job[t].pc
  BY <1>2, <1>3 DEF Writer
<1>7. Listed' BY <1>4, <1>5 DEF FilesInv, Listed
<1>8. OwnPrefix' BY <1>5 DEF FilesInv, OwnPrefix
<1>9. OwnPuts' BY <1>6 DEF FilesInv, OwnPuts
<1>10. Puts'
  <2> SUFFICES ASSUME NEW t \in Tasks, Writer(t)' PROVE PutNew(t)' /\ PutStored(t)' BY DEF Puts
  <2>1. PutNew(t) /\ PutStored(t) BY <1>6 DEF FilesInv, Puts
  <2>2. PutNew(t)' BY <1>4, <1>5, <1>6, <2>1 DEF PutNew
  <2>3. CASE t # s BY <1>3, <1>4, <2>1, <2>2, <2>3 DEF PutStored
  <2>4. CASE t = s
    <3>1. p.n \in Nat BY <1>1, PuttingIs DEF Typed
    <3>2. ASSUME NEW n \in 1..(p.n + 1), n # p.n + 1 PROVE n \in 1..p.n BY <3>1, <3>2
    <3>3. j.put.n = p.n + 1 /\ j.put.prefix = p.prefix BY <1>2
    <3>4. /\ job'[s].pc = "chunks" /\ job'[s].put.n = p.n + 1 /\ job'[s].put.prefix = p.prefix
          /\ swept' = swept /\ doubt' = doubt /\ blob' = blob \union {c0}
      BY <1>1, <1>2, <1>3, <1>4, <3>3
    <3>6. swept \/ doubt \/ \A n \in 1..p.n : <<p.prefix, n>> \in blob BY <1>1, <2>1, <2>4 DEF PutStored
    <3>7. \A n \in 1..(p.n + 1) : n \in 1..p.n \/ <<p.prefix, n>> = c0 BY <3>2
    <3> HIDE DEF p, c0
    <3>8. PutStored(s)' BY <3>4, <3>6, <3>7 DEF PutStored
    <3>5. QED BY <2>2, <2>4, <3>8
  <2>5. QED BY <2>3, <2>4
<1>11. Accounted'
  <2>1. \A t \in Tasks : Writer(t) => Writer(t)' /\ PutChunks(t)' = PutChunks(t) BY <1>6 DEF PutChunks
  <2>2. c0 \in PutChunks(s)
    <3>1. p.n \in Nat /\ Size[p.att.content] \in Nat BY <1>1, PuttingIs DEF Typed
    <3>2. p.n + 1 \in 1..Size[p.att.content] BY <1>4, <3>1
    <3>3. QED BY <3>2 DEF PutChunks, Chunks
  <2> HIDE DEF c0
  <2>3. QED BY <1>1, <1>4, <1>5, <2>1, <2>2 DEF FilesInv, Accounted
<1>12. BytesExact' BY <1>4 DEF FilesInv, BytesExact
<1>13. CapsHold' BY <1>4 DEF FilesInv, CapsHold
<1>14. FilesReadable' BY <1>4, <1>5 DEF FilesInv, FilesReadable
<1>15. QED BY <1>7, <1>8, <1>9, <1>10, <1>11, <1>12, <1>13, <1>14 DEF FilesInv

\* A chunk is a file's own: its prefix is the file's.
LEMMA ChunkIs == ASSUME NEW prefix, NEW content, NEW c \in Chunks(prefix, content) PROVE c[1] = prefix
BY DEF Chunks

\* A writer drops its chunks, which are no listed file's.
LEMMA DropChunksKeeps == ASSUME Typed, FilesInv, NEW s \in Tasks, DropChunks(s) PROVE FilesInv'
<1>1. Sets(s, Free) /\ Writer(s) BY DropChunksIs DEF Typed, DropChunks, Busy, Writer
<1>2. job'[s] = Free /\ \A t \in Tasks : t # s => job'[t] = job[t] BY <1>1, SetsIs
<1>3. /\ files' = files /\ blob' = blob \ PutChunks(s) /\ bytes' = bytes /\ made' = made /\ swept' = swept /\ doubt' = doubt
      /\ broken' = broken
  BY DEF DropChunks, FilesOnly, PutChunks
<1>4. Attached' = Attached BY <1>3 DEF Attached
<1>5. \A t \in Tasks : Writer(t)' => Writer(t) /\ job'[t] = job[t] /\ t # s BY <1>2 DEF Writer, Free
<1>6. \A t \in Tasks : Writer(t) => t = s \/ (Writer(t)' /\ job'[t] = job[t]) BY <1>2 DEF Writer
<1>7. Listed' BY <1>3, <1>4 DEF FilesInv, Listed
<1>8. OwnPrefix' BY <1>4 DEF FilesInv, OwnPrefix
<1>9. OwnPuts' BY <1>5 DEF FilesInv, OwnPuts
<1>10. Puts'
  <2> SUFFICES ASSUME NEW t \in Tasks, Writer(t)' PROVE PutNew(t)' /\ PutStored(t)' BY DEF Puts
  <2>1. PutNew(t) /\ PutStored(t) /\ job'[t] = job[t] /\ t # s /\ Writer(t) BY <1>5 DEF FilesInv, Puts
  <2>2. PutNew(t)' BY <1>3, <1>4, <2>1 DEF PutNew
  <2>3. job[t].put.prefix # job[s].put.prefix BY <1>1, <2>1 DEF FilesInv, OwnPuts
  <2>4. \A n : <<job[t].put.prefix, n>> \notin PutChunks(s) BY <2>3, ChunkIs DEF PutChunks
  <2>5. PutStored(t)' BY <1>3, <2>1, <2>4 DEF PutStored
  <2>6. QED BY <2>2, <2>5
<1>11. Accounted'
  <2>1. \A t \in Tasks : Writer(t) => t = s \/ (Writer(t)' /\ PutChunks(t)' = PutChunks(t)) BY <1>6 DEF PutChunks
  <2>2. QED BY <1>3, <1>4, <2>1 DEF FilesInv, Accounted
<1>12. BytesExact' BY <1>3 DEF FilesInv, BytesExact
<1>13. CapsHold' BY <1>3 DEF FilesInv, CapsHold
<1>14. FilesReadable'
  <2>1. PutNew(s) BY <1>1 DEF FilesInv, Puts
  <2>2. ASSUME ~doubt, NEW att \in Attached PROVE Held(att) \intersect PutChunks(s) = {}
    <3>1. ~att.missing => att.prefix # job[s].put.prefix BY <2>1, <2>2 DEF PutNew
    <3>2. QED BY <3>1, ChunkIs DEF Held, PutChunks
  <2>3. QED BY <1>3, <1>4, <2>2 DEF FilesInv, FilesReadable
<1>15. QED BY <1>7, <1>8, <1>9, <1>10, <1>11, <1>12, <1>13, <1>14 DEF FilesInv

\* A writer's file lands: a new one, or one that was missing and now has its bytes.
LEMMA LandsFile ==
    ASSUME Typed, FilesInv, NEW s \in Tasks, Writer(s), job[s].pc = "chunks", NEW j, Sets(s, j), j.pc # "chunks",
           j.pc = "drop" => j.kind = job[s].kind /\ j.put = job[s].put /\ doubt',
           UNCHANGED <<made, swept, broken>>, doubt => doubt', blob' = blob,
           job[s].put.n = Size[job[s].put.att.content],
           NEW new \in Attachment, ~new.missing, new.prefix = job[s].put.prefix, new.content = job[s].put.att.content,
           new.id = job[s].put.prefix \/ \E a \in Attached : a.id = new.id,
           Attached' \subseteq Attached \union {new}, new \in Attached', \A a \in Attached : a \in Attached' \/ Held(a) = {}
    PROVE  OwnPrefix' /\ OwnPuts' /\ Puts' /\ Accounted' /\ FilesReadable'
<1> DEFINE p == job[s].put
<1>1. job'[s] = j /\ \A t \in Tasks : t # s => job'[t] = job[t] BY SetsIs
<1>2. Held(new) = PutChunks(s) BY DEF Held, PutChunks
<1>3. PutNew(s) /\ PutStored(s) BY DEF FilesInv, Puts
<1>4. \A a \in Attached : ~a.missing => a.prefix # p.prefix BY <1>3 DEF PutNew
<1>5. \A t \in Tasks : Writer(t)' => Writer(t) /\ (t = s => j.pc = "drop") BY <1>1 DEF Writer
<1>6. \A t \in Tasks : Writer(t) /\ t # s => Writer(t)' /\ job[t].put.prefix # p.prefix BY <1>1 DEF Writer, FilesInv, OwnPuts
<1>7. OwnPrefix'
  <2> SUFFICES ASSUME NEW a \in Attached', NEW b \in Attached', ~a.missing, ~b.missing, a.prefix = b.prefix PROVE a = b
    BY DEF OwnPrefix
  <2>1. a \in Attached \/ a = new OBVIOUS
  <2>2. b \in Attached \/ b = new OBVIOUS
  <2>3. QED BY <1>4, <2>1, <2>2 DEF FilesInv, OwnPrefix
<1>8. OwnPuts'
  <2> SUFFICES ASSUME NEW t \in Tasks, NEW u \in Tasks, Writer(t)', Writer(u)', job'[t].put.prefix = job'[u].put.prefix PROVE t = u
    BY DEF OwnPuts
  <2>1. job'[t].put = job[t].put /\ job'[u].put = job[u].put BY <1>1, <1>5
  <2>2. QED BY <1>5, <2>1 DEF FilesInv, OwnPuts
<1>9. Puts'
  <2> SUFFICES ASSUME NEW t \in Tasks, Writer(t)' PROVE PutNew(t)' /\ PutStored(t)' BY DEF Puts
  <2>1. CASE t = s
    <3>1. job'[s].pc = "drop" /\ job'[s].put = p /\ job'[s].kind = job[s].kind /\ doubt' BY <1>1, <1>5, <2>1
    <3>2. PutNew(s)' BY <1>3, <3>1 DEF PutNew
    <3>3. PutStored(s)' BY <3>1 DEF PutStored
    <3>4. QED BY <2>1, <3>2, <3>3
  <2>2. CASE t # s
    <3>1. Writer(t) /\ job'[t] = job[t] /\ job[t].put.prefix # p.prefix BY <1>1, <1>5, <1>6, <2>2
    <3>2. PutNew(t) /\ PutStored(t) BY <3>1 DEF FilesInv, Puts
    <3>3. \A a \in Attached' : ~a.missing /\ a.prefix = job[t].put.prefix => job[t].pc = "drop" /\ doubt'
      BY <3>1, <3>2 DEF PutNew
    <3>4. job[t].kind = "upload" => \A a \in Attached' : a.id = job[t].put.att.id => job[t].pc = "drop"
      BY <3>1, <3>2 DEF PutNew
    <3>5. PutNew(t)' BY <3>1, <3>2, <3>3, <3>4 DEF PutNew
    <3>6. PutStored(t)' BY <3>1, <3>2 DEF PutStored
    <3>7. QED BY <3>5, <3>6
  <2>3. QED BY <2>1, <2>2
<1>10. Accounted'
  <2>1. \A t \in Tasks : Writer(t) => t = s \/ (Writer(t)' /\ PutChunks(t)' = PutChunks(t)) BY <1>1, <1>6 DEF PutChunks
  <2>2. \A a \in Attached : a \in Attached' \/ Held(a) = {} OBVIOUS
  <2>3. QED BY <1>2, <2>1, <2>2 DEF FilesInv, Accounted
<1>11. FilesReadable'
  <2>1. swept \/ doubt \/ Held(new) \subseteq blob
    <3>1. swept \/ doubt \/ \A n \in 1..p.n : <<p.prefix, n>> \in blob BY <1>3 DEF PutStored
    <3>2. QED BY <1>2, <3>1 DEF PutChunks, Chunks
  <2>2. QED BY <2>1 DEF FilesInv, FilesReadable
<1>12. QED BY <1>7, <1>8, <1>9, <1>10, <1>11

\* A refused file: its chunks are dropped.
LEMMA RefusedKeeps ==
    ASSUME Typed, FilesInv, NEW s \in Tasks, Writer(s), job[s].pc = "chunks", NEW j, Sets(s, j), j.pc # "chunks",
           j.pc = "drop" => j.kind = job[s].kind /\ j.put = job[s].put,
           UNCHANGED <<files, bytes, made, swept, broken>>, doubt => doubt', blob' = blob \ PutChunks(s)
    PROVE  FilesInv'
<1>1. job'[s] = j /\ \A t \in Tasks : t # s => job'[t] = job[t] BY SetsIs
<1>2. Attached' = Attached BY DEF Attached
<1>3. PutNew(s) /\ PutStored(s) BY DEF FilesInv, Puts
<1>4. \A a \in Attached : ~a.missing => a.prefix # job[s].put.prefix BY <1>3 DEF PutNew
<1>5. \A t \in Tasks : Writer(t)' => Writer(t) /\ (t = s => j.pc = "drop") BY <1>1 DEF Writer
<1>6. \A t \in Tasks : Writer(t) /\ t # s => Writer(t)' /\ job[t].put.prefix # job[s].put.prefix BY <1>1 DEF Writer, FilesInv, OwnPuts
<1>7. Listed' BY <1>2 DEF FilesInv, Listed
<1>8. OwnPrefix' BY <1>2 DEF FilesInv, OwnPrefix
<1>9. OwnPuts'
  <2> SUFFICES ASSUME NEW t \in Tasks, NEW u \in Tasks, Writer(t)', Writer(u)', job'[t].put.prefix = job'[u].put.prefix PROVE t = u
    BY DEF OwnPuts
  <2>1. job'[t].put = job[t].put /\ job'[u].put = job[u].put BY <1>1, <1>5
  <2>2. QED BY <1>5, <2>1 DEF FilesInv, OwnPuts
<1>10. Puts'
  <2> SUFFICES ASSUME NEW t \in Tasks, Writer(t)' PROVE PutNew(t)' /\ PutStored(t)' BY DEF Puts
  <2>1. CASE t = s
    <3>1. job'[s].pc = "drop" /\ job'[s].put = job[s].put /\ job'[s].kind = job[s].kind BY <1>1, <1>5, <2>1
    <3>2. PutNew(s)' BY <1>2, <1>3, <1>4, <3>1 DEF PutNew
    <3>3. PutStored(s)' BY <3>1 DEF PutStored
    <3>4. QED BY <2>1, <3>2, <3>3
  <2>2. CASE t # s
    <3>1. Writer(t) /\ job'[t] = job[t] /\ job[t].put.prefix # job[s].put.prefix BY <1>1, <1>5, <1>6, <2>2
    <3>2. PutNew(t) /\ PutStored(t) BY <3>1 DEF FilesInv, Puts
    <3>3. PutNew(t)' BY <1>2, <3>1, <3>2 DEF PutNew
    <3>4. \A n : <<job[t].put.prefix, n>> \notin PutChunks(s) BY <3>1, ChunkIs DEF PutChunks
    <3>5. PutStored(t)' BY <3>1, <3>2, <3>4 DEF PutStored
    <3>6. QED BY <3>3, <3>5
  <2>3. QED BY <2>1, <2>2
<1>11. Accounted'
  <2>1. \A t \in Tasks : Writer(t) => t = s \/ (Writer(t)' /\ PutChunks(t)' = PutChunks(t)) BY <1>1, <1>6 DEF PutChunks
  <2>2. QED BY <1>2, <2>1 DEF FilesInv, Accounted
<1>12. BytesExact' BY DEF FilesInv, BytesExact
<1>13. CapsHold' BY DEF FilesInv, CapsHold
<1>14. FilesReadable'
  <2>1. ASSUME NEW att \in Attached PROVE Held(att) \intersect PutChunks(s) = {}
    <3>1. ~att.missing => att.prefix # job[s].put.prefix BY <1>4
    <3>2. QED BY <3>1, ChunkIs DEF Held, PutChunks
  <2>2. QED BY <1>2, <2>1 DEF FilesInv, FilesReadable
<1>15. QED BY <1>7, <1>8, <1>9, <1>10, <1>11, <1>12, <1>13, <1>14 DEF FilesInv

\* An accepted commit: one file more, and what it weighs.
LEMMA CommitIs ==
    ASSUME Typed, FilesInv, NEW i \in Items, NEW att \in Attachment, Commit(i, att), CommitVerdict(i, att) = "ok",
           made' \in {made, made + 1}, att.id <= made', att.prefix <= made', \A a \in Attached : a.id # att.id
    PROVE  /\ Listed' /\ BytesExact' /\ CapsHold' /\ Attached' = Attached \union {att} /\ blob' = blob /\ record[i] # None
           /\ \A k \in Items : k # i => files'[k] = files[k]
<1> DEFINE new == WithFile(files, i, att)
<1>1. files \in Lists /\ Attached = Of(files) /\ Attached' = Of(files') /\ made \in Nat BY InLists DEF Typed, StoreTyped
<1>2. files' = new /\ bytes' = bytes + Weight(att) /\ blob' = blob BY DEF Commit, WithFile
<1>3. record[i] # None /\ ~(Len(files[i]) >= ItemMax) /\ ~(bytes + Weight(att) > EventMax) BY DEF CommitVerdict
<1>4. OnceIn(files) /\ \A a \in Attached : a.id <= made /\ a.prefix <= made BY DEF FilesInv, Listed
<1>5. /\ new \in Lists /\ Of(new) = Of(files) \union {att} /\ att \notin Of(files) /\ OnceIn(new)
      /\ Len(new[i]) = Len(files[i]) + 1 /\ \A k \in Items : k # i => new[k] = files[k]
  <2>1. \A a \in Of(files) : a.id # att.id BY <1>1
  <2>2. files \in Lists /\ OnceIn(files) BY <1>1, <1>4
  <2>3. Appends(files, i, att, new) BY <2>1, <2>2, AppendsIs, Zenon
  <2>4. QED BY <2>3 DEF Appends
<1> HIDE DEF new
<1>6. Attached' = Attached \union {att} BY <1>1, <1>2, <1>5
<1>7. Attached \subseteq Attachment /\ IsFiniteSet(Attached) BY AttachedIs DEF Typed
<1>8. \A a \in Attached : a.id \in Nat /\ a.prefix \in Nat BY <1>7 DEF Attachment
<1>9. Listed'
  <2>1. \A a \in Attached' : a.id <= made' /\ a.prefix <= made' BY <1>1, <1>4, <1>6, <1>8
  <2>2. QED BY <1>2, <1>5, <2>1 DEF Listed
<1>10. BytesExact'
  <2>1. bytes = Weights(Attached) BY ExactIs DEF FilesInv, Typed
  <2>2. Weights(Attached') = Weights(Attached) + Weight(att) BY <1>1, <1>5, <1>6, <1>7, WeightsGrow
  <2>3. QED BY <1>2, <2>1, <2>2, ExactIs DEF Typed
<1>11. CapsHold'
  <2>1. bytes' <= EventMax
    <3>1. bytes \in Int /\ Weight(att) \in Nat /\ EventMax \in Nat BY WeightIs, ContentAssumption DEF Typed, StoreTyped
    <3>2. QED BY <1>2, <1>3, <3>1
  <2>2. ASSUME NEW k \in Items PROVE Len(files'[k]) <= ItemMax
    <3>1. CASE k = i
      <4>1. Len(files[i]) \in Nat /\ ItemMax \in Nat BY <1>1, OfIs, ContentAssumption
      <4>2. QED BY <1>2, <1>3, <1>5, <3>1, <4>1
    <3>2. CASE k # i BY <1>2, <1>5, <3>2 DEF FilesInv, CapsHold
    <3>3. QED BY <3>1, <3>2
  <2>3. QED BY <2>1, <2>2 DEF CapsHold
<1>12. QED BY <1>2, <1>3, <1>5, <1>6, <1>9, <1>10, <1>11

\* An accepted fill: a missing file has its bytes.
LEMMA FillsIs ==
    ASSUME Typed, FilesInv, NEW att \in Attachment, NEW prefix \in Nat, att.missing, prefix <= made, made' = made,
           Fill(att, prefix), FillVerdict(att) = "ok"
    PROVE  /\ Listed' /\ BytesExact' /\ CapsHold' /\ Attached' = (Attached \ {att}) \union {Filled(att, prefix)}
           /\ att \in Attached /\ blob' = blob /\ \A i \in Items : IdsIn(files'[i]) = IdsIn(files[i])
           /\ Filled(att, prefix) \in Attachment /\ Filled(att, prefix).id = att.id /\ ~Filled(att, prefix).missing
           /\ Filled(att, prefix).prefix = prefix /\ Filled(att, prefix).content = att.content
<1> DEFINE new == Filled(att, prefix)
<1>1. files \in Lists /\ Attached = Of(files) /\ Attached' = Of(files') /\ made \in Nat BY InLists DEF Typed, StoreTyped
<1>2. att \in Attached /\ ~(bytes + Size[att.content] > EventMax) BY DEF FillVerdict
<1>3. new \in Attachment /\ new.id = att.id /\ new.content = att.content /\ ~new.missing /\ new.prefix = prefix
  BY FilledIs DEF Filled
<1>4. /\ files' \in [Items -> Seq(Attachment)]
      /\ \A i \in Items : /\ DOMAIN files'[i] = DOMAIN files[i] /\ Len(files'[i]) = Len(files[i])
                          /\ \A k \in DOMAIN files[i] : files'[i][k] = IF files[i][k] = att THEN new ELSE files[i][k]
      /\ bytes' = bytes + Size[att.content] /\ blob' = blob
  BY FillIs DEF Typed
<1>5. OnceIn(files) /\ \A a \in Attached : a.id <= made /\ a.prefix <= made BY DEF FilesInv, Listed
<1>6. new # att BY <1>3
<1> HIDE DEF new
<1>7. /\ Of(files') = (Of(files) \ {att}) \union {new} /\ new \notin Of(files) /\ OnceIn(files')
      /\ \A i \in Items : IdsIn(files'[i]) = IdsIn(files[i])
  <2>1. files' \in Lists BY <1>4 DEF Lists
  <2>2. QED BY <1>1, <1>2, <1>3, <1>4, <1>5, <1>6, <2>1, ReplacesIs
<1>8. Attached \subseteq Attachment /\ IsFiniteSet(Attached) BY AttachedIs DEF Typed
<1>9. Listed'
  <2>1. \A a \in Attached' : a.id <= made' /\ a.prefix <= made' BY <1>1, <1>2, <1>3, <1>5, <1>7
  <2>2. QED BY <1>7, <2>1 DEF Listed
<1>10. BytesExact'
  <2> DEFINE rest == Attached \ {att}
  <2>1. bytes = Weights(Attached) BY ExactIs DEF FilesInv, Typed
  <2>2. Weights(rest) = Weights(Attached) - Weight(att) /\ Weights(rest) \in Nat BY <1>2, <1>8, WeightsShrink
  <2>3. rest \subseteq Attachment /\ IsFiniteSet(rest) /\ new \notin rest BY <1>1, <1>7, <1>8, FS_RemoveElement
  <2>4. Weights(rest \union {new}) = Weights(rest) + Weight(new) BY <1>3, <2>3, WeightsGrow
  <2>5. Attached' = rest \union {new} BY <1>1, <1>7
  <2>6. Weight(att) = 0 /\ Weight(new) = Size[att.content] BY <1>3 DEF Weight
  <2>7. Weights(Attached) \in Nat /\ Size[att.content] \in Nat BY <1>8, WeightsNat, WeightIs
  <2> HIDE DEF rest
  <2>8. Weights(Attached') = bytes + Size[att.content] BY <2>1, <2>2, <2>4, <2>5, <2>6, <2>7
  <2>9. QED BY <1>4, <2>8, ExactIs DEF Typed
<1>11. CapsHold'
  <2>1. bytes' <= EventMax
    <3>1. bytes \in Int /\ Size[att.content] \in Nat /\ EventMax \in Nat BY WeightIs, ContentAssumption DEF Typed, StoreTyped
    <3>2. QED BY <1>2, <1>4, <3>1
  <2>2. QED BY <1>4, <2>1 DEF FilesInv, CapsHold
<1>12. QED BY <1>1, <1>2, <1>3, <1>4, <1>7, <1>9, <1>10, <1>11 DEF new

\* A writer's script: its file lands, or is refused.
LEMMA ScriptKeeps ==
    ASSUME Typed, FilesInv, NEW s \in Tasks, Written(s), Script(s), NEW j, Sets(s, j), j.pc # "chunks",
           j.pc = "drop" => j.kind = job[s].kind /\ j.put = job[s].put,
           j.pc = "drop" /\ Accepted(s) => doubt',
           UNCHANGED <<made, swept, broken>>, doubt => doubt'
    PROVE  FilesInv'
<1> DEFINE p == job[s].put
<1>1. Writer(s) /\ job[s].pc = "chunks" /\ p.n = Size[p.att.content] BY DEF Written, Busy, Writer
<1>2. p.att \in Attachment /\ p.prefix \in Nat BY <1>1, PuttingIs DEF Typed
<1>3. PutNew(s) BY <1>1 DEF FilesInv, Puts
<1>4. p.prefix <= made BY <1>3 DEF PutNew
<1>5. CASE job[s].kind = "upload" /\ Accepted(s)
  <2>1. FileFits(job[s]) BY <1>1, <1>5, AtPoint DEF Typed
  <2>2. job[s].ask \in Items /\ Commit(job[s].ask, p.att) /\ CommitVerdict(job[s].ask, p.att) = "ok"
    BY <1>5, <2>1 DEF FileFits, Script, Accepted
  <2>3. p.att.id = p.prefix /\ p.att.prefix = p.prefix /\ ~p.att.missing /\ \A a \in Attached : a.id # p.att.id
    BY <1>1, <1>3, <1>5 DEF PutNew
  <2>4. Listed' /\ BytesExact' /\ CapsHold' /\ Attached' = Attached \union {p.att} /\ blob' = blob
    BY <1>2, <1>4, <2>2, <2>3, CommitIs
  <2>5. doubt' \/ j.pc # "drop" BY <1>5
  <2>6. OwnPrefix' /\ OwnPuts' /\ Puts' /\ Accounted' /\ FilesReadable' BY <1>1, <1>2, <2>3, <2>4, <2>5, LandsFile
  <2>7. QED BY <2>4, <2>6 DEF FilesInv
<1>6. CASE job[s].kind # "upload" /\ Accepted(s)
  <2> DEFINE new == Filled(p.att, p.prefix)
  <2>1. Fill(p.att, p.prefix) /\ FillVerdict(p.att) = "ok" BY <1>6 DEF Script, Accepted
  <2>2. p.att.missing BY <1>3, <1>6 DEF PutNew
  <2>3. /\ Listed' /\ BytesExact' /\ CapsHold' /\ Attached' = (Attached \ {p.att}) \union {new}
        /\ p.att \in Attached /\ blob' = blob
        /\ new \in Attachment /\ new.id = p.att.id /\ ~new.missing /\ new.prefix = p.prefix /\ new.content = p.att.content
    BY <1>2, <1>4, <2>1, <2>2, FillsIs
  <2> HIDE DEF new
  <2>4. Held(p.att) = {} BY <2>2 DEF Held
  <2>5. doubt' \/ j.pc # "drop" BY <1>6
  <2>6. OwnPrefix' /\ OwnPuts' /\ Puts' /\ Accounted' /\ FilesReadable'
    <3>1. \A a \in Attached : a \in Attached' \/ Held(a) = {} BY <2>3, <2>4
    <3>2. \E a \in Attached : a.id = new.id BY <2>3
    <3>3. Attached' \subseteq Attached \union {new} /\ new \in Attached' BY <2>3
    <3>4. QED BY <1>1, <2>3, <2>5, <3>1, <3>2, <3>3, LandsFile
  <2>7. QED BY <2>3, <2>6 DEF FilesInv
<1>7. CASE ~Accepted(s)
  <2>1. blob' = blob \ PutChunks(s) /\ UNCHANGED <<files, bytes>>
    <3>1. CASE job[s].kind = "upload"
      <4>1. Commit(job[s].ask, p.att) /\ CommitVerdict(job[s].ask, p.att) # "ok" BY <1>7, <3>1 DEF Script, Accepted
      <4>2. ~p.att.missing /\ p.att.prefix = p.prefix BY <1>3, <3>1 DEF PutNew
      <4>3. QED BY <4>1, <4>2 DEF Commit, Held, PutChunks
    <3>2. CASE job[s].kind # "upload"
      <4>1. Fill(p.att, p.prefix) /\ FillVerdict(p.att) # "ok" BY <1>7, <3>2 DEF Script, Accepted
      <4>2. QED BY <4>1 DEF Fill, PutChunks
    <3>3. QED BY <3>1, <3>2
  <2>2. QED BY <1>1, <2>1, RefusedKeeps
<1>8. QED BY <1>5, <1>6, <1>7

\* A file without bytes is listed, or none: an import names a link, or a file it may bring later.
LEMMA NamedKeeps ==
    ASSUME Typed, FilesInv, NEW s \in Tasks, ~Writer(s), NEW j, Sets(s, j), j.pc \notin {"chunks", "drop"},
           made' = made + 1, UNCHANGED <<swept, doubt, broken>>, blob' = blob,
           NEW new \in Attachment, Held(new) = {}, new.id = made + 1, new.prefix = made + 1,
           Attached \subseteq Attached', Attached' \subseteq Attached \union {new}
    PROVE  OwnPrefix' /\ OwnPuts' /\ Puts' /\ Accounted' /\ FilesReadable'
<1>1. job'[s] = j /\ \A t \in Tasks : t # s => job'[t] = job[t] BY SetsIs
<1>2. made \in Nat BY DEF Typed, StoreTyped
<1>3. Attached \subseteq Attachment BY AttachedIs DEF Typed
<1>4. \A a \in Attached : a.id <= made /\ a.prefix <= made /\ a.id \in Nat /\ a.prefix \in Nat
  BY <1>3 DEF FilesInv, Listed, Attachment
<1>5. \A t \in Tasks : Writer(t)' => Writer(t) /\ job'[t] = job[t] BY <1>1 DEF Writer
<1>6. \A t \in Tasks : Writer(t) => Writer(t)' /\ job'[t] = job[t] BY <1>1 DEF Writer
<1>7. OwnPrefix'
  <2> SUFFICES ASSUME NEW a \in Attached', NEW b \in Attached', ~a.missing, ~b.missing, a.prefix = b.prefix PROVE a = b
    BY DEF OwnPrefix
  <2>1. a \in Attached \/ a = new OBVIOUS
  <2>2. b \in Attached \/ b = new OBVIOUS
  <2>3. \A c \in Attached : c.prefix # new.prefix BY <1>2, <1>4
  <2>4. QED BY <2>1, <2>2, <2>3 DEF FilesInv, OwnPrefix
<1>8. OwnPuts' BY <1>5 DEF FilesInv, OwnPuts
<1>9. Puts'
  <2> SUFFICES ASSUME NEW t \in Tasks, Writer(t)' PROVE PutNew(t)' /\ PutStored(t)' BY DEF Puts
  <2>1. PutNew(t) /\ PutStored(t) /\ job'[t] = job[t] /\ Writer(t) BY <1>5 DEF FilesInv, Puts
  <2>2. job[t].put.prefix \in Nat /\ job[t].put.prefix <= made BY <2>1, PuttingIs DEF Typed, PutNew
  <2>3. job[t].put.prefix # new.prefix /\ job[t].put.prefix <= made' BY <1>2, <2>2
  <2>4. job[t].kind = "upload" => job[t].put.att.id # new.id BY <1>2, <2>1, <2>2 DEF PutNew
  <2>5. \A a \in Attached' : ~a.missing /\ a.prefix = job[t].put.prefix => job[t].pc = "drop" /\ doubt' BY <2>1, <2>3 DEF PutNew
  <2>6. job[t].kind = "upload" => \A a \in Attached' : a.id = job[t].put.att.id => job[t].pc = "drop" BY <2>1, <2>4 DEF PutNew
  <2>7. PutNew(t)' BY <2>1, <2>3, <2>5, <2>6 DEF PutNew
  <2>8. PutStored(t)' BY <2>1 DEF PutStored
  <2>9. QED BY <2>7, <2>8
<1>10. Accounted' BY <1>6 DEF FilesInv, Accounted, PutChunks
<1>11. FilesReadable' BY DEF FilesInv, FilesReadable
<1>12. QED BY <1>7, <1>8, <1>9, <1>10, <1>11

LEMMA AttachNextKeeps == ASSUME Typed, FilesInv, NEW s \in Tasks, AttachNext(s) PROVE FilesInv'
<1>1. JobsTyped /\ StoreTyped /\ job[s].pc = "attach" /\ ~Writer(s) BY DEF Typed, AttachNext, Busy, Writer
<1>2. UNCHANGED <<swept, doubt, broken>> BY DEF AttachNext, FilesOnly
<1>3. CASE UNCHANGED <<store, made>> /\ \E todo, plan, failed, put, ask, kind : Sets(s, Job(kind, "find", ask, todo, plan, failed, put))
  <2>1. PICK todo, plan, failed, put, ask, kind : Sets(s, Job(kind, "find", ask, todo, plan, failed, put)) BY <1>3
  <2> DEFINE j == Job(kind, "find", ask, todo, plan, failed, put)
  <2>2. j.pc = "find" BY DEF Job
  <2>3. Sets(s, j) BY <2>1
  <2> HIDE DEF j
  <2>4. QED BY <1>1, <1>2, <1>3, <2>2, <2>3, StopsKeep
<1>4. CASE /\ job[s].plan # <<>> /\ Commit(Head(job[s].plan)[1], NewFile(Head(job[s].plan))) /\ made' = made + 1
           /\ \E j : Sets(s, j) /\ j.pc \notin {"chunks", "drop"}
  <2> DEFINE add == Head(job[s].plan)
             new == NewFile(add)
  <2>1. PICK j : Sets(s, j) /\ j.pc \notin {"chunks", "drop"} BY <1>4
  <2>2. add \in Items \X Contents
    <3>1. job[s].plan \in Seq(Items \X Contents) BY <1>1, AtPoint DEF ImportFits
    <3>2. QED BY <1>4, <3>1, TailIs
  <2>3. Commit(add[1], new) /\ made' = made + 1 BY <1>4
  <2> HIDE DEF add
  <2>4. /\ new \in Attachment /\ new.id = made + 1 /\ new.prefix = made + 1 /\ new.content = add[2]
        /\ (new.missing <=> add[2] # Link) /\ add[1] \in Items
    BY <1>1, <2>2, NewFileIs
  <2> HIDE DEF new
  <2>5. Held(new) = {}
    <3>1. CASE new.missing BY <3>1 DEF Held
    <3>2. CASE ~new.missing
      <4>1. new.content = Link BY <2>4, <3>2
      <4>2. Size[new.content] = 0 BY <4>1, ContentAssumption
      <4>3. QED BY <4>2 DEF Held, Chunks
    <3>3. QED BY <3>1, <3>2
  <2>6. made \in Nat /\ Attached \subseteq Attachment BY <1>1, AttachedIs DEF StoreTyped
  <2>7. \A a \in Attached : a.id <= made /\ a.prefix <= made /\ a.id \in Nat /\ a.prefix \in Nat
    BY <2>6 DEF FilesInv, Listed, Attachment
  <2>8. CASE CommitVerdict(add[1], new) = "ok"
    <3>1. Listed' /\ BytesExact' /\ CapsHold' /\ Attached' = Attached \union {new} /\ blob' = blob
      BY <2>3, <2>4, <2>6, <2>7, <2>8, CommitIs
    <3>2. OwnPrefix' /\ OwnPuts' /\ Puts' /\ Accounted' /\ FilesReadable'
      BY <1>1, <1>2, <2>1, <2>3, <2>4, <2>5, <3>1, NamedKeeps
    <3>3. QED BY <3>1, <3>2 DEF FilesInv
  <2>9. CASE CommitVerdict(add[1], new) # "ok"
    <3>1. blob' = blob /\ files' = files /\ bytes' = bytes BY <2>3, <2>5, <2>9 DEF Commit
    <3>2. Attached' = Attached BY <3>1 DEF Attached
    <3>3. OwnPrefix' /\ OwnPuts' /\ Puts' /\ Accounted' /\ FilesReadable'
      BY <1>1, <1>2, <2>1, <2>3, <2>4, <2>5, <3>1, <3>2, NamedKeeps
    <3>4. Listed' BY <2>3, <2>6, <2>7, <3>1, <3>2 DEF FilesInv, Listed
    <3>5. BytesExact' /\ CapsHold' BY <3>1 DEF FilesInv, BytesExact, CapsHold
    <3>6. QED BY <3>3, <3>4, <3>5 DEF FilesInv
  <2>10. QED BY <2>8, <2>9
<1>5. Free.pc \notin {"chunks", "drop"} BY DEF Free
<1>6. \A kind, ask, todo, plan, failed, put : Job(kind, job[s].pc, ask, todo, plan, failed, put).pc = job[s].pc BY DEF Job
<1>7. QED BY <1>1, <1>3, <1>4, <1>5, <1>6, AttachNextIs

\* A file is taken out, with its chunks and its weight.
LEMMA RemoveKeeps ==
    ASSUME Typed, FilesInv, NEW id, RemoveFile(id), UNCHANGED <<made, swept, doubt, broken>>,
           \A t \in Tasks : (Writer(t)' <=> Writer(t)) /\ (Writer(t) => job'[t] = job[t])
    PROVE  FilesInv'
<1> DEFINE gone == Dropped(id)
           new == [i \in Items |-> Without(files[i], gone)]
<1>1. files \in Lists /\ Attached = Of(files) /\ Attached' = Of(files') /\ bytes \in Int BY InLists DEF Typed, StoreTyped
<1>2. /\ files' = new /\ blob' = blob \ UNION {Held(att) : att \in gone} /\ bytes' = bytes - Weights(gone)
  BY DEF RemoveFile
<1>3. gone \subseteq Attachment /\ gone \subseteq Attached /\ IsFiniteSet(gone) BY DroppedIs DEF Typed
<1>4. OnceIn(files) /\ \A a \in Attached : a.id <= made /\ a.prefix <= made BY DEF FilesInv, Listed
<1>5. new \in Lists /\ Of(new) = Of(files) \ gone /\ OnceIn(new) /\ \A i \in Items : Len(new[i]) <= Len(files[i])
  BY <1>1, <1>4, WithoutsIs
<1> HIDE DEF new
<1>6. Attached' = Attached \ gone BY <1>1, <1>2, <1>5
<1>7. gone = {} \/ \E att \in Attached : gone = {att}
  <2>1. \A a, b \in gone : a = b BY <1>1, <1>4, SameId DEF Dropped
  <2>2. QED BY <1>3, <2>1
<1> HIDE DEF gone
<1>8. Attached \subseteq Attachment /\ IsFiniteSet(Attached) BY AttachedIs DEF Typed
<1>9. Listed' BY <1>2, <1>4, <1>5, <1>6 DEF Listed
<1>10. OwnPrefix' BY <1>6 DEF FilesInv, OwnPrefix
<1>11. OwnPuts' BY DEF FilesInv, OwnPuts
<1>12. Puts'
  <2> SUFFICES ASSUME NEW t \in Tasks, Writer(t)' PROVE PutNew(t)' /\ PutStored(t)' BY DEF Puts
  <2>1. PutNew(t) /\ PutStored(t) /\ job'[t] = job[t] /\ Writer(t) BY DEF FilesInv, Puts
  <2>2. PutNew(t)' BY <1>6, <2>1 DEF PutNew
  <2>3. ASSUME ~doubt, NEW a \in gone, NEW n PROVE <<job[t].put.prefix, n>> \notin Held(a)
    <3>1. ~a.missing => a.prefix # job[t].put.prefix BY <1>3, <2>1, <2>3 DEF PutNew
    <3>2. QED BY <3>1, ChunkIs DEF Held
  <2>4. PutStored(t)' BY <1>2, <2>1, <2>3 DEF PutStored
  <2>5. QED BY <2>2, <2>4
<1>13. Accounted'
  <2> SUFFICES ASSUME ~broken, NEW c \in blob'
               PROVE (\E att \in Attached' : c \in Held(att)) \/ \E t \in Tasks : Writer(t)' /\ c \in PutChunks(t)'
    BY DEF Accounted
  <2>1. c \in blob /\ \A a \in gone : c \notin Held(a) BY <1>2
  <2>2. (\E att \in Attached : c \in Held(att)) \/ \E t \in Tasks : Writer(t) /\ c \in PutChunks(t) BY <2>1 DEF FilesInv, Accounted
  <2>3. QED BY <1>6, <2>1, <2>2 DEF PutChunks
<1>14. Weights(gone) \in Nat /\ Weights(Attached) = Weights(Attached \ gone) + Weights(gone)
  <2>1. CASE gone = {}
    <3>1. Weights(gone) = 0 /\ Attached \ gone = Attached BY <2>1, WeightsOfNone
    <3>2. Weights(Attached) \in Nat BY <1>8, WeightsNat
    <3>3. QED BY <3>1, <3>2
  <2>2. ASSUME NEW att \in Attached, gone = {att} PROVE Weights(gone) \in Nat /\ Weights(Attached) = Weights(Attached \ gone) + Weights(gone)
    <3>1. att \in Attachment /\ IsFiniteSet({}) BY <1>8, FS_EmptySet
    <3>2. Weights({} \union {att}) = Weights({}) + Weight(att) BY <3>1, WeightsGrow
    <3>3. Weight(att) \in Nat BY <3>1, WeightIs
    <3>4. {} \union {att} = gone BY <2>2
    <3>5. Weights(gone) = Weight(att) BY <3>2, <3>3, <3>4, WeightsOfNone
    <3>6. Weights(Attached \ {att}) = Weights(Attached) - Weight(att) /\ Weights(Attached \ {att}) \in Nat
      BY <1>8, WeightsShrink
    <3>7. Weights(Attached) \in Nat BY <1>8, WeightsNat
    <3>8. QED BY <2>2, <3>3, <3>5, <3>6, <3>7
  <2>3. QED BY <1>7, <2>1, <2>2
<1>15. BytesExact'
  <2>1. bytes = Weights(Attached) BY ExactIs DEF FilesInv, Typed
  <2>2. Weights(Attached \ gone) \in Nat
    <3>1. IsFiniteSet(Attached \ gone) /\ Attached \ gone \subseteq Attachment BY <1>8, FS_Subset
    <3>2. QED BY <3>1, WeightsNat
  <2>3. bytes' = Weights(Attached') BY <1>2, <1>6, <1>14, <2>1, <2>2
  <2>4. QED BY <2>3, ExactIs DEF Typed
<1>16. CapsHold'
  <2>1. bytes' <= EventMax
    <3>1. EventMax \in Nat BY ContentAssumption
    <3>2. bytes <= EventMax BY DEF FilesInv, CapsHold
    <3>3. QED BY <1>1, <1>2, <1>14, <3>1, <3>2
  <2>2. ASSUME NEW i \in Items PROVE Len(files'[i]) <= ItemMax
    <3>1. Len(files[i]) <= ItemMax /\ Len(new[i]) <= Len(files[i]) BY <1>5 DEF FilesInv, CapsHold
    <3>2. Len(files[i]) \in Nat /\ Len(new[i]) \in Nat /\ ItemMax \in Nat BY <1>1, <1>5, OfIs, ContentAssumption
    <3>3. QED BY <1>2, <3>1, <3>2
  <2>3. QED BY <2>1, <2>2 DEF CapsHold
<1>17. FilesReadable'
  <2>1. ASSUME NEW a \in Attached', NEW d \in gone PROVE Held(a) \intersect Held(d) = {}
    <3>1. a \in Attached /\ d \in Attached /\ a # d BY <1>3, <1>6, <2>1
    <3>2. a.missing \/ d.missing \/ a.prefix # d.prefix BY <3>1 DEF FilesInv, OwnPrefix
    <3>3. QED BY <3>2, ChunkIs DEF Held
  <2>2. ASSUME ~swept, ~doubt, NEW a \in Attached' PROVE Held(a) \subseteq blob'
    <3>1. Held(a) \subseteq blob BY <1>6, <2>2 DEF FilesInv, FilesReadable
    <3>2. QED BY <1>2, <2>1, <3>1
  <2>3. QED BY <2>2 DEF FilesReadable
<1>18. QED BY <1>9, <1>10, <1>11, <1>12, <1>13, <1>15, <1>16, <1>17 DEF FilesInv

\* Everything is cleared: a request that is writing a file loses the chunks it wrote.
LEMMA ClearFilesKeeps == ASSUME Typed, FilesInv, NEW s \in Tasks, ClearFiles(s) PROVE FilesInv'
<1>1. JobsTyped /\ ~Writer(s) BY DEF Typed, ClearFiles, Busy, Writer
<1>2. PICK j : Sets(s, j) /\ j.pc = "read"
  <2> DEFINE j == Job(job[s].kind, "read", job[s].ask, job[s].todo, job[s].plan, job[s].failed, job[s].put)
  <2>1. Sets(s, j) BY <1>1, ClearFilesIs
  <2>2. j.pc = "read" BY DEF Job
  <2>3. QED BY <2>1, <2>2
<1>3. job'[s] = j /\ \A t \in Tasks : t # s => job'[t] = job[t] BY <1>2, SetsIs
<1>4. /\ files' = [i \in Items |-> <<>>] /\ blob' = {} /\ bytes' = 0
      /\ swept' = (swept \/ \E t \in Tasks : job[t].pc = "chunks") /\ UNCHANGED <<made, doubt, broken>>
  BY DEF ClearFiles, FilesOnly
<1>5. files' \in Lists /\ \A i \in Items : files'[i] = <<>>
  <2>1. files' \in [Items -> Seq(Attachment)] BY <1>4, EmptyIs
  <2>2. QED BY <1>4, <2>1 DEF Lists
<1>6. \A i \in Items : DOMAIN files'[i] = {} /\ Len(files'[i]) = 0 BY <1>5
<1>7. Attached' = {}
  <2>1. Attached' = Of(files') BY InLists DEF Typed
  <2>2. QED BY <1>5, <1>6, <2>1, OfIs
<1>8. \A t \in Tasks : Writer(t)' => Writer(t) /\ job'[t] = job[t] BY <1>1, <1>2, <1>3 DEF Writer
<1>9. Listed' BY <1>6, <1>7 DEF Listed, OnceIn
<1>10. OwnPrefix' BY <1>7 DEF OwnPrefix
<1>11. OwnPuts' BY <1>8 DEF FilesInv, OwnPuts
<1>12. Puts'
  <2> SUFFICES ASSUME NEW t \in Tasks, Writer(t)' PROVE PutNew(t)' /\ PutStored(t)' BY DEF Puts
  <2>1. PutNew(t) /\ job'[t] = job[t] /\ Writer(t) BY <1>8 DEF FilesInv, Puts
  <2>2. PutNew(t)' BY <1>4, <1>7, <2>1 DEF PutNew
  <2>3. job[t].pc = "drop" \/ swept' BY <1>4, <2>1 DEF Writer
  <2>4. PutStored(t)' BY <2>1, <2>3 DEF PutStored
  <2>5. QED BY <2>2, <2>4
<1>13. Accounted' BY <1>4 DEF Accounted
<1>14. BytesExact' BY <1>4, <1>7, ExactIs, WeightsOfNone DEF Typed
<1>15. CapsHold'
  <2>1. EventMax \in Nat /\ ItemMax \in Nat BY ContentAssumption
  <2>2. QED BY <1>4, <1>6, <2>1 DEF CapsHold
<1>16. FilesReadable' BY <1>7 DEF FilesReadable
<1>17. QED BY <1>9, <1>10, <1>11, <1>12, <1>13, <1>14, <1>15, <1>16 DEF FilesInv

-----------------------------------------------------------------------------
\* Where a request goes: it ends, or it keeps its fault, its kind and what it was asked.
Follows(s, j) ==
    /\ Sets(s, j)
    /\ \/ j = Free
       \/ ~j.failed
       \/ job[s] # Free /\ j.failed = job[s].failed /\ j.kind = job[s].kind /\ (j.ask = job[s].ask \/ j.kind = "export")
Plain(s) == \E j : Follows(s, j) /\ j.pc \notin {"chunks", "drop"}
Begun(s, kind, pc) == \E ask, todo, plan, put : Sets(s, Job(kind, pc, ask, todo, plan, FALSE, put))
On(s, pc) == job[s].pc # "free" /\ \E todo, plan, put : Sets(s, Job(job[s].kind, pc, job[s].ask, todo, plan, job[s].failed, put))

LEMMA PlainEnd == ASSUME NEW s, Sets(s, Free) PROVE Plain(s)
<1>1. Free.pc \notin {"chunks", "drop"} BY DEF Free
<1>2. QED BY <1>1 DEF Plain, Follows

LEMMA PlainNew == ASSUME NEW s, NEW kind, NEW pc, pc \notin {"chunks", "drop"},
                         Begun(s, kind, pc)
                  PROVE Plain(s)
<1>0. PICK ask, todo, plan, put : Sets(s, Job(kind, pc, ask, todo, plan, FALSE, put)) BY DEF Begun
<1> DEFINE j == Job(kind, pc, ask, todo, plan, FALSE, put)
<1>3. \A f : Job(kind, pc, ask, todo, plan, f, put).failed = f BY DEF Job
<1>4. j.failed = FALSE BY <1>3, Zenon
<1>5. j.pc = pc BY DEF Job
<1>1. j.pc = pc /\ j.failed = FALSE BY <1>4, <1>5
<1>2. Sets(s, j) BY <1>0
<1> HIDE DEF j
<1>6. QED BY <1>1, <1>2 DEF Plain, Follows

LEMMA PlainExport == ASSUME NEW s, NEW pc, NEW ask, NEW todo, NEW plan, NEW put,
                        Sets(s, Job(job[s].kind, pc, ask, todo, plan, job[s].failed, put)),
                        ask = job[s].ask \/ job[s].kind = "export", job[s] # Free, pc \notin {"chunks", "drop"}
                 PROVE Plain(s)
<1> DEFINE j == Job(job[s].kind, pc, ask, todo, plan, job[s].failed, put)
<1>1. j.pc = pc /\ j.failed = job[s].failed /\ j.kind = job[s].kind /\ j.ask = ask BY DEF Job
<1>2. Sets(s, j) OBVIOUS
<1> HIDE DEF j
<1>3. QED BY <1>1, <1>2 DEF Plain, Follows

LEMMA PlainOn == ASSUME NEW s, NEW pc, pc \notin {"chunks", "drop"}, On(s, pc) PROVE Plain(s)
<1>1. PICK todo, plan, put : Sets(s, Job(job[s].kind, pc, job[s].ask, todo, plan, job[s].failed, put)) BY DEF On
<1>0. job[s] # Free BY DEF On, Free
<1> DEFINE j == Job(job[s].kind, pc, job[s].ask, todo, plan, job[s].failed, put)
<1>2. j.pc = pc /\ j.failed = job[s].failed /\ j.kind = job[s].kind /\ j.ask = job[s].ask BY DEF Job
<1>3. Sets(s, j) BY <1>1
<1> HIDE DEF j
<1>4. QED BY <1>0, <1>2, <1>3 DEF Plain, Follows

\* The steps that leave the files and their writers alone.
Quiet(s) == UNCHANGED store /\ UNCHANGED <<made, swept, doubt>> /\ (broken => broken') /\ (half \subseteq half')

LEMMA BeginsQuiet == ASSUME NEW s \in Tasks, NEW kind, Begins(s, kind) PROVE Quiet(s) /\ ~Writer(s) /\ UNCHANGED <<broken, board>>
BY DEF Begins, Quiet, BoardOnly, Writer, Free

LEMMA ListPlain == ASSUME Typed, NEW s \in Tasks, ListStep(s) PROVE Quiet(s) /\ ~Writer(s) /\ Plain(s)
<1>0. JobsTyped BY DEF Typed
<1>1. CASE LoadPanel(s)
  <2>1. Begins(s, "list") BY <1>1 DEF LoadPanel
  <2>2. Begun(s, "list", "panel") BY <1>0, <1>1, LoadPanelIs, Zenon DEF Begun
  <2>3. QED BY <2>1, <2>2, BeginsQuiet, PlainNew
<1>2. ASSUME NEW added, NEW removed, SetCategories(s, added, removed) PROVE Quiet(s) /\ ~Writer(s) /\ Plain(s)
  <2>1. Quiet(s) /\ ~Writer(s) BY <1>2 DEF SetCategories, Quiet, BoardOnly, Writer, Busy
  <2>2. QED BY <1>0, <1>2, <2>1, SetCategoriesIs, PlainEnd
<1>3. ASSUME NEW from, NEW to, RenameCategory(s, from, to) PROVE Quiet(s) /\ ~Writer(s) /\ Plain(s)
  <2>1. Begins(s, "rename") BY <1>3 DEF RenameCategory
  <2>2. Begun(s, "rename", "moving") BY <1>0, <1>3, RenameIs, Zenon DEF Begun
  <2>3. QED BY <2>1, <2>2, BeginsQuiet, PlainNew
<1>4. CASE MoveChallenges(s)
  <2>1. Quiet(s) /\ ~Writer(s) BY <1>4 DEF MoveChallenges, Quiet, BoardOnly, Writer, Busy
  <2>2. On(s, "moved") BY <1>0, <1>4, MoveChallengesIs DEF On, MoveChallenges, Busy
  <2>3. QED BY <2>1, <2>2, PlainOn
<1>5. CASE WriteList(s)
  <2>1. Quiet(s) /\ ~Writer(s) BY <1>5 DEF WriteList, Quiet, BoardOnly, Writer, Busy
  <2>2. QED BY <1>0, <1>5, <2>1, WriteListIs, PlainEnd
<1>6. QED BY <1>1, <1>2, <1>3, <1>4, <1>5 DEF ListStep

LEMMA ChallengePlain ==
    ASSUME Typed, NEW s \in Tasks, ChallengeStep(s)
    PROVE  /\ Plain(s) /\ ~Writer(s)
           /\ Quiet(s) \/ /\ job[s].pc = "remove" /\ job[s].plan # <<>> /\ RemoveFile(Head(job[s].plan))
                          /\ UNCHANGED <<made, swept, doubt, broken, half>>
<1> DEFINE P == Plain(s) /\ ~Writer(s)
<1>0. JobsTyped BY DEF Typed
<1>1. ASSUME NEW i, NEW n, NEW t, Save(s, i, n, t) PROVE P /\ Quiet(s)
  <2>1. Begins(s, "save") BY <1>1 DEF Save
  <2>2. Begun(s, "save", "saved") BY <1>0, <1>1, SaveIs, Zenon DEF Begun
  <2>3. QED BY <2>1, <2>2, BeginsQuiet, PlainNew
<1>2. ASSUME NEW i, Delete(s, i) PROVE P /\ Quiet(s)
  <2>1. Begins(s, "delete") BY <1>2 DEF Delete
  <2>2. Begun(s, "delete", "deleted") BY <1>0, <1>2, DeleteIs, Zenon DEF Begun
  <2>3. QED BY <2>1, <2>2, BeginsQuiet, PlainNew
<1>3. CASE ReadStories(s)
  <2>1. Quiet(s) /\ ~Writer(s) BY <1>3 DEF ReadStories, Quiet, BoardOnly, Writer, Busy
  <2>2. On(s, "shrunk") BY <1>0, <1>3, ReadStoriesIs DEF On, ReadStories, Busy
  <2>3. QED BY <2>1, <2>2, PlainOn
<1>4. CASE ListFiles(s)
  <2>1. Quiet(s) /\ ~Writer(s) BY <1>4 DEF ListFiles, Quiet, BoardOnly, Writer, Busy
  <2>2. On(s, "remove") BY <1>0, <1>4, ListFilesIs DEF On, ListFiles, Busy
  <2>3. QED BY <2>1, <2>2, PlainOn
<1>5. CASE RemoveNext(s)
  <2>1. job[s].pc = "remove" /\ ~Writer(s) /\ UNCHANGED <<made, swept, doubt, broken, half>>
    BY <1>5 DEF RemoveNext, FilesOnly, Busy, Writer
  <2>2. CASE Sets(s, Free) /\ UNCHANGED store
    <3>1. Quiet(s) BY <2>1, <2>2 DEF Quiet
    <3>2. QED BY <2>1, <2>2, <3>1, PlainEnd
  <2>3. CASE /\ job[s].plan # <<>> /\ RemoveFile(Head(job[s].plan))
             /\ Sets(s, Job(job[s].kind, job[s].pc, job[s].ask, job[s].todo, Tail(job[s].plan), job[s].failed, job[s].put))
    <3>0. On(s, job[s].pc) BY <2>1, <2>3 DEF On
    <3>1. P BY <2>1, <3>0, PlainOn
    <3>2. QED BY <2>1, <2>3, <3>1
  <2>4. QED BY <1>0, <1>5, <2>2, <2>3, RemoveNextIs
<1>6. ASSUME NEW all, CheckSteps(s, all) PROVE P /\ Quiet(s)
  <2>1. Begins(s, "stories") BY <1>6 DEF CheckSteps
  <2>2. Begun(s, "stories", "told") BY <1>0, <1>6, CheckStepsIs, Zenon DEF Begun
  <2>3. QED BY <2>1, <2>2, BeginsQuiet, PlainNew
<1>7. QED BY <1>1, <1>2, <1>3, <1>4, <1>5, <1>6 DEF ChallengeStep

\* An import that clears, attaches or fills apart.
LEMMA ImportPlain ==
    ASSUME Typed, NEW s \in Tasks, ImportStep(s)
    PROVE  (Quiet(s) /\ ~Writer(s) /\ Plain(s)) \/ ClearFiles(s) \/ AttachNext(s) \/ FindNext(s)
<1>0. JobsTyped BY DEF Typed
<1>1. ASSUME NEW b, Import(s, b) PROVE Quiet(s) /\ ~Writer(s) /\ Plain(s)
  <2>1. Begins(s, "import") BY <1>1 DEF Import
  <2>2. Begun(s, "import", "read") BY <1>0, <1>1, ImportIs, Zenon DEF Begun
  <2>3. QED BY <2>1, <2>2, BeginsQuiet, PlainNew
<1>2. ASSUME NEW b, Replace(s, b) PROVE Quiet(s) /\ ~Writer(s) /\ Plain(s)
  <2>1. Begins(s, "replace") BY <1>2 DEF Replace
  <2>2. Begun(s, "replace", "clear") BY <1>0, <1>2, ReplaceIs, Zenon DEF Begun
  <2>3. QED BY <2>1, <2>2, BeginsQuiet, PlainNew
<1>3. CASE ReadBoard(s)
  <2>1. Quiet(s) /\ ~Writer(s) BY <1>3 DEF ReadBoard, Quiet, BoardOnly, Writer, Busy
  <2>2. On(s, "plan") \/ Sets(s, Free) BY <1>0, <1>3, ReadBoardIs DEF On, ReadBoard, Busy
  <2>3. QED BY <2>1, <2>2, PlainOn, PlainEnd
<1>4. CASE PlanFiles(s)
  <2>1. Quiet(s) /\ ~Writer(s) BY <1>4 DEF PlanFiles, Quiet, BoardOnly, Writer, Busy
  <2>2. On(s, "attach") \/ Sets(s, Free) BY <1>0, <1>4, PlanFilesIs, Zenon DEF On, PlanFiles, Busy
  <2>3. QED BY <2>1, <2>2, PlainOn, PlainEnd
<1>5. QED BY <1>1, <1>2, <1>3, <1>4 DEF ImportStep

LEMMA ExportPlain == ASSUME Typed, NEW s \in Tasks, ExportStep(s) PROVE Quiet(s) /\ ~Writer(s) /\ Plain(s)
<1>0. JobsTyped BY DEF Typed
<1>1. CASE Export(s)
  <2>1. Begins(s, "export") BY <1>1 DEF Export
  <2>2. Begun(s, "export", "reading") BY <1>0, <1>1, ExportIs, Zenon DEF Begun
  <2>3. QED BY <2>1, <2>2, BeginsQuiet, PlainNew
<1>2. ASSUME NEW part, ExportRead(s, part) PROVE Quiet(s) /\ ~Writer(s) /\ Plain(s)
  <2>1. Quiet(s) /\ ~Writer(s) /\ job[s].pc = "reading" /\ job[s] # Free BY <1>2 DEF ExportRead, Quiet, BoardOnly, Writer, Busy, Free
  <2>2. job[s].kind = "export" BY <1>0, <2>1, AtPoint DEF ExportFits
  <2>3. Sets(s, Job(job[s].kind, job[s].pc, job[s].ask \ {part}, job[s].todo, Reads(job[s].plan, part), job[s].failed, job[s].put))
    BY <1>0, <1>2, ExportReadIs
  <2>4. Plain(s) BY <2>1, <2>2, <2>3, PlainExport
  <2>5. QED BY <2>1, <2>4
<1>3. CASE ExportDone(s)
  <2>1. Quiet(s) /\ ~Writer(s) BY <1>3 DEF ExportDone, Quiet, Writer, Busy
  <2>2. QED BY <1>0, <1>3, <2>1, ExportDoneIs, PlainEnd
<1>4. QED BY <1>1, <1>2, <1>3 DEF ExportStep

LEMMA ExportUnreadPlain == ASSUME Typed, NEW s \in Tasks, NEW part, ExportUnread(s, part) PROVE Quiet(s) /\ ~Writer(s) /\ Plain(s)
<1>0. JobsTyped BY DEF Typed
<1>1. Quiet(s) /\ ~Writer(s) /\ job[s].pc = "reading" /\ job[s] # Free BY DEF ExportUnread, Quiet, BoardOnly, Writer, Busy, Free
<1>2. job[s].kind = "export" BY <1>0, <1>1, AtPoint DEF ExportFits
<1>3. Sets(s, Job(job[s].kind, job[s].pc, job[s].ask \ {part}, job[s].todo, Skips(job[s].plan), job[s].failed, job[s].put))
  BY <1>0, ExportUnreadIs
<1>4. Plain(s) BY <1>1, <1>2, <1>3, PlainExport
<1>5. QED BY <1>1, <1>4

\* A writer has no command left.
LEMMA WriterIdle == ASSUME Typed, NEW s \in Tasks, Writer(s) PROVE job[s].todo = <<>> /\ job[s] # Free
BY AtPoint DEF Typed, Writer, ImportFits, FileFits, Free

LEMMA RunPlain == ASSUME Typed, NEW s \in Tasks, RunCommand(s) PROVE Quiet(s) /\ ~Writer(s) /\ Plain(s)
<1>1. Quiet(s) /\ ~Writer(s) BY WriterIdle DEF RunCommand, Quiet, BoardOnly
<1>2. On(s, job[s].pc) BY RunCommandIs, AtWork DEF On, Typed, RunCommand
<1>3. QED BY <1>1, <1>2, PlainOn DEF Writer

LEMMA BreaksQuiet == ASSUME NEW s \in Tasks, Breaks(s) PROVE Quiet(s) /\ broken'
BY DEF Breaks, Quiet

\* A request some command of which failed was broken by a fault, and what it may leave is told.
Blamed == \A s \in Tasks : job[s] # Free /\ job[s].failed => broken /\ Unsettled(job[s]) \subseteq half

LEMMA FollowsBlamed == ASSUME Blamed, NEW s \in Tasks, NEW j, Follows(s, j),
                              broken => broken', half \subseteq half'
                       PROVE Blamed'
<1>1. job'[s] = j /\ \A t \in Tasks : t # s => job'[t] = job[t] BY SetsIs DEF Follows
<1>2. ASSUME NEW t \in Tasks, job'[t] # Free, job'[t].failed PROVE broken' /\ Unsettled(job'[t]) \subseteq half'
  <2>1. CASE t # s BY <1>1, <1>2, <2>1 DEF Blamed
  <2>2. CASE t = s
    <3>1. job[s].failed /\ j.kind = job[s].kind /\ (j.ask = job[s].ask \/ j.kind = "export") /\ job[s] # Free
      BY <1>1, <1>2, <2>2 DEF Follows
    <3>2. broken /\ Unsettled(job[s]) \subseteq half BY <3>1 DEF Blamed
    <3>3. Unsettled(j) = Unsettled(job[s])
      <4>1. CASE j.ask = job[s].ask BY <3>1, <4>1 DEF Unsettled
      <4>2. CASE j.kind = "export" BY <3>1, <4>2 DEF Unsettled
      <4>3. QED BY <3>1, <4>1, <4>2
    <3>4. QED BY <1>1, <2>2, <3>2, <3>3
  <2>3. QED BY <2>1, <2>2
<1>4. \A t \in Tasks : Unsettled(job'[t]) = Unsettled(job[t])' BY DEF Unsettled
<1>5. QED BY <1>2, <1>4 DEF Blamed


LEMMA PlainBlamed == ASSUME Blamed, NEW s \in Tasks, Plain(s), Quiet(s) PROVE Blamed'
BY FollowsBlamed DEF Plain, Quiet

LEMMA PlainFiles == ASSUME Typed, FilesInv, NEW s \in Tasks, Plain(s), Quiet(s), Writer(s) => broken' PROVE FilesInv'
BY StopsKeep DEF Plain, Quiet, Follows

\* A request starts to write a file.
LEMMA UploadKeeps == ASSUME Typed, FilesInv, NEW s \in Tasks, NEW i \in Items, NEW c \in Contents, Upload(s, i, c) PROVE FilesInv'
<1> DEFINE att == Fresh(c)
           put == [att |-> att, prefix |-> made + 1, n |-> 0]
           j == Job("upload", "chunks", i, <<>>, <<>>, FALSE, put)
<1>1. Sets(s, j) BY UploadIs DEF Typed
<1>2. ~Writer(s) /\ UNCHANGED store /\ UNCHANGED <<swept, doubt, broken>> /\ made' = made + 1
  BY DEF Upload, FilesOnly, Writer, Free
<1>3. j.pc = "chunks" /\ j.put = put BY DEF Job
<1>4. put.prefix = made + 1 /\ put.n = 0 /\ put.att = att OBVIOUS
<1>5. att.id = made + 1 /\ att.prefix = made + 1 /\ att.missing = FALSE
  <2>1. \A f : [id |-> made + 1, content |-> c, missing |-> f, prefix |-> made + 1].missing = f OBVIOUS
  <2>2. att.missing = FALSE BY <2>1, Zenon DEF Fresh
  <2>3. QED BY <2>2 DEF Fresh
<1>6. j.kind = "upload" BY DEF Job
<1> HIDE DEF att, put, j
<1>7. QED BY <1>1, <1>2, <1>3, <1>4, <1>5, <1>6, StartsKeep

\* A missing file is written under a prefix of its own.
LEMMA FillStarts == ASSUME Typed, FilesInv, NEW s \in Tasks, ~Writer(s), NEW kind, NEW ask, NEW todo, NEW plan, NEW failed, NEW att,
                           att.missing, Sets(s, Job(kind, "chunks", ask, todo, plan, failed, Writing(att))), kind # "upload",
                           UNCHANGED store, UNCHANGED <<swept, doubt, broken>>, made' = made + 1
                    PROVE FilesInv'
<1> DEFINE put == Writing(att)
           j == Job(kind, "chunks", ask, todo, plan, failed, put)
<1>1. Sets(s, j) OBVIOUS
<1>2. j.pc = "chunks" /\ j.put = put /\ j.kind = kind BY DEF Job
<1>3. put.prefix = made + 1 /\ put.n = 0 /\ put.att = att BY DEF Writing, FreshPrefix
<1> HIDE DEF put, j
<1>4. QED BY <1>1, <1>2, <1>3, StartsKeep

LEMMA RefillKeeps == ASSUME Typed, FilesInv, NEW s \in Tasks, NEW i \in Items, NEW c \in Digests, Refill(s, i, c) PROVE FilesInv'
<1>1. PICK att \in Missing(i, c) : Sets(s, Job("refill", "chunks", i, <<>>, <<>>, FALSE, Writing(att))) BY RefillIs DEF Typed
<1>2. ~Writer(s) /\ UNCHANGED store /\ UNCHANGED <<swept, doubt, broken>> /\ made' = made + 1
  BY DEF Refill, FilesOnly, Writer, Free
<1>3. att.missing BY DEF Missing
<1>4. \A e, f : Sets(s, Job("refill", "chunks", i, e, e, f, Writing(att))) => FilesInv' BY <1>2, <1>3, FillStarts
<1>5. QED BY <1>1, <1>4, Zenon

LEMMA FindNextKeeps == ASSUME Typed, FilesInv, NEW s \in Tasks, FindNext(s) PROVE FilesInv'
<1>1. JobsTyped /\ ~Writer(s) /\ UNCHANGED store /\ UNCHANGED <<swept, doubt, broken, half>> /\ job[s].pc = "find"
  BY DEF FindNext, FilesOnly, Writer, Busy, Typed
<1>2. CASE Sets(s, Free) /\ UNCHANGED made
  <2>1. Quiet(s) /\ Plain(s) BY <1>1, <1>2, PlainEnd DEF Quiet
  <2>2. QED BY <1>1, <2>1, PlainFiles
<1>3. CASE /\ UNCHANGED made
           /\ Sets(s, Job(job[s].kind, job[s].pc, job[s].ask, job[s].todo, Tail(job[s].plan), job[s].failed, job[s].put))
  <2>1. On(s, job[s].pc) BY <1>1, <1>3 DEF On
  <2>2. Quiet(s) /\ Plain(s) BY <1>1, <1>3, <2>1, PlainOn DEF Quiet
  <2>3. QED BY <1>1, <2>2, PlainFiles
<1>4. ASSUME NEW att \in Missing(Head(job[s].plan)[1], Head(job[s].plan)[2]), made' = made + 1,
             Sets(s, Job(job[s].kind, "chunks", job[s].ask, job[s].todo, Tail(job[s].plan), job[s].failed, Writing(att)))
      PROVE FilesInv'
  <2>1. att.missing BY DEF Missing
  <2>2. job[s].kind # "upload" BY <1>1, AtPoint DEF ImportFits
  <2>3. QED BY <1>1, <1>4, <2>1, <2>2, FillStarts
<1>5. QED BY <1>1, <1>2, <1>3, <1>4, FindNextIs

LEMMA FinishKeeps == ASSUME Typed, FilesInv, NEW s \in Tasks, Finish(s) PROVE FilesInv'
<1>1. JobsTyped /\ Written(s) /\ Script(s) /\ UNCHANGED <<made, swept, broken, doubt>> BY DEF Finish, FilesOnly, Typed
<1>2. \E j : Sets(s, j) /\ j.pc \notin {"chunks", "drop"}
  <2>1. Free.pc = "free" BY DEF Free
  <2>2. \A kind, ask, todo, plan, failed, put : Job(kind, "find", ask, todo, plan, failed, put).pc = "find" BY DEF Job
  <2>3. QED BY <1>1, <2>1, <2>2, FinishIs
<1>3. QED BY <1>1, <1>2, ScriptKeeps

LEMMA UnheardKeeps == ASSUME Typed, FilesInv, NEW s \in Tasks, FinishUnheard(s) PROVE FilesInv'
<1> DEFINE j == Job(job[s].kind, "drop", job[s].ask, job[s].todo, job[s].plan, job[s].failed, job[s].put)
<1>1. /\ JobsTyped /\ Written(s) /\ Script(s) /\ UNCHANGED <<made, swept, broken>> /\ (doubt => doubt')
      /\ (Accepted(s) => doubt')
  BY DEF FinishUnheard, Typed
<1>2. Sets(s, j) BY <1>1, DropsIs
<1>3. j.pc = "drop" /\ j.kind = job[s].kind /\ j.put = job[s].put BY DEF Job
<1> HIDE DEF j
<1>4. QED BY <1>1, <1>2, <1>3, ScriptKeeps

\* A request ends, begins or goes on.
LEMMA MovesOnBlamed ==
    ASSUME Blamed, NEW s \in Tasks, broken => broken', half \subseteq half',
           Sets(s, Free) \/ (\E kind, pc : Begun(s, kind, pc)) \/ \E pc : On(s, pc)
    PROVE  Blamed'
<1>1. ASSUME Sets(s, Free) PROVE \E j : Follows(s, j) BY <1>1 DEF Follows
<1>2. ASSUME NEW kind, NEW pc, Begun(s, kind, pc) PROVE \E j : Follows(s, j)
  <2>1. PICK ask, todo, plan, put : Sets(s, Job(kind, pc, ask, todo, plan, FALSE, put)) BY <1>2 DEF Begun
  <2> DEFINE j == Job(kind, pc, ask, todo, plan, FALSE, put)
  <2>2. \A f : Job(kind, pc, ask, todo, plan, f, put).failed = f BY DEF Job
  <2>3. j.failed = FALSE BY <2>2, Zenon
  <2>4. Sets(s, j) BY <2>1
  <2> HIDE DEF j
  <2>5. QED BY <2>3, <2>4 DEF Follows
<1>3. ASSUME NEW pc, On(s, pc) PROVE \E j : Follows(s, j)
  <2>1. PICK todo, plan, put : Sets(s, Job(job[s].kind, pc, job[s].ask, todo, plan, job[s].failed, put)) BY <1>3 DEF On
  <2>2. job[s] # Free BY <1>3 DEF On, Free
  <2> DEFINE j == Job(job[s].kind, pc, job[s].ask, todo, plan, job[s].failed, put)
  <2>3. j.failed = job[s].failed /\ j.kind = job[s].kind /\ j.ask = job[s].ask BY DEF Job
  <2>4. Sets(s, j) BY <2>1
  <2> HIDE DEF j
  <2>5. QED BY <2>2, <2>3, <2>4 DEF Follows
<1>4. QED BY <1>1, <1>2, <1>3, FollowsBlamed

LEMMA ImportBlamed == ASSUME Typed, Blamed, NEW s \in Tasks, ImportStep(s) PROVE Blamed'
<1>0. JobsTyped BY DEF Typed
<1>1. CASE Quiet(s) /\ Plain(s) BY <1>1, PlainBlamed
<1>2. CASE ClearFiles(s)
  <2>1. On(s, "read") BY <1>0, <1>2, ClearFilesIs DEF On, ClearFiles, Busy
  <2>2. broken' = broken /\ half' = half BY <1>2 DEF ClearFiles, FilesOnly
  <2>3. QED BY <2>1, <2>2, MovesOnBlamed
<1>3. CASE AttachNext(s)
  <2>1. job[s].pc = "attach" /\ broken' = broken /\ half' = half BY <1>3 DEF AttachNext, FilesOnly, Busy
  <2>2. Sets(s, Free) \/ On(s, "find") \/ On(s, "attach") BY <1>0, <1>3, <2>1, AttachNextIs DEF On
  <2>3. QED BY <2>1, <2>2, MovesOnBlamed
<1>4. CASE FindNext(s)
  <2>1. job[s].pc = "find" /\ broken' = broken /\ half' = half BY <1>4 DEF FindNext, FilesOnly, Busy
  <2>2. Sets(s, Free) \/ On(s, "find") \/ On(s, "chunks") BY <1>0, <1>4, <2>1, FindNextIs DEF On
  <2>3. QED BY <2>1, <2>2, MovesOnBlamed
<1>5. QED BY <1>1, <1>2, <1>3, <1>4, ImportPlain

LEMMA FileBlamed == ASSUME Typed, Blamed, NEW s \in Tasks, FileStep(s) PROVE Blamed'
<1>0. JobsTyped BY DEF Typed
<1>1. ASSUME NEW i, NEW c, Upload(s, i, c) PROVE Blamed'
  <2>1. broken' = broken /\ half' = half BY <1>1 DEF Upload, FilesOnly
  <2>2. Begun(s, "upload", "chunks") BY <1>0, <1>1, UploadIs, Zenon DEF Begun
  <2>3. QED BY <2>1, <2>2, MovesOnBlamed
<1>2. ASSUME NEW i, NEW c, Refill(s, i, c) PROVE Blamed'
  <2>1. broken' = broken /\ half' = half BY <1>2 DEF Refill, FilesOnly
  <2>2. Begun(s, "refill", "chunks") BY <1>0, <1>2, RefillIs, Zenon DEF Begun
  <2>3. QED BY <2>1, <2>2, MovesOnBlamed
<1>3. CASE PutChunk(s)
  <2>1. broken' = broken /\ half' = half /\ job[s].pc = "chunks" BY <1>3 DEF PutChunk, FilesOnly, Busy
  <2>2. On(s, "chunks") BY <1>0, <1>3, <2>1, PutChunkIs DEF On
  <2>3. QED BY <2>1, <2>2, MovesOnBlamed
<1>4. CASE Finish(s)
  <2>1. broken' = broken /\ half' = half /\ job[s].pc = "chunks" BY <1>4 DEF Finish, FilesOnly, Written, Busy
  <2>2. Sets(s, Free) \/ On(s, "find") BY <1>0, <1>4, <2>1, FinishIs DEF On
  <2>3. QED BY <2>1, <2>2, MovesOnBlamed
<1>5. CASE DropChunks(s)
  <2>1. broken' = broken /\ half' = half BY <1>5 DEF DropChunks, FilesOnly
  <2>2. QED BY <1>0, <1>5, <2>1, DropChunksIs, MovesOnBlamed
<1>6. QED BY <1>1, <1>2, <1>3, <1>4, <1>5 DEF FileStep

\* The fault that fails a command tells what the request may leave.
LEMMA CommandBlamed == ASSUME Typed, Blamed, NEW s \in Tasks, CommandFails(s) PROVE Blamed'
<1> DEFINE j == Job(job[s].kind, job[s].pc, job[s].ask, Tail(job[s].todo), job[s].plan, TRUE, job[s].put)
<1>1. Sets(s, j) BY CommandFailsIs DEF Typed
<1>2. broken' /\ half' = half \union Unsettled(job[s]) BY DEF CommandFails, Breaks
<1>3. j.kind = job[s].kind /\ j.ask = job[s].ask BY DEF Job
<1> HIDE DEF j
<1>4. Unsettled(j) = Unsettled(job[s]) BY <1>3 DEF Unsettled
<1>5. job'[s] = j /\ \A t \in Tasks : t # s => job'[t] = job[t] BY <1>1, SetsIs
<1>6. \A t \in Tasks : Unsettled(job'[t]) = Unsettled(job[t])' BY DEF Unsettled
<1>7. ASSUME NEW t \in Tasks, job'[t] # Free, job'[t].failed PROVE broken' /\ Unsettled(job'[t]) \subseteq half'
  <2>1. CASE t # s BY <1>2, <1>5, <1>7, <2>1 DEF Blamed
  <2>2. CASE t = s BY <1>2, <1>4, <1>5, <2>2
  <2>3. QED BY <2>1, <2>2
<1>8. QED BY <1>6, <1>7 DEF Blamed

LEMMA FaultBlamed == ASSUME Typed, Blamed, NEW s \in Tasks, FaultStep(s) PROVE Blamed'
<1>0. JobsTyped BY DEF Typed
<1>1. CASE CommandFails(s) BY <1>1, CommandBlamed
<1>2. CASE RequestDies(s)
  <2>1. Sets(s, Free) BY <1>0, <1>2, OverIs
  <2>2. Breaks(s) BY <1>2 DEF RequestDies
  <2>3. QED BY <2>1, <2>2, BreaksQuiet, MovesOnBlamed DEF Quiet
<1>3. CASE ChunkFails(s)
  <2>1. broken' = broken /\ half' = half /\ job[s].pc = "chunks" BY <1>3 DEF ChunkFails, FilesOnly, Busy
  <2>2. On(s, "drop") BY <1>0, <1>3, <2>1, DropsIs DEF On
  <2>3. QED BY <2>1, <2>2, MovesOnBlamed
<1>4. CASE FinishUnheard(s)
  <2>1. broken' = broken /\ half' = half /\ job[s].pc = "chunks" BY <1>4 DEF FinishUnheard, Written, Busy
  <2>2. On(s, "drop") BY <1>0, <1>4, <2>1, DropsIs DEF On
  <2>3. QED BY <2>1, <2>2, MovesOnBlamed
<1>5. ASSUME NEW part, ExportUnread(s, part) PROVE Blamed' BY <1>5, ExportUnreadPlain, PlainBlamed
<1>6. QED BY <1>1, <1>2, <1>3, <1>4, <1>5 DEF FaultStep

LEMMA BlamedInit == ASSUME Init PROVE Blamed
BY DEF Init, Blamed

LEMMA BlamedKept == ASSUME Typed, Blamed, Next PROVE Blamed'
<1>1. ASSUME NEW s \in Tasks, ListStep(s) PROVE Blamed' BY <1>1, ListPlain, PlainBlamed
<1>2. ASSUME NEW s \in Tasks, ChallengeStep(s) PROVE Blamed'
  <2>1. CASE Quiet(s) BY <1>2, <2>1, ChallengePlain, PlainBlamed
  <2>2. CASE UNCHANGED <<broken, half>>
    <3>1. PICK j : Follows(s, j) BY <1>2, ChallengePlain DEF Plain
    <3>2. QED BY <2>2, <3>1, FollowsBlamed
  <2>3. QED BY <1>2, <2>1, <2>2, ChallengePlain
<1>3. ASSUME NEW s \in Tasks, ExportStep(s) PROVE Blamed' BY <1>3, ExportPlain, PlainBlamed
<1>4. ASSUME NEW s \in Tasks, RunCommand(s) PROVE Blamed' BY <1>4, RunPlain, PlainBlamed
<1>5. ASSUME NEW s \in Tasks, Returns(s) PROVE Blamed'
  <2>1. Sets(s, Free) BY <1>5, OverIs DEF Typed
  <2>2. broken' = broken /\ half' = half BY <1>5 DEF Returns, BoardOnly
  <2>3. QED BY <2>1, <2>2, MovesOnBlamed
<1>6. ASSUME NEW id, RemoveAttachment(id) PROVE Blamed'
  <2>1. UNCHANGED <<job, broken, half>> BY <1>6 DEF RemoveAttachment, FilesOnly
  <2>2. QED BY <2>1 DEF Blamed, Unsettled
<1>7. QED BY <1>1, <1>2, <1>3, <1>4, <1>5, <1>6, ImportBlamed, FileBlamed, FaultBlamed, Steps

-----------------------------------------------------------------------------
LEMMA FilesInit == ASSUME Init PROVE FilesInv
<1>1. /\ files = [i \in Items |-> <<>>] /\ blob = {} /\ bytes = 0 /\ made = 0 /\ job = [s \in Tasks |-> Free]
  BY DEF Init
<1>2. StoreTyped BY TypedInit DEF Typed
<1>3. \A i \in Items : DOMAIN files[i] = {} /\ Len(files[i]) = 0 BY <1>1
<1>4. Attached = {} BY <1>2, <1>3, AttachedIs
<1>5. \A s \in Tasks : ~Writer(s) BY <1>1 DEF Writer, Free
<1>6. Listed BY <1>3, <1>4 DEF Listed, OnceIn
<1>7. OwnPrefix BY <1>4 DEF OwnPrefix
<1>8. OwnPuts /\ Puts BY <1>5 DEF OwnPuts, Puts
<1>9. Accounted BY <1>1 DEF Accounted
<1>10. BytesExact BY <1>1, <1>2, <1>4, ExactIs, WeightsOfNone
<1>11. CapsHold
  <2>1. EventMax \in Nat /\ ItemMax \in Nat BY ContentAssumption
  <2>2. QED BY <1>1, <1>3, <2>1 DEF CapsHold
<1>12. FilesReadable BY <1>4 DEF FilesReadable
<1>13. QED BY <1>6, <1>7, <1>8, <1>9, <1>10, <1>11, <1>12 DEF FilesInv

LEMMA CommandFilesKept == ASSUME Typed, FilesInv, NEW s \in Tasks, CommandFails(s) PROVE FilesInv'
<1> DEFINE j == Job(job[s].kind, job[s].pc, job[s].ask, Tail(job[s].todo), job[s].plan, TRUE, job[s].put)
<1>1. Sets(s, j) BY CommandFailsIs DEF Typed
<1>2. job[s].todo # <<>> /\ Breaks(s) BY DEF CommandFails
<1>3. ~Writer(s) BY <1>2, WriterIdle
<1>4. Quiet(s) BY <1>2, BreaksQuiet
<1>5. j.pc = job[s].pc BY DEF Job
<1> HIDE DEF j
<1>6. QED BY <1>1, <1>3, <1>4, <1>5, StopsKeep DEF Quiet, Writer

LEMMA FaultFilesKept == ASSUME Typed, FilesInv, NEW s \in Tasks, FaultStep(s) PROVE FilesInv'
<1>1. CASE RequestDies(s)
  <2>1. Plain(s) BY <1>1, OverIs, PlainEnd DEF Typed
  <2>2. Breaks(s) BY <1>1 DEF RequestDies
  <2>3. QED BY <2>1, <2>2, BreaksQuiet, PlainFiles
<1>2. ASSUME NEW part, ExportUnread(s, part) PROVE FilesInv' BY <1>2, ExportUnreadPlain, PlainFiles
<1>3. QED BY <1>1, <1>2, CommandFilesKept, ChunkFailsKeeps, UnheardKeeps DEF FaultStep

LEMMA FilesInvKept == ASSUME Typed, Blamed, FilesInv, Next PROVE FilesInv'
<1>1. ASSUME NEW s \in Tasks, ListStep(s) PROVE FilesInv' BY <1>1, ListPlain, PlainFiles
<1>2. ASSUME NEW s \in Tasks, ChallengeStep(s) PROVE FilesInv'
  <2>1. CASE Quiet(s) BY <1>2, <2>1, ChallengePlain, PlainFiles
  <2>2. CASE RemoveFile(Head(job[s].plan)) /\ UNCHANGED <<made, swept, doubt, broken, half>>
    <3>1. ~Writer(s) /\ Plain(s) BY <1>2, ChallengePlain
    <3>2. PICK j : Sets(s, j) /\ j.pc \notin {"chunks", "drop"} BY <3>1 DEF Plain, Follows
    <3>3. job'[s] = j /\ \A t \in Tasks : t # s => job'[t] = job[t] BY <3>2, SetsIs
    <3>4. \A t \in Tasks : (Writer(t)' <=> Writer(t)) /\ (Writer(t) => job'[t] = job[t]) BY <3>1, <3>2, <3>3 DEF Writer
    <3>5. QED BY <2>2, <3>4, RemoveKeeps
  <2>3. QED BY <1>2, <2>1, <2>2, ChallengePlain
<1>3. ASSUME NEW s \in Tasks, ImportStep(s) PROVE FilesInv'
  BY <1>3, ImportPlain, PlainFiles, ClearFilesKeeps, AttachNextKeeps, FindNextKeeps
<1>4. ASSUME NEW s \in Tasks, FileStep(s) PROVE FilesInv'
  BY <1>4, UploadKeeps, RefillKeeps, PutChunkKeeps, FinishKeeps, DropChunksKeeps DEF FileStep
<1>5. ASSUME NEW s \in Tasks, ExportStep(s) PROVE FilesInv' BY <1>5, ExportPlain, PlainFiles
<1>6. ASSUME NEW s \in Tasks, RunCommand(s) PROVE FilesInv' BY <1>6, RunPlain, PlainFiles
<1>7. ASSUME NEW s \in Tasks, Returns(s) PROVE FilesInv'
  <2>1. Plain(s) BY <1>7, OverIs, PlainEnd DEF Typed
  <2>2. Quiet(s) /\ broken' = broken BY <1>7 DEF Returns, BoardOnly, Quiet
  <2>3. Writer(s) => job[s].failed BY <1>7 DEF Returns, Writer
  <2>4. Writer(s) => broken BY <2>3, WriterIdle DEF Blamed
  <2>5. QED BY <2>1, <2>2, <2>4, PlainFiles
<1>8. ASSUME NEW id, RemoveAttachment(id) PROVE FilesInv'
  <2>1. RemoveFile(id) /\ UNCHANGED <<job, made, swept, doubt, broken>> BY <1>8 DEF RemoveAttachment, FilesOnly
  <2>2. QED BY <2>1, RemoveKeeps DEF Writer
<1>9. QED BY <1>1, <1>2, <1>3, <1>4, <1>5, <1>6, <1>7, <1>8, FaultFilesKept, Steps

-----------------------------------------------------------------------------
\* What a request's pipeline does to the challenges: a deletion takes its own, a
\* replacement takes every one, and no other request takes any.
GoodPut(j, p) ==
    p.key = "record" => \/ p.item \in Items /\ p.to # None
                        \/ p.item \in Items /\ j.kind = "delete" /\ j.pc = "deleted" /\ p.item = j.ask
                        \/ p.item = None /\ j.kind = "replace" /\ j.pc = "clear"
GoodNew(p) == p.key = "record" => p.item \in Items /\ p.to # None
PutsFit(j) == /\ \A k \in DOMAIN j.todo : GoodPut(j, j.todo[k])
              /\ j.pc = "plan" => \A k \in DOMAIN j.plan : GoodNew(j.plan[k])
PutsInv == \A s \in Tasks : job[s] # Free => PutsFit(job[s])

LEMMA PutsSets == ASSUME PutsInv, NEW s \in Tasks, NEW j, Sets(s, j), j = Free \/ PutsFit(j) PROVE PutsInv'
<1>1. job'[s] = j /\ \A t \in Tasks : t # s => job'[t] = job[t] BY SetsIs
<1>2. ASSUME NEW t \in Tasks, job'[t] # Free PROVE PutsFit(job'[t])
  <2>1. CASE t = s BY <1>1, <1>2, <2>1
  <2>2. CASE t # s BY <1>1, <1>2, <2>2 DEF PutsInv
  <2>3. QED BY <2>1, <2>2
<1>3. QED BY <1>2 DEF PutsInv, PutsFit, GoodPut

LEMMA NoPuts == ASSUME NEW j, j.todo = <<>>, j.pc # "plan" PROVE PutsFit(j)
BY DEF PutsFit

\* A request with nothing to send.
EmptyHanded(s) == \E kind, pc, ask, todo, plan, failed, put : pc # "plan" /\ todo = <<>> /\ Sets(s, Job(kind, pc, ask, todo, plan, failed, put))
LEMMA IdlePuts == ASSUME PutsInv, NEW s \in Tasks, Sets(s, Free) \/ EmptyHanded(s) PROVE PutsInv'
<1>1. CASE Sets(s, Free) BY <1>1, PutsSets
<1>2. CASE EmptyHanded(s)
  <2>1. PICK kind, pc, ask, todo, plan, failed, put : pc # "plan" /\ todo = <<>> /\ Sets(s, Job(kind, pc, ask, todo, plan, failed, put))
    BY <1>2 DEF EmptyHanded
  <2> DEFINE j == Job(kind, pc, ask, todo, plan, failed, put)
  <2>2. j.todo = <<>> /\ j.pc # "plan" BY <2>1 DEF Job
  <2>3. Sets(s, j) BY <2>1
  <2> HIDE DEF j
  <2>4. QED BY <2>2, <2>3, NoPuts, PutsSets
<1>3. QED BY <1>1, <1>2

\* Two commands, and one.
LEMMA TwoPuts == ASSUME NEW p, NEW q, NEW j, j.pc # "plan", j.todo = <<p, q>>, GoodPut(j, p), GoodPut(j, q) PROVE PutsFit(j)
<1>1. \A k \in DOMAIN j.todo : j.todo[k] = p \/ j.todo[k] = q OBVIOUS
<1>2. QED BY <1>1 DEF PutsFit

LEMMA NotRecord == ASSUME NEW p, NEW j, p.key # "record" PROVE GoodPut(j, p) /\ GoodNew(p)
BY DEF GoodPut, GoodNew

LEMMA ListPuts == ASSUME Typed, PutsInv, NEW s \in Tasks, ListStep(s) PROVE PutsInv'
<1>0. JobsTyped /\ BoardTyped BY DEF Typed
<1>1. CASE LoadPanel(s)
  <2>1. EmptyHanded(s) BY <1>0, <1>1, LoadPanelIs, Zenon DEF EmptyHanded
  <2>2. QED BY <2>1, IdlePuts
<1>2. ASSUME NEW added, NEW removed, SetCategories(s, added, removed) PROVE PutsInv'
  BY <1>0, <1>2, SetCategoriesIs, IdlePuts
<1>3. ASSUME NEW from, NEW to, RenameCategory(s, from, to) PROVE PutsInv'
  <2>1. EmptyHanded(s) BY <1>0, <1>3, RenameIs, Zenon DEF EmptyHanded
  <2>2. QED BY <2>1, IdlePuts
<1>4. CASE MoveChallenges(s)
  <2> DEFINE ask == job[s].ask
             todo == Moves(ask)
             j == Job(job[s].kind, "moved", ask, todo, job[s].plan, job[s].failed, job[s].put)
  <2>1. Sets(s, j) BY <1>0, <1>4, MoveChallengesIs
  <2>2. job[s].pc = "moving" BY <1>4 DEF MoveChallenges, Busy
  <2>3. ask \in [from : Names, to : Names] BY <1>0, <2>2, AtPoint DEF RenameFits
  <2>4. \A k \in DOMAIN todo : \E i \in Existing(record) : todo[k] = Put("record", i, [category |-> ask.to, text |-> record[i].text])
    BY <1>0, <2>3, MovesAre
  <2>5. j.pc = "moved" /\ j.todo = todo BY DEF Job
  <2>6. \A i \in Existing(record) : i \in Items /\ [category |-> ask.to, text |-> record[i].text] \in [category : Names, text : Texts]
    BY <1>0, <2>3 DEF Existing, BoardTyped, Rows, Record
  <2> HIDE DEF todo, j
  <2>7. \A k \in DOMAIN todo : GoodPut(j, todo[k])
    <3> SUFFICES ASSUME NEW k \in DOMAIN todo PROVE todo[k].item \in Items /\ todo[k].to # None BY DEF GoodPut
    <3>1. PICK i \in Existing(record) : todo[k] = Put("record", i, [category |-> ask.to, text |-> record[i].text]) BY <2>4
    <3>2. [category |-> ask.to, text |-> record[i].text] # None BY <2>6, ContentAssumption
    <3>3. QED BY <2>6, <3>1, <3>2 DEF Put
  <2>8. PutsFit(j) BY <2>5, <2>7 DEF PutsFit
  <2>9. QED BY <2>1, <2>8, PutsSets
<1>5. CASE WriteList(s) BY <1>0, <1>5, WriteListIs, IdlePuts
<1>6. QED BY <1>1, <1>2, <1>3, <1>4, <1>5 DEF ListStep

LEMMA ChallengePuts == ASSUME Typed, PutsInv, NEW s \in Tasks, ChallengeStep(s) PROVE PutsInv'
<1>0. JobsTyped BY DEF Typed
<1>1. ASSUME NEW i \in Items, NEW n \in Names, NEW t \in Texts, Save(s, i, n, t) PROVE PutsInv'
  <2> DEFINE r == [category |-> n, text |-> t]
             p == Put("record", i, r)
             q == Put("answer", i, t)
             todo == <<p, q>>
  <2>1. r # None
    <3>1. r \in [category : Names, text : Texts] OBVIOUS
    <3>2. QED BY <3>1, ContentAssumption
  <2>2. \E plan, put, f : Sets(s, Job("save", "saved", i, todo, plan, f, put)) BY <1>0, <1>1, SaveIs, Zenon
  <2> HIDE DEF r
  <2>3. q.key # "record" /\ (p.item \in Items /\ p.to # None) BY <2>1 DEF Put
  <2> HIDE DEF p, q
  <2>4. PICK plan, put, f : Sets(s, Job("save", "saved", i, todo, plan, f, put)) BY <2>2
  <2> DEFINE j == Job("save", "saved", i, todo, plan, f, put)
  <2>5. j.pc # "plan" /\ j.todo = <<p, q>> BY DEF Job
  <2>6. Sets(s, j) BY <2>4
  <2> HIDE DEF j, todo
  <2>7. GoodPut(j, p) /\ GoodPut(j, q) BY <2>3 DEF GoodPut
  <2>8. QED BY <2>5, <2>6, <2>7, TwoPuts, PutsSets
<1>2. ASSUME NEW i \in Items, Delete(s, i) PROVE PutsInv'
  <2> DEFINE p == Put("record", i, None)
             q == Put("answer", i, None)
             todo == <<p, q>>
  <2>2. \E plan, put, f : Sets(s, Job("delete", "deleted", i, todo, plan, f, put)) BY <1>0, <1>2, DeleteIs, Zenon
  <2>3. q.key # "record" /\ p.item = i BY DEF Put
  <2> HIDE DEF p, q
  <2>4. PICK plan, put, f : Sets(s, Job("delete", "deleted", i, todo, plan, f, put)) BY <2>2
  <2> DEFINE j == Job("delete", "deleted", i, todo, plan, f, put)
  <2>5. j.pc = "deleted" /\ j.kind = "delete" /\ j.ask = i /\ j.todo = <<p, q>> BY DEF Job
  <2>6. Sets(s, j) BY <2>4
  <2> HIDE DEF j, todo
  <2>7. GoodPut(j, p) /\ GoodPut(j, q) BY <2>3, <2>5 DEF GoodPut
  <2>8. QED BY <2>5, <2>6, <2>7, TwoPuts, PutsSets
<1>3. CASE ReadStories(s)
  <2> DEFINE p == Put("stories", None, Shrunk(job[s].ask))
  <2>1. \E todo \in {<<>>, <<p>>} : Sets(s, Job(job[s].kind, "shrunk", job[s].ask, todo, job[s].plan, job[s].failed, job[s].put))
    BY <1>0, <1>3, ReadStoriesIs
  <2>2. p.key # "record" BY DEF Put
  <2> HIDE DEF p
  <2>3. PICK todo \in {<<>>, <<p>>} : Sets(s, Job(job[s].kind, "shrunk", job[s].ask, todo, job[s].plan, job[s].failed, job[s].put))
    BY <2>1
  <2> DEFINE j == Job(job[s].kind, "shrunk", job[s].ask, todo, job[s].plan, job[s].failed, job[s].put)
  <2>4. j.pc = "shrunk" /\ j.todo = todo BY DEF Job
  <2>5. Sets(s, j) BY <2>3
  <2> HIDE DEF j
  <2>6. \A k \in DOMAIN todo : todo[k] = p OBVIOUS
  <2>7. PutsFit(j) BY <2>2, <2>4, <2>6, NotRecord DEF PutsFit
  <2>8. QED BY <2>5, <2>7, PutsSets
<1>4. CASE ListFiles(s)
  <2>1. job[s].todo = <<>> BY <1>4 DEF ListFiles, Busy
  <2>2. EmptyHanded(s) BY <1>0, <1>4, <2>1, ListFilesIs, Zenon DEF EmptyHanded
  <2>3. QED BY <2>2, IdlePuts
<1>5. CASE RemoveNext(s)
  <2>1. job[s].todo = <<>> /\ job[s].pc # "plan" BY <1>5 DEF RemoveNext, Busy
  <2>2. Sets(s, Free) \/ EmptyHanded(s) BY <1>0, <1>5, <2>1, RemoveNextIs DEF EmptyHanded
  <2>3. QED BY <2>2, IdlePuts
<1>6. ASSUME NEW all, CheckSteps(s, all) PROVE PutsInv'
  <2> DEFINE p == Put("stories", None, all)
             todo == <<p>>
  <2>1. \E plan, put, f : Sets(s, Job("stories", "told", None, todo, plan, f, put)) BY <1>0, <1>6, CheckStepsIs, Zenon
  <2>2. p.key # "record" BY DEF Put
  <2> HIDE DEF p
  <2>3. PICK plan, put, f : Sets(s, Job("stories", "told", None, todo, plan, f, put)) BY <2>1
  <2> DEFINE j == Job("stories", "told", None, todo, plan, f, put)
  <2>4. j.pc = "told" /\ j.todo = <<p>> BY DEF Job
  <2>5. Sets(s, j) BY <2>3
  <2> HIDE DEF j, todo
  <2>6. \A k \in DOMAIN j.todo : j.todo[k] = p BY <2>4
  <2>7. PutsFit(j) BY <2>2, <2>4, <2>6, NotRecord DEF PutsFit
  <2>8. QED BY <2>5, <2>7, PutsSets
<1>7. QED BY <1>1, <1>2, <1>3, <1>4, <1>5, <1>6 DEF ChallengeStep

\* An import's commands, which take a challenge only where everything is cleared.
LEMMA ClearedPuts == ASSUME NEW j, j.kind = "replace", j.pc = "clear", j.todo = Cleared PROVE PutsFit(j)
<1> DEFINE p1 == Put("record", None, Nothing)
           p2 == Put("answer", None, Nothing)
           p3 == Put("categories", None, <<>>)
           p4 == Put("stories", None, NoSteps)
<1>1. p1.item = None /\ p2.key # "record" /\ p3.key # "record" /\ p4.key # "record" BY DEF Put
<1>2. Cleared = <<p1, p2, p3, p4>> BY DEF Cleared
<1> HIDE DEF p1, p2, p3, p4
<1>3. GoodPut(j, p1) /\ GoodPut(j, p2) /\ GoodPut(j, p3) /\ GoodPut(j, p4) BY <1>1, NotRecord DEF GoodPut
<1>4. \A k \in DOMAIN j.todo : j.todo[k] \in {p1, p2, p3, p4} BY <1>2
<1>5. QED BY <1>3, <1>4 DEF PutsFit

\* A place of a list of pairs and two more.
LEMMA EvenOrOdd == ASSUME NEW n \in Nat, NEW m \in 1..(2 * n + 2)
                   PROVE m = 2 * n + 1 \/ m = 2 * n + 2 \/ \E k \in 1..n : m = 2 * k - 1 \/ m = 2 * k
<1> DEFINE h == (m + 1) \div 2
<1>1. m \in Int /\ 1 <= m /\ m <= 2 * n + 2 OBVIOUS
<1>2. h \in Int /\ (m = 2 * h \/ m = 2 * h - 1) BY <1>1
<1> HIDE DEF h
<1>3. h \in 1..n \/ m = 2 * n + 1 \/ m = 2 * n + 2 BY <1>1, <1>2
<1>4. QED BY <1>2, <1>3

\* What an import writes are challenges.
LEMMA WritesPuts ==
    ASSUME BoardTyped, NEW b \in Bundles, Accepts(stories, b.stories), Len(Unioned(categories, b.categories)) <= ListMax
    PROVE  \A k \in DOMAIN Writes(b) : GoodNew(Writes(b)[k])
<1> DEFINE list == Unioned(categories, b.categories)
           n == Len(b.challenges)
           out == Writes(b)
           row(k) == [category |-> Spelling(list, b.challenges[k].category), text |-> b.challenges[k].text]
           N == 2 * n
<1>1. /\ list \in GoodLists /\ n \in Nat /\ DOMAIN out = 1..(N + 2)
      /\ \A k \in 1..n : /\ b.challenges[k] \in Lines(b) /\ Spelling(list, b.challenges[k].category) \in ToSet(list)
                         /\ out[2 * k - 1] = Put("record", b.challenges[k].item, row(k))
                         /\ out[2 * k] = Put("answer", b.challenges[k].item, b.challenges[k].text)
      /\ out[N + 1] = Put("categories", None, list)
      /\ out[N + 2] = Put("stories", None, Merged(stories, b.stories))
  BY WritesAre
<1>2. ToSet(list) \subseteq Names
  <2> HIDE DEF list
  <2>1. QED BY <1>1 DEF GoodLists, ToSet
<1>3. \A k \in 1..n : b.challenges[k].item \in Items /\ row(k) # None
  <2> SUFFICES ASSUME NEW k \in 1..n PROVE b.challenges[k].item \in Items /\ row(k) # None OBVIOUS
  <2>1. b.challenges[k] \in Lines(b) BY <1>1
  <2>2. row(k) \in [category : Names, text : Texts] BY <1>1, <1>2, <2>1 DEF Lines
  <2>3. QED BY <2>1, <2>2, ContentAssumption DEF Lines
<1> HIDE DEF list, out, row
<1>4. ASSUME NEW k \in 1..n PROVE GoodNew(out[2 * k - 1]) /\ GoodNew(out[2 * k])
  <2> DEFINE p == out[2 * k - 1]
             q == out[2 * k]
  <2>1. p = Put("record", b.challenges[k].item, row(k)) /\ q = Put("answer", b.challenges[k].item, b.challenges[k].text) BY <1>1
  <2> HIDE DEF p, q
  <2>2. p.item \in Items /\ p.to # None BY <1>3, <2>1 DEF Put
  <2>3. q.key # "record" BY <2>1 DEF Put
  <2>4. GoodNew(p) /\ GoodNew(q) BY <2>2, <2>3 DEF GoodNew
  <2>5. QED BY <2>4 DEF p, q
<1>5. GoodNew(out[N + 1]) /\ GoodNew(out[N + 2]) BY <1>1 DEF Put, GoodNew
<1>6. ASSUME NEW m \in 1..(N + 2) PROVE GoodNew(out[m])
  <2>1. m = N + 1 \/ m = N + 2 \/ \E k \in 1..n : m = 2 * k - 1 \/ m = 2 * k BY <1>1, EvenOrOdd
  <2>2. QED BY <1>4, <1>5, <2>1
<1>7. QED BY <1>1, <1>6 DEF out

LEMMA ImportPuts == ASSUME Typed, PutsInv, NEW s \in Tasks, ImportStep(s) PROVE PutsInv'
<1>0. JobsTyped /\ BoardTyped BY DEF Typed
<1>1. ASSUME NEW b \in Bundles, Import(s, b) PROVE PutsInv'
  <2>1. EmptyHanded(s) BY <1>0, <1>1, ImportIs, Zenon DEF EmptyHanded
  <2>2. QED BY <2>1, IdlePuts
<1>2. ASSUME NEW b \in Bundles, Replace(s, b) PROVE PutsInv'
  <2>1. \E plan, put, f : Sets(s, Job("replace", "clear", b, Cleared, plan, f, put)) BY <1>0, <1>2, ReplaceIs, Zenon
  <2>2. PICK plan, put, f : Sets(s, Job("replace", "clear", b, Cleared, plan, f, put)) BY <2>1
  <2> DEFINE j == Job("replace", "clear", b, Cleared, plan, f, put)
  <2>3. j.pc = "clear" /\ j.kind = "replace" /\ j.todo = Cleared BY DEF Job
  <2>4. Sets(s, j) BY <2>2
  <2> HIDE DEF j
  <2>5. QED BY <2>3, <2>4, ClearedPuts, PutsSets
<1>3. CASE ClearFiles(s)
  <2>1. job[s].todo = <<>> BY <1>3 DEF ClearFiles, Busy
  <2>2. EmptyHanded(s) BY <1>0, <1>3, <2>1, ClearFilesIs, Zenon DEF EmptyHanded
  <2>3. QED BY <2>2, IdlePuts
<1>4. CASE ReadBoard(s)
  <2>1. job[s].todo = <<>> /\ job[s].pc = "read" BY <1>4 DEF ReadBoard, Busy
  <2>2. CASE Sets(s, Free) BY <2>2, IdlePuts
  <2>3. CASE /\ Accepts(stories, job[s].ask.stories)
             /\ Len(Unioned(categories, job[s].ask.categories)) <= ListMax
             /\ Sets(s, Job(job[s].kind, "plan", job[s].ask, job[s].todo, Writes(job[s].ask), job[s].failed, job[s].put))
    <3> DEFINE b == job[s].ask
               j == Job(job[s].kind, "plan", b, job[s].todo, Writes(b), job[s].failed, job[s].put)
    <3>1. b \in Bundles BY <1>0, <2>1, AtPoint DEF ImportFits
    <3>2. Sets(s, j) BY <2>3
    <3>3. j.todo = <<>> /\ j.plan = Writes(b) BY <2>1 DEF Job
    <3>4. \A k \in DOMAIN Writes(b) : GoodNew(Writes(b)[k]) BY <1>0, <2>3, <3>1, WritesPuts
    <3> HIDE DEF j, b
    <3>5. PutsFit(j) BY <3>3, <3>4 DEF PutsFit
    <3>6. QED BY <3>2, <3>5, PutsSets
  <2>4. QED BY <1>0, <1>4, <2>2, <2>3, ReadBoardIs
<1>5. CASE PlanFiles(s)
  <2>1. job[s].pc = "plan" /\ job[s] # Free BY <1>5 DEF PlanFiles, Busy, Free
  <2>2. CASE Sets(s, Free) BY <2>2, IdlePuts
  <2>3. CASE Sets(s, Job(job[s].kind, "attach", job[s].ask, job[s].plan, Additions(job[s].ask), job[s].failed, job[s].put))
    <3> DEFINE j == Job(job[s].kind, "attach", job[s].ask, job[s].plan, Additions(job[s].ask), job[s].failed, job[s].put)
    <3>1. Sets(s, j) BY <2>3
    <3>2. j.todo = job[s].plan /\ j.pc = "attach" BY DEF Job
    <3> HIDE DEF j
    <3>3. \A k \in DOMAIN j.todo : GoodNew(j.todo[k]) BY <2>1, <3>2 DEF PutsInv, PutsFit
    <3>4. PutsFit(j) BY <3>2, <3>3 DEF PutsFit, GoodPut, GoodNew
    <3>5. QED BY <3>1, <3>4, PutsSets
  <2>4. QED BY <1>0, <1>5, <2>2, <2>3, PlanFilesIs
<1>6. CASE AttachNext(s)
  <2>1. job[s].todo = <<>> /\ job[s].pc # "plan" BY <1>6 DEF AttachNext, Busy
  <2>2. Sets(s, Free) \/ EmptyHanded(s) BY <1>0, <1>6, <2>1, AttachNextIs, Zenon DEF EmptyHanded
  <2>3. QED BY <2>2, IdlePuts
<1>7. CASE FindNext(s)
  <2>1. job[s].todo = <<>> /\ job[s].pc # "plan" BY <1>7 DEF FindNext, Busy
  <2>2. Sets(s, Free) \/ EmptyHanded(s)
    <3>1. CASE \E att \in Missing(Head(job[s].plan)[1], Head(job[s].plan)[2]) :
                 Sets(s, Job(job[s].kind, "chunks", job[s].ask, job[s].todo, Tail(job[s].plan), job[s].failed, Writing(att)))
      BY <2>1, <3>1, Zenon DEF EmptyHanded
    <3>2. CASE Sets(s, Job(job[s].kind, job[s].pc, job[s].ask, job[s].todo, Tail(job[s].plan), job[s].failed, job[s].put))
      BY <2>1, <3>2, Zenon DEF EmptyHanded
    <3>3. QED BY <1>0, <1>7, <3>1, <3>2, FindNextIs
  <2>3. QED BY <2>2, IdlePuts
<1>8. QED BY <1>1, <1>2, <1>3, <1>4, <1>5, <1>6, <1>7 DEF ImportStep

LEMMA FilePuts == ASSUME Typed, PutsInv, NEW s \in Tasks, FileStep(s) \/ ChunkFails(s) \/ FinishUnheard(s) PROVE PutsInv'
<1>0. JobsTyped BY DEF Typed
<1>1. ASSUME NEW i, NEW c, Upload(s, i, c) PROVE PutsInv'
  <2>1. EmptyHanded(s) BY <1>0, <1>1, UploadIs, Zenon DEF EmptyHanded
  <2>2. QED BY <2>1, IdlePuts
<1>2. ASSUME NEW i, NEW c, Refill(s, i, c) PROVE PutsInv'
  <2>1. EmptyHanded(s) BY <1>0, <1>2, RefillIs, Zenon DEF EmptyHanded
  <2>2. QED BY <2>1, IdlePuts
<1>3. CASE PutChunk(s)
  <2>1. job[s].todo = <<>> /\ job[s].pc # "plan" BY <1>3 DEF PutChunk, Busy
  <2>2. EmptyHanded(s) BY <1>0, <1>3, <2>1, PutChunkIs, Zenon DEF EmptyHanded
  <2>3. QED BY <2>2, IdlePuts
<1>4. CASE Finish(s)
  <2>1. job[s].todo = <<>> BY <1>4 DEF Finish, Written, Busy
  <2>2. Sets(s, Free) \/ EmptyHanded(s) BY <1>0, <1>4, <2>1, FinishIs, Zenon DEF EmptyHanded
  <2>3. QED BY <2>2, IdlePuts
<1>5. CASE DropChunks(s) BY <1>0, <1>5, DropChunksIs, IdlePuts
<1>6. CASE ChunkFails(s) \/ FinishUnheard(s)
  <2>1. job[s].todo = <<>> BY <1>6 DEF ChunkFails, FinishUnheard, Written, Busy
  <2>2. EmptyHanded(s) BY <1>0, <1>6, <2>1, DropsIs, Zenon DEF EmptyHanded
  <2>3. QED BY <2>2, IdlePuts
<1>7. QED BY <1>1, <1>2, <1>3, <1>4, <1>5, <1>6 DEF FileStep

LEMMA ExportPuts == ASSUME Typed, PutsInv, NEW s \in Tasks, ExportStep(s) \/ \E part \in Parts : ExportUnread(s, part) PROVE PutsInv'
<1>0. JobsTyped BY DEF Typed
<1>1. CASE Export(s)
  <2>1. EmptyHanded(s) BY <1>0, <1>1, ExportIs, Zenon DEF EmptyHanded
  <2>2. QED BY <2>1, IdlePuts
<1>2. ASSUME NEW part, ExportRead(s, part) PROVE PutsInv'
  <2>1. job[s].todo = <<>> /\ job[s].pc # "plan" BY <1>2 DEF ExportRead, Busy
  <2>2. EmptyHanded(s) BY <1>0, <1>2, <2>1, ExportReadIs, Zenon DEF EmptyHanded
  <2>3. QED BY <2>2, IdlePuts
<1>3. ASSUME NEW part, ExportUnread(s, part) PROVE PutsInv'
  <2>1. job[s].todo = <<>> /\ job[s].pc # "plan" BY <1>3 DEF ExportUnread, Busy
  <2>2. EmptyHanded(s) BY <1>0, <1>3, <2>1, ExportUnreadIs, Zenon DEF EmptyHanded
  <2>3. QED BY <2>2, IdlePuts
<1>4. CASE ExportDone(s) BY <1>0, <1>4, ExportDoneIs, IdlePuts
<1>5. QED BY <1>1, <1>2, <1>3, <1>4 DEF ExportStep

\* A command of a pipeline is done with; those after it stay.
LEMMA RestPuts ==
    ASSUME Typed, PutsInv, NEW s \in Tasks, job[s] # Free, job[s].todo # <<>>, NEW failed,
           Sets(s, Job(job[s].kind, job[s].pc, job[s].ask, Tail(job[s].todo), job[s].plan, failed, job[s].put))
    PROVE  PutsInv'
<1> DEFINE todo == job[s].todo
           j == Job(job[s].kind, job[s].pc, job[s].ask, Tail(todo), job[s].plan, failed, job[s].put)
<1>1. Sets(s, j) OBVIOUS
<1>2. j.kind = job[s].kind /\ j.pc = job[s].pc /\ j.ask = job[s].ask /\ j.todo = Tail(todo) /\ j.plan = job[s].plan BY DEF Job
<1>3. todo \in Seq(Command) /\ todo # <<>> BY AtWork DEF Typed
<1>4. PutsFit(job[s]) BY DEF PutsInv
<1>5. \A k \in DOMAIN todo : GoodPut(job[s], todo[k]) BY <1>4 DEF PutsFit
<1> HIDE DEF j, todo
<1>6. \A k \in DOMAIN Tail(todo) : k + 1 \in DOMAIN todo /\ Tail(todo)[k] = todo[k + 1] BY <1>3
<1>7. \A p : GoodPut(job[s], p) <=> GoodPut(j, p) BY <1>2 DEF GoodPut
<1>8. PutsFit(j) BY <1>2, <1>4, <1>5, <1>6, <1>7 DEF PutsFit
<1>9. QED BY <1>1, <1>8, PutsSets

LEMMA PutsInit == ASSUME Init PROVE PutsInv
BY DEF Init, PutsInv

LEMMA PutsKept == ASSUME Typed, PutsInv, Next PROVE PutsInv'
<1>0. JobsTyped BY DEF Typed
<1>1. ASSUME NEW s \in Tasks, RunCommand(s) PROVE PutsInv'
  <2>1. job[s] # Free /\ job[s].todo # <<>> BY <1>1 DEF RunCommand
  <2>2. QED BY <1>0, <1>1, <2>1, RunCommandIs, RestPuts
<1>2. ASSUME NEW s \in Tasks, CommandFails(s) PROVE PutsInv'
  <2>1. job[s] # Free /\ job[s].todo # <<>> BY <1>2 DEF CommandFails
  <2>2. QED BY <1>0, <1>2, <2>1, CommandFailsIs, RestPuts
<1>3. ASSUME NEW s \in Tasks, Returns(s) \/ RequestDies(s) PROVE PutsInv' BY <1>0, <1>3, OverIs, IdlePuts
<1>4. ASSUME NEW id, RemoveAttachment(id) PROVE PutsInv'
  <2>1. job' = job BY <1>4 DEF RemoveAttachment
  <2>2. QED BY <2>1 DEF PutsInv, PutsFit, GoodPut
<1>5. ASSUME NEW s \in Tasks, FaultStep(s) PROVE PutsInv' BY <1>2, <1>3, <1>5, FilePuts, ExportPuts DEF FaultStep
<1>6. QED BY <1>1, <1>3, <1>4, <1>5, ListPuts, ChallengePuts, ImportPuts, FilePuts, ExportPuts, Steps

-----------------------------------------------------------------------------
\* A request that will take a challenge's files: its deletion, or a replacement of everything.
CanClear(j) == j # Free /\ (j.kind = "delete" \/ (j.kind = "replace" /\ j.pc = "clear"))
Clearing(j, i, ids) ==
    /\ CanClear(j)
    /\ j.kind = "delete" => j.ask = i /\ (j.pc = "remove" => ids \subseteq ToSet(j.plan))
\* A challenge that is gone has no files, or a request under way takes them.
Orphans ==
    ~broken => \A i \in Items : record[i] = None /\ IdsIn(files[i]) # {} =>
                  \E s \in Tasks : Clearing(job[s], i, IdsIn(files[i]))

LEMMA FewerIds == ASSUME NEW j, NEW i, NEW ids, NEW fewer, fewer \subseteq ids, Clearing(j, i, ids) PROVE Clearing(j, i, fewer)
BY DEF Clearing

LEMMA OrphansKeep ==
    ASSUME Orphans, NEW s \in Tasks, NEW j, Sets(s, j), broken => broken',
           \A i \in Items : ~broken' /\ record'[i] = None /\ IdsIn(files'[i]) # {} =>
              \/ Clearing(j, i, IdsIn(files'[i]))
              \/ /\ record[i] = None /\ IdsIn(files'[i]) \subseteq IdsIn(files[i])
                 /\ Clearing(job[s], i, IdsIn(files[i])) => Clearing(j, i, IdsIn(files'[i]))
    PROVE  Orphans'
<1>1. job'[s] = j /\ \A t \in Tasks : t # s => job'[t] = job[t] BY SetsIs
<1>2. ASSUME ~broken', NEW i \in Items, record'[i] = None, IdsIn(files'[i]) # {}
      PROVE \E t \in Tasks : Clearing(job'[t], i, IdsIn(files'[i]))
  <2>1. CASE Clearing(j, i, IdsIn(files'[i])) BY <1>1, <2>1
  <2>2. CASE /\ record[i] = None /\ IdsIn(files'[i]) \subseteq IdsIn(files[i])
             /\ Clearing(job[s], i, IdsIn(files[i])) => Clearing(j, i, IdsIn(files'[i]))
    <3>1. PICK t \in Tasks : Clearing(job[t], i, IdsIn(files[i])) BY <1>2, <2>2 DEF Orphans
    <3>2. CASE t = s BY <1>1, <2>2, <3>1, <3>2
    <3>3. CASE t # s BY <1>1, <2>2, <3>1, <3>3, FewerIds
    <3>4. QED BY <3>2, <3>3
  <2>3. QED BY <1>2, <2>1, <2>2
<1>3. \A i : IdsIn(files[i])' = IdsIn(files'[i]) BY DEF IdsIn, ToSet
<1>4. \A t, i : Clearing(job[t], i, IdsIn(files[i]))' <=> Clearing(job'[t], i, IdsIn(files'[i])) BY <1>3 DEF Clearing, CanClear
<1>5. QED BY <1>2, <1>3, <1>4 DEF Orphans

\* A request that takes no challenge's files moves on.
Spared == \A i \in Items : record'[i] = None => record[i] = None /\ IdsIn(files'[i]) \subseteq IdsIn(files[i])
LEMMA OrphansAside ==
    ASSUME Orphans, NEW s \in Tasks, ~CanClear(job[s]), \E j : Sets(s, j), broken => broken', Spared
    PROVE  Orphans'
<1>1. PICK j : Sets(s, j) OBVIOUS
<1>2. \A i, ids : ~Clearing(job[s], i, ids) BY DEF Clearing
<1>3. QED BY <1>1, <1>2, OrphansKeep DEF Spared

\* It was blamed on a fault.
LEMMA OrphansBroken == ASSUME broken' PROVE Orphans'
BY DEF Orphans

LEMMA FreeAside == ASSUME NEW s \in Tasks, job[s] = Free PROVE ~CanClear(job[s])
BY DEF CanClear

LEMMA PlainSets == ASSUME NEW s, Plain(s) PROVE \E j : Sets(s, j)
BY DEF Plain, Follows

LEMMA SameSpared == ASSUME record' = record, files' = files PROVE Spared
BY DEF Spared

LEMMA BeginsOrphans == ASSUME Typed, Orphans, NEW s \in Tasks, NEW kind, Begins(s, kind), \E j : Sets(s, j) PROVE Orphans'
<1>1. job[s] = Free /\ UNCHANGED <<broken, board>> /\ UNCHANGED store BY DEF Begins, BoardOnly
<1>2. Spared BY <1>1, SameSpared DEF board, store
<1>3. QED BY <1>1, <1>2, FreeAside, OrphansAside

LEMMA ListOrphans == ASSUME Typed, Orphans, NEW s \in Tasks, ListStep(s) PROVE Orphans'
<1>1. \E j : Sets(s, j) BY ListPlain, PlainSets
<1>2. ASSUME NEW kind, Begins(s, kind) PROVE Orphans' BY <1>1, <1>2, BeginsOrphans
<1>3. CASE job[s].pc \in {"panel", "moving", "moved"} /\ record' = record /\ BoardOnly
  <2>1. ~CanClear(job[s]) BY <1>3, AtPoint DEF Typed, ListFits, RenameFits, CanClear
  <2>2. files' = files /\ broken' = broken BY <1>3 DEF BoardOnly, store
  <2>3. QED BY <1>1, <1>3, <2>1, <2>2, SameSpared, OrphansAside
<1>4. QED BY <1>2, <1>3 DEF ListStep, LoadPanel, SetCategories, RenameCategory, MoveChallenges, WriteList, Busy, board

\* The files a list held, without those of one id.
LEMMA WithoutIds == ASSUME Typed, NEW id, NEW i \in Items, RemoveFile(id)
                    PROVE IdsIn(files'[i]) \subseteq IdsIn(files[i]) \ {id}
<1>1. files'[i] = Without(files[i], Dropped(id)) BY DEF RemoveFile
<1>2. files[i] \in Seq(Attachment) /\ ToSet(files[i]) \subseteq Attached BY AtIs DEF Typed
<1>3. ToSet(files'[i]) = ToSet(files[i]) \ Dropped(id) BY <1>1, <1>2, WithoutIs
<1>4. QED BY <1>2, <1>3 DEF IdsIn, Dropped

\* A deletion goes on.
LEMMA DeleteOrphans ==
    ASSUME Typed, Orphans, NEW s \in Tasks, job[s].kind = "delete", NEW j, Sets(s, j), j # Free, j.kind = "delete",
           j.ask = job[s].ask, j.pc = "remove" => IdsIn(files[j.ask]) \subseteq ToSet(j.plan), record' = record, files' = files, broken' = broken
    PROVE  Orphans'
<1>1. \A i \in Items : Clearing(job[s], i, IdsIn(files[i])) => Clearing(j, i, IdsIn(files'[i])) BY DEF Clearing, CanClear
<1>2. QED BY <1>1, OrphansKeep

LEMMA RemoveNextOrphans == ASSUME Typed, Orphans, NEW s \in Tasks, RemoveNext(s) PROVE Orphans'
<1>0. JobsTyped BY DEF Typed
<1>1. job[s].pc = "remove" /\ record' = record /\ broken' = broken BY DEF RemoveNext, Busy, FilesOnly, board
<1>2. DeleteFits(job[s]) /\ job[s].kind = "delete" /\ job[s].plan \in Seq(Nat) BY <1>0, <1>1, AtPoint DEF DeleteFits
<1>3. CASE job[s].plan = <<>> /\ Sets(s, Free) /\ UNCHANGED store
  <2>1. ToSet(job[s].plan) = {} BY <1>3 DEF ToSet
  <2>2. \A i \in Items : IdsIn(files[i]) # {} => ~Clearing(job[s], i, IdsIn(files[i])) BY <1>1, <1>2, <2>1 DEF Clearing
  <2>3. files' = files BY <1>3 DEF store
  <2>4. QED BY <1>1, <1>3, <2>2, <2>3, OrphansKeep
<1>4. CASE /\ job[s].plan # <<>> /\ RemoveFile(Head(job[s].plan))
           /\ Sets(s, Job(job[s].kind, job[s].pc, job[s].ask, job[s].todo, Tail(job[s].plan), job[s].failed, job[s].put))
  <2> DEFINE plan == job[s].plan
             j == Job(job[s].kind, job[s].pc, job[s].ask, job[s].todo, Tail(plan), job[s].failed, job[s].put)
  <2>1. Sets(s, j) BY <1>4
  <2>2. j.kind = job[s].kind /\ j.pc = job[s].pc /\ j.ask = job[s].ask /\ j.plan = Tail(plan) BY DEF Job
  <2>3. plan \in Seq(Nat) /\ plan # <<>> BY <1>2, <1>4
  <2>4. j # Free BY <1>1, <2>2 DEF Free
  <2> HIDE DEF j
  <2>5. \A i \in Items : IdsIn(files'[i]) \subseteq IdsIn(files[i]) \ {Head(plan)} BY <1>4, WithoutIds
  <2>6. ToSet(plan) \subseteq ToSet(Tail(plan)) \union {Head(plan)}
    <3> HIDE DEF plan
    <3> SUFFICES ASSUME NEW k \in DOMAIN plan PROVE plan[k] \in ToSet(Tail(plan)) \union {Head(plan)} BY DEF ToSet
    <3>1. CASE k = 1 BY <2>3, <3>1
    <3>2. CASE k # 1
      <4>1. k - 1 \in DOMAIN Tail(plan) /\ Tail(plan)[k - 1] = plan[k] BY <2>3, <3>2
      <4>2. QED BY <4>1 DEF ToSet
    <3>3. QED BY <3>1, <3>2
  <2>7. ASSUME NEW i \in Items, Clearing(job[s], i, IdsIn(files[i])) PROVE Clearing(j, i, IdsIn(files'[i]))
    <3>1. job[s].ask = i /\ IdsIn(files[i]) \subseteq ToSet(plan) BY <1>1, <1>2, <2>7 DEF Clearing
    <3>2. IdsIn(files'[i]) \subseteq ToSet(Tail(plan)) BY <2>5, <2>6, <3>1
    <3> HIDE DEF plan
    <3>3. QED BY <1>1, <1>2, <2>2, <2>4, <3>1, <3>2 DEF Clearing, CanClear
  <2>8. QED BY <1>1, <2>1, <2>5, <2>7, OrphansKeep
<1>5. QED BY <1>0, <1>3, <1>4, RemoveNextIs

LEMMA ChallengeOrphans == ASSUME Typed, Orphans, NEW s \in Tasks, ChallengeStep(s) PROVE Orphans'
<1>0. JobsTyped BY DEF Typed
<1>1. \E j : Sets(s, j) BY ChallengePlain, PlainSets
<1>2. ASSUME NEW kind, Begins(s, kind) PROVE Orphans' BY <1>1, <1>2, BeginsOrphans
<1>3. CASE ReadStories(s)
  <2>1. job[s].pc = "deleted" /\ record' = record /\ files' = files /\ broken' = broken BY <1>3 DEF ReadStories, Busy, BoardOnly, board, store
  <2>2. job[s].kind = "delete" BY <1>0, <2>1, AtPoint DEF DeleteFits
  <2>3. PICK todo : Sets(s, Job(job[s].kind, "shrunk", job[s].ask, todo, job[s].plan, job[s].failed, job[s].put)) BY <1>0, <1>3, ReadStoriesIs
  <2> DEFINE j == Job(job[s].kind, "shrunk", job[s].ask, todo, job[s].plan, job[s].failed, job[s].put)
  <2>4. j.kind = job[s].kind /\ j.pc = "shrunk" /\ j.ask = job[s].ask BY DEF Job
  <2>5. Sets(s, j) BY <2>3
  <2>6. j # Free BY <2>4 DEF Free
  <2> HIDE DEF j
  <2>7. j.kind = "delete" /\ (j.pc = "remove" => IdsIn(files[j.ask]) \subseteq ToSet(j.plan)) BY <2>2, <2>4
  <2>8. j.ask = job[s].ask /\ record' = record /\ files' = files /\ broken' = broken BY <2>1, <2>4
  <2>9. QED BY <2>2, <2>5, <2>6, <2>7, <2>8, DeleteOrphans, Zenon
<1>4. CASE ListFiles(s)
  <2> DEFINE i == job[s].ask
             plan == [k \in DOMAIN files[i] |-> files[i][k].id]
             j == Job(job[s].kind, "remove", i, job[s].todo, plan, job[s].failed, job[s].put)
  <2>1. job[s].pc = "shrunk" /\ record' = record /\ files' = files /\ broken' = broken BY <1>4 DEF ListFiles, Busy, BoardOnly, board, store
  <2>2. job[s].kind = "delete" BY <1>0, <2>1, AtPoint DEF DeleteFits
  <2>3. Sets(s, j) BY <1>0, <1>4, ListFilesIs
  <2>4. j.kind = job[s].kind /\ j.pc = "remove" /\ j.ask = i /\ j.plan = plan BY DEF Job
  <2> HIDE DEF j, plan, i
  <2>5. j # Free BY <2>4 DEF Free
  <2>6. IdsIn(files[i]) \subseteq ToSet(plan) BY DEF IdsIn, ToSet, plan
  <2>7. i = job[s].ask BY DEF i
  <2>8. j.kind = "delete" /\ (j.pc = "remove" => IdsIn(files[j.ask]) \subseteq ToSet(j.plan)) BY <2>2, <2>4, <2>6
  <2>9. j.ask = job[s].ask /\ record' = record /\ files' = files /\ broken' = broken BY <2>1, <2>4, <2>7
  <2>10. QED BY <2>2, <2>3, <2>5, <2>8, <2>9, DeleteOrphans, Zenon
<1>5. QED BY <1>2, <1>3, <1>4, RemoveNextOrphans DEF ChallengeStep, Save, Delete, CheckSteps

\* A file is only added to a challenge that is there.
LEMMA CommitSpares == ASSUME NEW i \in Items, NEW att, Commit(i, att), record' = record, files \in [Items -> Seq(Attachment)] PROVE Spared
<1>1. CASE CommitVerdict(i, att) = "ok"
  <2>1. record[i] # None BY <1>1 DEF CommitVerdict
  <2>2. files' = [files EXCEPT ![i] = Append(@, att)] BY <1>1 DEF Commit
  <2>3. \A k \in Items : k # i => files'[k] = files[k] BY <2>2
  <2>4. QED BY <2>1, <2>3 DEF Spared
<1>2. CASE CommitVerdict(i, att) # "ok" BY <1>2 DEF Commit, Spared
<1>3. QED BY <1>1, <1>2

\* A fill changes no id.
LEMMA FillSpares == ASSUME Typed, NEW att \in Attachment, NEW prefix \in Nat, Fill(att, prefix), record' = record PROVE Spared
<1>1. StoreTyped BY DEF Typed
<1>2. CASE FillVerdict(att) = "ok"
  <2>1. ASSUME NEW i \in Items PROVE IdsIn(files'[i]) \subseteq IdsIn(files[i])
    <3>1. /\ DOMAIN files'[i] = DOMAIN files[i]
          /\ \A k \in DOMAIN files[i] : files'[i][k] = IF files[i][k] = att THEN Filled(att, prefix) ELSE files[i][k]
      BY <1>1, <1>2, FillIs
    <3>2. Filled(att, prefix).id = att.id BY FilledIs DEF Filled
    <3>3. \A k \in DOMAIN files[i] : files'[i][k].id = files[i][k].id BY <3>1, <3>2
    <3>4. QED BY <3>1, <3>3 DEF IdsIn, ToSet
  <2>2. QED BY <2>1 DEF Spared
<1>3. CASE FillVerdict(att) # "ok" BY <1>3 DEF Fill, Spared
<1>4. QED BY <1>2, <1>3

LEMMA ScriptSpares == ASSUME Typed, NEW s \in Tasks, Written(s), Script(s), record' = record PROVE Spared
<1>1. Writer(s) /\ job[s].pc = "chunks" BY DEF Written, Busy, Writer
<1>2. job[s].put.att \in Attachment /\ job[s].put.prefix \in Nat BY <1>1, PuttingIs DEF Typed
<1>3. files \in [Items -> Seq(Attachment)] BY DEF Typed, StoreTyped
<1>4. CASE job[s].kind = "upload"
  <2>1. job[s].ask \in Items BY <1>1, <1>4, AtPoint DEF Typed, FileFits
  <2>2. QED BY <1>3, <1>4, <2>1, CommitSpares DEF Script
<1>5. CASE job[s].kind # "upload" BY <1>2, <1>5, FillSpares DEF Script
<1>6. QED BY <1>4, <1>5

\* An import, past its clearing, takes no files.
LEMMA ImportOrphans == ASSUME Typed, Orphans, NEW s \in Tasks, ImportStep(s) PROVE Orphans'
<1>0. JobsTyped /\ StoreTyped BY DEF Typed
<1>1. ASSUME NEW kind, Begins(s, kind), \E j : Sets(s, j) PROVE Orphans' BY <1>1, BeginsOrphans
<1>2. ASSUME NEW b, Import(s, b) PROVE Orphans'
  <2>1. Begins(s, "import") /\ \E j : Sets(s, j) BY <1>0, <1>2, ImportIs DEF Import
  <2>2. QED BY <1>1, <2>1
<1>3. ASSUME NEW b, Replace(s, b) PROVE Orphans'
  <2>1. Begins(s, "replace") /\ \E j : Sets(s, j) BY <1>0, <1>3, ReplaceIs DEF Replace
  <2>2. QED BY <1>1, <2>1
<1>4. CASE ClearFiles(s)
  <2>1. \E j : Sets(s, j) BY <1>0, <1>4, ClearFilesIs
  <2>2. files' = [i \in Items |-> <<>>] /\ broken' = broken BY <1>4 DEF ClearFiles, FilesOnly
  <2>3. \A i \in Items : IdsIn(files'[i]) = {} BY <2>2 DEF IdsIn, ToSet
  <2>4. QED BY <2>1, <2>2, <2>3, OrphansKeep
<1>5. ASSUME job[s].pc \in {"read", "plan", "attach", "find"}, Spared, broken' = broken, \E j : Sets(s, j) PROVE Orphans'
  <2>1. ~CanClear(job[s]) BY <1>0, <1>5, AtPoint DEF ImportFits, CanClear
  <2>2. QED BY <1>5, <2>1, OrphansAside
<1>6. CASE ReadBoard(s)
  <2>1. job[s].pc = "read" /\ record' = record /\ files' = files /\ broken' = broken BY <1>6 DEF ReadBoard, Busy, BoardOnly, board, store
  <2>2. \E j : Sets(s, j) BY <1>0, <1>6, ReadBoardIs
  <2>3. QED BY <1>5, <2>1, <2>2, SameSpared
<1>7. CASE PlanFiles(s)
  <2>1. job[s].pc = "plan" /\ record' = record /\ files' = files /\ broken' = broken BY <1>7 DEF PlanFiles, Busy, BoardOnly, board, store
  <2>2. \E j : Sets(s, j) BY <1>0, <1>7, PlanFilesIs
  <2>3. QED BY <1>5, <2>1, <2>2, SameSpared
<1>8. CASE AttachNext(s)
  <2>1. job[s].pc = "attach" /\ record' = record /\ broken' = broken BY <1>8 DEF AttachNext, Busy, FilesOnly, board
  <2>2. \E j : Sets(s, j) BY <1>0, <1>8, AttachNextIs
  <2>3. CASE UNCHANGED <<store, made>>
    <3>1. files' = files BY <2>3 DEF store
    <3>2. QED BY <1>5, <2>1, <2>2, <3>1, SameSpared
  <2>4. CASE job[s].plan # <<>> /\ Commit(Head(job[s].plan)[1], NewFile(Head(job[s].plan)))
    <3> DEFINE add == Head(job[s].plan)
    <3>1. job[s].plan \in Seq(Items \X Contents) BY <1>0, <2>1, AtPoint DEF ImportFits
    <3>2. add \in Items \X Contents BY <2>4, <3>1, TailIs
    <3> HIDE DEF add
    <3>3. Commit(add[1], NewFile(add)) /\ add[1] \in Items BY <2>4, <3>2 DEF add
    <3>4. Spared BY <1>0, <2>1, <3>3, CommitSpares DEF StoreTyped
    <3>5. QED BY <1>5, <2>1, <2>2, <3>4
  <2>5. QED BY <1>0, <1>8, <2>3, <2>4, AttachNextIs
<1>9. CASE FindNext(s)
  <2>1. job[s].pc = "find" /\ record' = record /\ files' = files /\ broken' = broken BY <1>9 DEF FindNext, Busy, FilesOnly, board, store
  <2>2. \E j : Sets(s, j) BY <1>0, <1>9, FindNextIs
  <2>3. QED BY <1>5, <2>1, <2>2, SameSpared
<1>10. QED BY <1>2, <1>3, <1>4, <1>6, <1>7, <1>8, <1>9 DEF ImportStep

LEMMA FileOrphans == ASSUME Typed, Orphans, NEW s \in Tasks, FileStep(s) \/ ChunkFails(s) \/ FinishUnheard(s) PROVE Orphans'
<1>0. JobsTyped BY DEF Typed
<1>1. ASSUME job[s].pc \in {"chunks", "drop"} \/ job[s] = Free, Spared, broken' = broken, \E j : Sets(s, j) PROVE Orphans'
  <2>1. ~CanClear(job[s]) BY <1>0, <1>1, AtPoint DEF ImportFits, FileFits, CanClear
  <2>2. QED BY <1>1, <2>1, OrphansAside
<1>2. ASSUME NEW i, NEW c, Upload(s, i, c) PROVE Orphans'
  <2>1. job[s] = Free /\ record' = record /\ files' = files /\ broken' = broken BY <1>2 DEF Upload, FilesOnly, board, store
  <2>2. \E j : Sets(s, j) BY <1>0, <1>2, UploadIs
  <2>3. QED BY <1>1, <2>1, <2>2, SameSpared
<1>3. ASSUME NEW i, NEW c, Refill(s, i, c) PROVE Orphans'
  <2>1. job[s] = Free /\ record' = record /\ files' = files /\ broken' = broken BY <1>3 DEF Refill, FilesOnly, board, store
  <2>2. \E j : Sets(s, j) BY <1>0, <1>3, RefillIs
  <2>3. QED BY <1>1, <2>1, <2>2, SameSpared
<1>4. CASE PutChunk(s)
  <2>1. job[s].pc = "chunks" /\ record' = record /\ files' = files /\ broken' = broken BY <1>4 DEF PutChunk, Busy, FilesOnly, board
  <2>2. \E j : Sets(s, j) BY <1>0, <1>4, PutChunkIs
  <2>3. QED BY <1>1, <2>1, <2>2, SameSpared
<1>5. CASE Finish(s)
  <2>1. job[s].pc = "chunks" /\ Written(s) /\ Script(s) /\ record' = record /\ broken' = broken BY <1>5 DEF Finish, Written, Busy, FilesOnly, board
  <2>2. \E j : Sets(s, j) BY <1>0, <1>5, FinishIs
  <2>3. QED BY <1>1, <2>1, <2>2, ScriptSpares
<1>6. CASE DropChunks(s)
  <2>1. job[s].pc = "drop" /\ record' = record /\ files' = files /\ broken' = broken BY <1>6 DEF DropChunks, Busy, FilesOnly, board
  <2>2. \E j : Sets(s, j) BY <1>0, <1>6, DropChunksIs
  <2>3. QED BY <1>1, <2>1, <2>2, SameSpared
<1>7. CASE ChunkFails(s)
  <2>1. job[s].pc = "chunks" /\ record' = record /\ files' = files /\ broken' = broken BY <1>7 DEF ChunkFails, Busy, FilesOnly, board, store
  <2>2. \E j : Sets(s, j) BY <1>0, <1>7, DropsIs
  <2>3. QED BY <1>1, <2>1, <2>2, SameSpared
<1>8. CASE FinishUnheard(s)
  <2>1. job[s].pc = "chunks" /\ Written(s) /\ Script(s) /\ record' = record /\ broken' = broken BY <1>8 DEF FinishUnheard, Written, Busy, board
  <2>2. \E j : Sets(s, j) BY <1>0, <1>8, DropsIs
  <2>3. QED BY <1>1, <2>1, <2>2, ScriptSpares
<1>9. QED BY <1>2, <1>3, <1>4, <1>5, <1>6, <1>7, <1>8 DEF FileStep

LEMMA ExportOrphans == ASSUME Typed, Orphans, NEW s \in Tasks, ExportStep(s) \/ \E part \in Parts : ExportUnread(s, part) PROVE Orphans'
<1>0. JobsTyped BY DEF Typed
<1>1. \E j : Sets(s, j) BY ExportPlain, ExportUnreadPlain, PlainSets
<1>2. CASE Export(s)
  <2>1. Begins(s, "export") BY <1>2 DEF Export
  <2>2. QED BY <1>1, <2>1, BeginsOrphans
<1>3. CASE (\E part \in Parts : ExportRead(s, part)) \/ ExportDone(s) \/ (\E part \in Parts : ExportUnread(s, part))
  <2>1. job[s].pc = "reading" /\ record' = record /\ files' = files /\ broken' = broken
    BY <1>3 DEF ExportRead, ExportDone, ExportUnread, Busy, BoardOnly, board, store
  <2>2. ~CanClear(job[s]) BY <1>0, <2>1, AtPoint DEF ExportFits, CanClear
  <2>3. QED BY <1>1, <2>1, <2>2, SameSpared, OrphansAside
<1>4. QED BY <1>2, <1>3 DEF ExportStep

\* A command that takes a challenge is a deletion's own, or a replacement's.
LEMMA RunOrphans == ASSUME Typed, PutsInv, Orphans, NEW s \in Tasks, RunCommand(s) PROVE Orphans'
<1> DEFINE todo == job[s].todo
           p == Head(todo)
           j == Job(job[s].kind, job[s].pc, job[s].ask, Tail(todo), job[s].plan, job[s].failed, job[s].put)
<1>0. JobsTyped /\ BoardTyped BY DEF Typed
<1>1. Sets(s, j) BY <1>0, RunCommandIs
<1>2. j.kind = job[s].kind /\ j.pc = job[s].pc /\ j.ask = job[s].ask /\ j.plan = job[s].plan BY DEF Job
<1>3. job[s] # Free /\ todo # <<>> /\ record' = Over(p, "record", record) /\ files' = files /\ broken' = broken
  BY DEF RunCommand, BoardOnly, store
<1>4. job[s].pc # "free" /\ todo \in Seq(Command) BY <1>0, <1>3, AtWork
<1>5. j # Free BY <1>2, <1>4 DEF Free
<1>6. 1 \in DOMAIN todo /\ p = todo[1] /\ p \in Command BY <1>3, <1>4
<1>7. GoodPut(job[s], p) BY <1>3, <1>6 DEF PutsInv, PutsFit
<1> HIDE DEF j, todo, p
<1>8. \A i, ids : Clearing(job[s], i, ids) <=> Clearing(j, i, ids) BY <1>2, <1>3, <1>5 DEF Clearing, CanClear
<1>9. ASSUME NEW i \in Items, record'[i] = None PROVE record[i] = None \/ \A ids : Clearing(j, i, ids)
  <2>1. CASE p.key # "record" BY <1>3, <1>9, <2>1 DEF Over
  <2>2. CASE p.key = "record" /\ p.item \in Items
    <3>1. p.item # None BY <2>2, ContentAssumption
    <3>2. record' = [record EXCEPT ![p.item] = p.to] BY <1>3, <2>2, <3>1 DEF Over
    <3>3. i # p.item => record'[i] = record[i] BY <3>2
    <3>4. i = p.item => record'[i] = p.to BY <1>0, <3>2 DEF BoardTyped, Rows
    <3>5. CASE i = p.item
      <4>1. j.kind = "delete" /\ j.pc = "deleted" /\ i = j.ask BY <1>2, <1>7, <1>9, <2>2, <3>1, <3>4, <3>5 DEF GoodPut
      <4>2. QED BY <1>5, <4>1 DEF Clearing, CanClear
    <3>6. QED BY <1>9, <3>3, <3>5
  <2>3. CASE p.key = "record" /\ p.item \notin Items
    <3>1. j.kind = "replace" /\ j.pc = "clear" BY <1>2, <1>7, <2>3 DEF GoodPut
    <3>2. QED BY <1>5, <3>1 DEF Clearing, CanClear
  <2>4. QED BY <2>1, <2>2, <2>3
<1>10. QED BY <1>1, <1>3, <1>8, <1>9, OrphansKeep

LEMMA OrphansInit == ASSUME Init PROVE Orphans
<1>1. \A i \in Items : files[i] = <<>> BY DEF Init
<1>2. \A i \in Items : IdsIn(files[i]) = {} BY <1>1 DEF IdsIn, ToSet
<1>3. QED BY <1>2 DEF Orphans

LEMMA OrphansKept == ASSUME Typed, Blamed, PutsInv, Orphans, Next PROVE Orphans'
<1>1. ASSUME NEW s \in Tasks, Returns(s) PROVE Orphans'
  <2>1. Sets(s, Free) BY <1>1, OverIs DEF Typed
  <2>2. job[s] # Free /\ record' = record /\ files' = files /\ broken' = broken BY <1>1 DEF Returns, BoardOnly, board, store
  <2>3. CASE job[s].failed BY <2>2, <2>3, OrphansBroken DEF Blamed
  <2>4. CASE job[s].pc \in {"saved", "told"}
    <3>1. ~CanClear(job[s]) BY <2>4, AtPoint DEF Typed, SaveFits, TellFits, CanClear
    <3>2. QED BY <2>1, <2>2, <3>1, SameSpared, OrphansAside
  <2>5. QED BY <1>1, <2>3, <2>4 DEF Returns
<1>2. ASSUME NEW id, RemoveAttachment(id) PROVE Orphans'
  <2>1. RemoveFile(id) /\ job' = job /\ record' = record /\ broken' = broken BY <1>2 DEF RemoveAttachment, FilesOnly, board
  <2>2. \A i \in Items : IdsIn(files'[i]) \subseteq IdsIn(files[i]) BY <2>1, WithoutIds
  <2>3. ASSUME ~broken', NEW i \in Items, record'[i] = None, IdsIn(files'[i]) # {}
        PROVE \E t \in Tasks : Clearing(job'[t], i, IdsIn(files'[i]))
    <3>1. PICK t \in Tasks : Clearing(job[t], i, IdsIn(files[i])) BY <2>1, <2>2, <2>3 DEF Orphans
    <3>2. Clearing(job'[t], i, IdsIn(files'[i])) BY <2>1, <2>2, <3>1, FewerIds
    <3>3. QED BY <3>2
  <2>4. \A i : IdsIn(files[i])' = IdsIn(files'[i]) BY DEF IdsIn, ToSet
  <2>5. \A t, i : Clearing(job[t], i, IdsIn(files[i]))' <=> Clearing(job'[t], i, IdsIn(files'[i])) BY <2>4 DEF Clearing, CanClear
  <2>6. QED BY <2>3, <2>4, <2>5 DEF Orphans
<1>3. ASSUME NEW s \in Tasks, CommandFails(s) \/ RequestDies(s) PROVE Orphans'
  <2>1. broken' BY <1>3 DEF CommandFails, RequestDies, Breaks
  <2>2. QED BY <2>1, OrphansBroken
<1>4. ASSUME NEW s \in Tasks, FaultStep(s) PROVE Orphans' BY <1>3, <1>4, FileOrphans, ExportOrphans DEF FaultStep
<1>5. QED BY <1>1, <1>2, <1>4, ListOrphans, ChallengeOrphans, ImportOrphans, FileOrphans, ExportOrphans, RunOrphans, Steps

-----------------------------------------------------------------------------
LEMMA FilesKeptFollows == ASSUME Typed, FilesInv, Orphans PROVE FilesKept
<1>1. FilesReadable BY DEF FilesInv
<1>2. BlobsAccounted
  <2> SUFFICES ASSUME ~broken, AtRest({"upload", "refill", "import", "replace"}), NEW c \in blob
               PROVE \E att \in Attached : c \in Held(att)
    BY DEF BlobsAccounted
  <2>1. \A s \in Tasks : ~Writer(s)
    <3> SUFFICES ASSUME NEW s \in Tasks, Writer(s) PROVE FALSE OBVIOUS
    <3>1. job[s] # Free /\ job[s].kind \in {"upload", "refill", "import", "replace"}
      BY AtPoint DEF Typed, Writer, ImportFits, FileFits, Free
    <3>2. QED BY <3>1 DEF AtRest
  <2>2. QED BY <2>1 DEF FilesInv, Accounted
<1>3. NoOrphanFiles
  <2> SUFFICES ASSUME ~broken, AtRest({"delete", "replace"}), NEW i \in Items, record[i] = None PROVE files[i] = <<>>
    BY DEF NoOrphanFiles
  <2>1. IdsIn(files[i]) = {}
    <3>1. \A s \in Tasks : ~Clearing(job[s], i, IdsIn(files[i])) BY DEF AtRest, Clearing, CanClear
    <3>2. QED BY <3>1 DEF Orphans
  <2>2. files[i] \in Seq(Attachment) BY AtIs DEF Typed
  <2>3. ASSUME files[i] # <<>> PROVE FALSE
    <3>1. 1 \in DOMAIN files[i] BY <2>2, <2>3
    <3>2. files[i][1].id \in IdsIn(files[i]) BY <3>1 DEF IdsIn, ToSet
    <3>3. QED BY <2>1, <3>2
  <2>4. QED BY <2>3
<1>4. QED BY <1>1, <1>2, <1>3 DEF FilesKept

LEMMA TypesFollow == ASSUME Typed, BytesExact PROVE ContentTypeOK
<1>1. record \in [Items -> Record] /\ answer \in [Items -> Texts \union {None}] /\ categories \in Seq(Names) /\ stories \in [StoryIds -> Seq(Items)]
  BY DEF Typed, BoardTyped, Rows, Answers, GoodLists, GoodStories
<1>2. files \in [Items -> Seq(Attachment)] /\ blob \subseteq Nat \X Nat /\ made \in Nat BY DEF Typed, StoreTyped
<1>3. bytes \in Nat
  <2>1. Attached \subseteq Attachment /\ IsFiniteSet(Attached) BY AttachedIs DEF Typed
  <2>2. bytes = Weights(Attached) BY ExactIs DEF Typed
  <2>3. QED BY <2>1, <2>2, WeightsNat
<1>4. ASSUME NEW s \in Tasks, job[s] # Free PROVE job[s].kind \in BoardKinds \union {"upload", "refill"}
  <2>1. JobFits(job[s]) BY <1>4, AtWork DEF Typed
  <2>2. QED BY <2>1 DEF JobFits, ListFits, RenameFits, SaveFits, DeleteFits, TellFits, ImportFits, FileFits, ExportFits, BoardKinds
<1>5. {crossed, broken, swept, doubt} \subseteq BOOLEAN /\ half \subseteq Names BY DEF Typed, HistoryTyped
<1>6. QED BY <1>1, <1>2, <1>3, <1>4, <1>5 DEF ContentTypeOK

LEMMA ListsFollow == ASSUME Typed PROVE ListsWellFormed
BY DistinctSame DEF Typed, BoardTyped, GoodLists, GoodStories, ListsWellFormed

-----------------------------------------------------------------------------
\* The categories in use, and that the list or what broke off covers them.
Used(rec) == {rec[i].category : i \in Existing(rec)}
Covered(rec, list, h) == Used(rec) \subseteq ToSet(list) \union h
\* A command that writes a challenge gives it one of some names.
Brings(p, names) == p.key = "record" /\ p.item \in Items /\ p.to # None => p.to.category \in names

\* What a lone request keeps true of the categories, by its kind: the panel shows
\* what is in use, a rename moves all of its challenges before it writes its list,
\* an edit uses listed names, a clearing comes to nothing and an import to its list.
ListCover(j, rec, list, h) == j.ask = Used(rec) /\ j.plan = list /\ Covered(rec, list, h)
RenameCover(j, rec, list, h) ==
    /\ Used(rec) \subseteq ToSet(list) \union h \union {j.ask.to}
    /\ ToSet(list) \subseteq ToSet(j.plan) \union {j.ask.from} /\ j.ask.to \in ToSet(j.plan)
    /\ j.pc = "moving" => j.todo = <<>>
    /\ \A k \in DOMAIN j.todo : LET p == j.todo[k] IN
          p.key = "record" /\ p.item \in Items /\ p.to # None /\ p.to.category = j.ask.to
    /\ j.pc = "moved" /\ ~j.failed =>
          \A i \in Existing(rec) : rec[i].category = j.ask.from /\ j.ask.from # j.ask.to => \E k \in DOMAIN j.todo : j.todo[k].item = i
EditCover(j, rec, list, h) ==
    /\ Covered(rec, list, h)
    /\ \A k \in DOMAIN j.todo : j.todo[k].key # "categories" /\ Brings(j.todo[k], ToSet(list) \union h)
ClearCover(j, rec) ==
    /\ \A k \in DOMAIN j.todo : j.todo[k].key = "record" => j.todo[k].item = None /\ j.todo[k].to = Nothing
    /\ j.failed \/ Existing(rec) = {} \/ (j.todo # <<>> /\ Head(j.todo).key = "record")
EndsAt(todo, rec, list, h, F) ==
    /\ Used(rec) \subseteq F \union h
    /\ \A k \in DOMAIN todo : Brings(todo[k], F \union h) /\ (todo[k].key = "categories" => ToSet(todo[k].to) = F)
    /\ (\A k \in DOMAIN todo : todo[k].key # "categories") => F = ToSet(list)
Coming(j) == IF j.pc = "plan" THEN j.plan ELSE j.todo
BringCover(j, rec, list, h) ==
    LET todo == Coming(j)
        some == ToSet(list) \union h \union Unsettled(j)
    IN  /\ Used(rec) \subseteq some
        /\ \A k \in DOMAIN todo : /\ Brings(todo[k], some)
                                  /\ todo[k].key = "categories" => ToSet(list) \subseteq ToSet(todo[k].to)
        /\ \A k, l \in DOMAIN todo : todo[k].key = "categories" /\ todo[l].key = "categories" => todo[k].to = todo[l].to
        /\ ~j.failed /\ j.pc = "plan" => Covered(rec, list, h)
        /\ ~j.failed => \E F \in SUBSET Names : EndsAt(todo, rec, list, h, F)

EditKinds == {"save", "delete", "stories", "export"}
Covers(j, rec, list, h) ==
    /\ j.kind = "list" => ListCover(j, rec, list, h)
    /\ j.kind = "rename" => RenameCover(j, rec, list, h)
    /\ j.kind \in EditKinds => EditCover(j, rec, list, h)
    /\ j.kind \in {"import", "replace"} /\ j.pc = "clear" => ClearCover(j, rec)
    /\ j.kind \in {"import", "replace"} /\ j.pc # "clear" => BringCover(j, rec, list, h)

\* One request over the board at a time, unless two crossed.
OverBoard(j) == j # Free /\ j.kind \in BoardKinds
Alone(s) == \A t \in Tasks : OverBoard(job[t]) => t = s
CoverInv == ~crossed =>
    /\ \A s \in Tasks : OverBoard(job[s]) => Alone(s) /\ Covers(job[s], record, categories, half)
    /\ (\A s \in Tasks : ~OverBoard(job[s])) => Covered(record, categories, half)

\* What a request is left to be, when it is the only one over the board.
Leaves(j, rec, list, h) == (OverBoard(j) => Covers(j, rec, list, h)) /\ (~OverBoard(j) => Covered(rec, list, h))

\* The invariant of the step's end, in its terms.
LEMMA CoverNext ==
    ASSUME ~crossed' =>
              /\ \A t \in Tasks : OverBoard(job'[t]) => /\ \A u \in Tasks : OverBoard(job'[u]) => u = t
                                                        /\ Covers(job'[t], record', categories', half')
              /\ (\A t \in Tasks : ~OverBoard(job'[t])) => Covered(record', categories', half')
    PROVE  CoverInv'
BY DEF CoverInv, Alone, OverBoard, Covers, Covered, ListCover, RenameCover, EditCover, ClearCover, BringCover, Coming, EndsAt, Used, Existing, Unsettled

LEMMA CoverMoves ==
    ASSUME NEW s \in Tasks, NEW j, Sets(s, j),
           ~crossed' => Alone(s) /\ Leaves(j, record', categories', half')
    PROVE  CoverInv'
<1>1. job'[s] = j /\ \A t \in Tasks : t # s => job'[t] = job[t] BY SetsIs
<1>2. SUFFICES ASSUME ~crossed'
               PROVE /\ \A t \in Tasks : OverBoard(job'[t]) => /\ \A u \in Tasks : OverBoard(job'[u]) => u = t
                                                               /\ Covers(job'[t], record', categories', half')
                     /\ (\A t \in Tasks : ~OverBoard(job'[t])) => Covered(record', categories', half')
  BY CoverNext
<1>3. \A t \in Tasks : OverBoard(job'[t]) => t = s BY <1>1, <1>2 DEF Alone
<1>4. QED BY <1>1, <1>2, <1>3 DEF Leaves

\* A request over the board begins.
LEMMA CoverBegins ==
    ASSUME CoverInv, NEW s \in Tasks, NEW kind, Begins(s, kind), NEW j, Sets(s, j), OverBoard(j),
           Covered(record, categories, half) => Covers(j, record, categories, half)
    PROVE  CoverInv'
<1>1. record' = record /\ categories' = categories /\ half' = half BY DEF Begins, BoardOnly, board
<1>2. ASSUME ~crossed' PROVE ~crossed /\ \A t \in Tasks : ~OverBoard(job[t]) BY <1>2 DEF Begins, Crosses, OverBoard
<1>3. ASSUME ~crossed' PROVE Alone(s) /\ Leaves(j, record', categories', half')
  <2>1. Covered(record, categories, half) BY <1>2, <1>3 DEF CoverInv
  <2>2. Covers(j, record', categories', half') BY <1>1, <2>1
  <2>3. QED BY <1>2, <1>3, <2>2 DEF Alone, Leaves
<1>4. QED BY <1>3, CoverMoves

\* It goes on.
LEMMA CoverGoes ==
    ASSUME CoverInv, NEW s \in Tasks, OverBoard(job[s]), crossed' = crossed, NEW j, Sets(s, j),
           Covers(job[s], record, categories, half) => Leaves(j, record', categories', half')
    PROVE  CoverInv'
<1>1. ASSUME ~crossed' PROVE Alone(s) /\ Leaves(j, record', categories', half')
  <2>1. Alone(s) /\ Covers(job[s], record, categories, half) BY <1>1 DEF CoverInv
  <2>2. QED BY <2>1
<1>2. QED BY <1>1, CoverMoves

\* Another request does.
LEMMA CoverAside ==
    ASSUME CoverInv, NEW s \in Tasks, NEW j, Sets(s, j), ~OverBoard(job[s]), ~OverBoard(j),
           crossed' = crossed, record' = record, categories' = categories, half' = half
    PROVE  CoverInv'
<1>1. job'[s] = j /\ \A t \in Tasks : t # s => job'[t] = job[t] BY SetsIs
<1>2. SUFFICES ASSUME ~crossed'
               PROVE /\ \A t \in Tasks : OverBoard(job'[t]) => /\ \A u \in Tasks : OverBoard(job'[u]) => u = t
                                                               /\ Covers(job'[t], record', categories', half')
                     /\ (\A t \in Tasks : ~OverBoard(job'[t])) => Covered(record', categories', half')
  BY CoverNext
<1>3. /\ \A t \in Tasks : OverBoard(job[t]) => Alone(t) /\ Covers(job[t], record, categories, half)
      /\ (\A t \in Tasks : ~OverBoard(job[t])) => Covered(record, categories, half)
  BY <1>2 DEF CoverInv
<1>4. \A t \in Tasks : OverBoard(job'[t]) <=> OverBoard(job[t]) BY <1>1
<1>5. \A t \in Tasks : OverBoard(job'[t]) => job'[t] = job[t] BY <1>1
<1>6. \A t \in Tasks : OverBoard(job'[t]) => Covers(job'[t], record', categories', half') BY <1>3, <1>4, <1>5
<1>7. QED BY <1>3, <1>4, <1>6 DEF Alone

LEMMA NotOver == ~OverBoard(Free)
BY DEF OverBoard

\* The request over the board, told by its kind.
LEMMA CoversKind == ASSUME NEW j, NEW rec, NEW list, NEW h, Covers(j, rec, list, h)
    PROVE /\ j.kind = "list" => ListCover(j, rec, list, h)
          /\ j.kind = "rename" => RenameCover(j, rec, list, h)
          /\ j.kind \in EditKinds => EditCover(j, rec, list, h)
          /\ j.kind \in {"import", "replace"} /\ j.pc = "clear" => ClearCover(j, rec)
          /\ j.kind \in {"import", "replace"} /\ j.pc # "clear" => BringCover(j, rec, list, h)
BY DEF Covers

LEMMA KindCovers == ASSUME NEW j, NEW rec, NEW list, NEW h,
           \/ j.kind = "list" /\ ListCover(j, rec, list, h)
           \/ j.kind = "rename" /\ RenameCover(j, rec, list, h)
           \/ j.kind \in EditKinds /\ EditCover(j, rec, list, h)
           \/ j.kind \in {"import", "replace"} /\ j.pc = "clear" /\ ClearCover(j, rec)
           \/ j.kind \in {"import", "replace"} /\ j.pc # "clear" /\ BringCover(j, rec, list, h)
    PROVE Covers(j, rec, list, h) /\ (j # Free => OverBoard(j))
BY DEF Covers, EditKinds, OverBoard, BoardKinds

LEMMA EndLeaves == ASSUME NEW rec, NEW list, NEW h, Covered(rec, list, h) PROVE Leaves(Free, rec, list, h)
BY NotOver DEF Leaves

LEMMA SameCover == ASSUME UNCHANGED <<board, left, crossed>>, BoardOnly
    PROVE record' = record /\ categories' = categories /\ half' = half /\ crossed' = crossed
BY DEF board, BoardOnly

\* It ends.
LEMMA CoverEnds ==
    ASSUME CoverInv, NEW s \in Tasks, OverBoard(job[s]), crossed' = crossed, Sets(s, Free),
           Covers(job[s], record, categories, half) => Covered(record', categories', half')
    PROVE  CoverInv'
<1>1. Covers(job[s], record, categories, half) => Leaves(Free, record', categories', half') BY EndLeaves
<1>2. QED BY <1>1, CoverGoes

LEMMA OverAt == ASSUME JobsTyped, NEW s \in Tasks, job[s].pc # "free", job[s].kind \in BoardKinds PROVE OverBoard(job[s])
BY AtWork DEF OverBoard

LEMMA LoadPanelCover == ASSUME Typed, CoverInv, NEW s \in Tasks, LoadPanel(s) PROVE CoverInv'
<1> DEFINE ask == Used(record)
           todo == <<>>
<1>0. JobsTyped BY DEF Typed
<1>1. Begins(s, "list") BY DEF LoadPanel
<1>2. \E f, put : Sets(s, Job("list", "panel", ask, todo, categories, f, put)) BY <1>0, LoadPanelIs, Zenon DEF Used
<1>3. PICK f, put : Sets(s, Job("list", "panel", ask, todo, categories, f, put)) BY <1>2
<1> HIDE DEF todo, ask
<1> DEFINE j == Job("list", "panel", ask, todo, categories, f, put)
<1>4. j.kind = "list" /\ j.pc = "panel" /\ j.ask = ask /\ j.plan = categories BY DEF Job
<1>5. Sets(s, j) BY <1>3
<1> HIDE DEF j
<1>6. j # Free BY <1>4 DEF Free
<1>7. Covered(record, categories, half) => ListCover(j, record, categories, half) BY <1>4 DEF ListCover, ask
<1>8. OverBoard(j) /\ (Covered(record, categories, half) => Covers(j, record, categories, half))
  <2>1. OverBoard(j) BY <1>4, <1>6 DEF OverBoard, BoardKinds
  <2>2. QED BY <1>4, <1>7, <2>1, KindCovers
<1>9. QED BY <1>1, <1>5, <1>8, CoverBegins

\* A list without some of its entries has no twins, if it had none.
LEMMA WithoutKeeps ==
    ASSUME NEW S, NEW list \in Seq(S), NoTwins(list), NEW set
    PROVE  LET out == Without(list, set) IN out \in Seq(S) /\ NoTwins(out) /\ ToSet(out) = ToSet(list) \ set
<1> DEFINE out == Without(list, set)
<1> HIDE DEF out
<1>1. /\ out \in Seq(S) /\ Len(out) \in Nat /\ ToSet(out) = ToSet(list) \ set
      /\ \E at \in [1..Len(out) -> 1..Len(list)] :
           /\ \A n \in 1..Len(out) : out[n] = list[at[n]]
           /\ \A m, n \in 1..Len(out) : m # n => at[m] # at[n]
  BY WithoutIs DEF out
<1>2. PICK at \in [1..Len(out) -> 1..Len(list)] :
           /\ \A n \in 1..Len(out) : out[n] = list[at[n]]
           /\ \A m, n \in 1..Len(out) : m # n => at[m] # at[n]
  BY <1>1
<1>3. DOMAIN out = 1..Len(out) /\ DOMAIN list = 1..Len(list) BY <1>1
<1>4. NoTwins(out) BY <1>2, <1>3 DEF NoTwins
<1>5. QED BY <1>1, <1>4 DEF out

LEMMA SetCategoriesCover ==
    ASSUME Typed, CoverInv, NEW s \in Tasks, NEW added \in Seq(Names), NEW removed, SetCategories(s, added, removed)
    PROVE  CoverInv'
<1> DEFINE plan == job[s].plan
           rest == Without(plan, removed)
           list == Distinct(rest \o added)
<1>0. JobsTyped BY DEF Typed
<1>1. job[s].pc = "panel" /\ removed \cap job[s].ask = {} /\ categories' = list BY DEF SetCategories, Busy
<1>2. record' = record /\ half' = half /\ crossed' = crossed BY DEF SetCategories, BoardOnly
<1>3. ListFits(job[s]) BY <1>0, <1>1, AtPoint
<1>4. plan \in Seq(Names) /\ NoTwins(plan) BY <1>3 DEF ListFits, GoodLists
<1>5. Sets(s, Free) BY <1>0, SetCategoriesIs
<1>6. OverBoard(job[s]) BY <1>0, <1>1, <1>3, OverAt DEF ListFits, BoardKinds
<1> HIDE DEF plan, rest
<1>7. rest \in Seq(Names) /\ NoTwins(rest) /\ ToSet(rest) = ToSet(plan) \ removed BY <1>4, WithoutKeeps DEF rest
<1>8. ToSet(rest) \subseteq ToSet(list) BY <1>7, DistinctKeeps
<1> HIDE DEF list
<1>9. ASSUME Covers(job[s], record, categories, half) PROVE Covered(record', categories', half')
  <2>1. ListCover(job[s], record, categories, half) BY <1>3, <1>9, CoversKind DEF ListFits
  <2>2. ASSUME NEW name \in Used(record) PROVE name \in ToSet(list) \union half
    <3>1. name \notin removed /\ name \in ToSet(plan) \union half BY <1>1, <2>1, <2>2 DEF ListCover, Covered, plan
    <3>2. QED BY <1>7, <1>8, <3>1
  <2>3. QED BY <1>1, <1>2, <2>2 DEF Covered
<1>10. QED BY <1>2, <1>5, <1>6, <1>9, CoverEnds

LEMMA RenameBeginsCover ==
    ASSUME Typed, CoverInv, NEW s \in Tasks, NEW from \in Names, NEW to \in Names, RenameCategory(s, from, to)
    PROVE  CoverInv'
<1> DEFINE at == Min(Named(categories, from))
           ask == [from |-> categories[at], to |-> to]
           todo == <<>>
           plan == [categories EXCEPT ![at] = to]
<1>0. JobsTyped BY DEF Typed
<1>1. Begins(s, "rename") BY DEF RenameCategory
<1>2. \E f, put : Sets(s, Job("rename", "moving", ask, todo, plan, f, put)) BY <1>0, RenameIs, Zenon
<1>3. ToSet(categories) \subseteq ToSet(plan) \union {categories[at]} /\ to \in ToSet(plan)
  <2>1. categories \in GoodLists /\ Named(categories, from) # {} /\ Named(categories, to) \subseteq {at}
    BY DEF Typed, BoardTyped, RenameCategory
  <2>2. QED BY <2>1, RenamedList
<1>4. ask.from = categories[at] /\ ask.to = to OBVIOUS
<1>5. DOMAIN todo = {} /\ todo = <<>> OBVIOUS
<1> HIDE DEF at, ask, todo, plan
<1>6. PICK f, put : Sets(s, Job("rename", "moving", ask, todo, plan, f, put)) BY <1>2
<1> DEFINE j == Job("rename", "moving", ask, todo, plan, f, put)
<1>7. j.kind = "rename" /\ j.pc = "moving" /\ j.ask = ask /\ j.todo = todo /\ j.plan = plan BY DEF Job
<1>8. Sets(s, j) BY <1>6
<1> HIDE DEF j
<1>9. j # Free BY <1>7 DEF Free
<1>10. Covered(record, categories, half) => RenameCover(j, record, categories, half)
  BY <1>3, <1>4, <1>5, <1>7 DEF RenameCover, Covered
<1>11. OverBoard(j) BY <1>7, <1>9 DEF OverBoard, BoardKinds
<1>12. Covered(record, categories, half) => Covers(j, record, categories, half) BY <1>7, <1>10, KindCovers
<1>13. QED BY <1>1, <1>8, <1>11, <1>12, CoverBegins

LEMMA MoveChallengesCover == ASSUME Typed, CoverInv, NEW s \in Tasks, MoveChallenges(s) PROVE CoverInv'
<1> DEFINE ask == job[s].ask
           todo == Moves(ask)
           j == Job(job[s].kind, "moved", ask, todo, job[s].plan, job[s].failed, job[s].put)
<1>0. JobsTyped /\ BoardTyped BY DEF Typed
<1>1. Sets(s, j) BY <1>0, MoveChallengesIs
<1>2. job[s].pc = "moving" /\ record' = record /\ categories' = categories /\ half' = half /\ crossed' = crossed
  BY SameCover DEF MoveChallenges, Busy
<1>3. RenameFits(job[s]) BY <1>0, <1>2, AtPoint
<1>4. ask \in [from : Names, to : Names] BY <1>3 DEF RenameFits
<1>5. \A k \in DOMAIN todo : \E i \in Existing(record) : todo[k] = Put("record", i, [category |-> ask.to, text |-> record[i].text])
  BY <1>0, <1>4, MovesAre
<1>6. \A i \in Existing(record) : record[i].category = ask.from => \E k \in DOMAIN todo : todo[k].item = i
  BY <1>0, <1>4, MovesAre
<1>7. \A i \in Existing(record) : i \in Items /\ [category |-> ask.to, text |-> record[i].text] \in [category : Names, text : Texts]
  BY <1>0, <1>4 DEF Existing, BoardTyped, Rows, Record
<1>8. j.kind = "rename" /\ j.pc = "moved" /\ j.ask = ask /\ j.todo = todo /\ j.plan = job[s].plan
  BY <1>3 DEF Job, RenameFits
<1> HIDE DEF todo, j
<1>9. ASSUME NEW k \in DOMAIN todo
      PROVE todo[k].key = "record" /\ todo[k].item \in Items /\ todo[k].to # None /\ todo[k].to.category = ask.to
  <2>1. PICK i \in Existing(record) : todo[k] = Put("record", i, [category |-> ask.to, text |-> record[i].text]) BY <1>5
  <2>2. [category |-> ask.to, text |-> record[i].text] # None BY <1>7, ContentAssumption
  <2>3. QED BY <1>7, <2>1, <2>2 DEF Put
<1>10. j # Free BY <1>8 DEF Free
<1>11. ASSUME Covers(job[s], record, categories, half) PROVE Leaves(j, record', categories', half')
  <2>1. RenameCover(job[s], record, categories, half) BY <1>3, <1>11, CoversKind DEF RenameFits
  <2>2. RenameCover(j, record, categories, half) BY <1>6, <1>8, <1>9, <2>1 DEF RenameCover, ask
  <2>3. Covers(j, record, categories, half) /\ OverBoard(j) BY <1>8, <1>10, <2>2, KindCovers
  <2>4. QED BY <1>2, <2>3 DEF Leaves
<1>12. OverBoard(job[s]) BY <1>0, <1>2, <1>3, OverAt DEF RenameFits, BoardKinds
<1>13. QED BY <1>1, <1>2, <1>11, <1>12, CoverGoes

LEMMA WriteListCover == ASSUME Typed, CoverInv, NEW s \in Tasks, WriteList(s) PROVE CoverInv'
<1>0. JobsTyped BY DEF Typed
<1>1. Sets(s, Free) BY <1>0, WriteListIs
<1>2. job[s].pc = "moved" /\ job[s].todo = <<>> /\ ~job[s].failed /\ categories' = job[s].plan BY DEF WriteList, Busy
<1>3. record' = record /\ half' = half /\ crossed' = crossed BY DEF WriteList, BoardOnly
<1>4. RenameFits(job[s]) BY <1>0, <1>2, AtPoint
<1>5. OverBoard(job[s]) BY <1>0, <1>2, <1>4, OverAt DEF RenameFits, BoardKinds
<1>6. ASSUME Covers(job[s], record, categories, half) PROVE Covered(record', categories', half')
  <2>1. RenameCover(job[s], record, categories, half) BY <1>4, <1>6, CoversKind DEF RenameFits
  <2>2. DOMAIN job[s].todo = {} BY <1>2
  <2>3. \A i \in Existing(record) : record[i].category = job[s].ask.from => job[s].ask.from = job[s].ask.to
    BY <1>2, <2>1, <2>2 DEF RenameCover
  <2>4. ASSUME NEW name \in Used(record) PROVE name \in ToSet(job[s].plan) \union half
    <3>1. name = job[s].ask.from => name = job[s].ask.to BY <2>3 DEF Used
    <3>2. QED BY <2>1, <3>1 DEF RenameCover
  <2>5. QED BY <1>2, <1>3, <2>4 DEF Covered
<1>7. QED BY <1>1, <1>3, <1>5, <1>6, CoverEnds

LEMMA ListCovers == ASSUME Typed, CoverInv, NEW s \in Tasks, ListStep(s) PROVE CoverInv'
<1>1. ASSUME NEW added \in {<<>>} \union {<<n>> : n \in Names} PROVE added \in Seq(Names)
  <2>1. added = <<>> \/ \E n \in Names : added = <<n>> OBVIOUS
  <2>2. \A n \in Names : <<n>> \in Seq(Names) OBVIOUS
  <2>3. CASE added = <<>> BY <2>3
  <2>4. CASE \E n \in Names : added = <<n>> BY <2>2, <2>4
  <2>5. QED BY <2>1, <2>3, <2>4
<1>2. QED BY <1>1, LoadPanelCover, SetCategoriesCover, RenameBeginsCover, MoveChallengesCover, WriteListCover DEF ListStep

\* An edit begins, and goes on.
LEMMA EditBegins ==
    ASSUME CoverInv, NEW s \in Tasks, NEW kind \in EditKinds, Begins(s, kind), NEW j, Sets(s, j), j.kind = kind, j.pc # "free",
           \A k \in DOMAIN j.todo : j.todo[k].key # "categories" /\ Brings(j.todo[k], ToSet(categories))
    PROVE  CoverInv'
<1>1. j # Free BY DEF Free
<1>2. \A k \in DOMAIN j.todo : Brings(j.todo[k], ToSet(categories) \union half) BY DEF Brings
<1>3. Covered(record, categories, half) => EditCover(j, record, categories, half) BY <1>2 DEF EditCover
<1>4. Covered(record, categories, half) => Covers(j, record, categories, half) BY <1>3, KindCovers
<1>5. OverBoard(j) BY <1>1 DEF OverBoard, BoardKinds, EditKinds
<1>6. QED BY <1>4, <1>5, CoverBegins

LEMMA EditGoes ==
    ASSUME Typed, CoverInv, NEW s \in Tasks, job[s].pc # "free", job[s].kind \in EditKinds, NEW j, Sets(s, j),
           record' = record, categories' = categories, half' = half, crossed' = crossed,
           \/ j = Free
           \/ /\ j.kind = job[s].kind /\ j.pc # "free"
              /\ \A k \in DOMAIN j.todo : j.todo[k].key \notin {"categories", "record"}
    PROVE  CoverInv'
<1>1. JobsTyped BY DEF Typed
<1>2. OverBoard(job[s]) BY <1>1, OverAt DEF EditKinds, BoardKinds
<1>3. ASSUME Covers(job[s], record, categories, half) PROVE Leaves(j, record', categories', half')
  <2>1. Covered(record, categories, half) BY <1>3, CoversKind DEF EditCover
  <2>2. CASE j = Free BY <2>1, <2>2, EndLeaves
  <2>3. CASE /\ j.kind = job[s].kind /\ j.pc # "free"
             /\ \A k \in DOMAIN j.todo : j.todo[k].key \notin {"categories", "record"}
    <3>1. j # Free BY <2>3 DEF Free
    <3>2. EditCover(j, record, categories, half) BY <2>1, <2>3 DEF EditCover, Brings
    <3>3. Covers(j, record, categories, half) /\ OverBoard(j) BY <2>3, <3>1, <3>2, KindCovers
    <3>4. QED BY <3>3 DEF Leaves
  <2>4. QED BY <2>2, <2>3
<1>4. QED BY <1>2, <1>3, CoverGoes

LEMMA SaveCover ==
    ASSUME Typed, CoverInv, NEW s \in Tasks, NEW i \in Items, NEW n \in Names, NEW t \in Texts, Save(s, i, n, t)
    PROVE  CoverInv'
<1> DEFINE r == [category |-> n, text |-> t]
           p == Put("record", i, r)
           q == Put("answer", i, t)
           todo == <<p, q>>
<1>0. JobsTyped BY DEF Typed
<1>1. n \in ToSet(categories) BY DEF Save, Contains, ToSet
<1>2. Begins(s, "save") BY DEF Save
<1>3. \E plan, put, f : Sets(s, Job("save", "saved", i, todo, plan, f, put)) BY <1>0, SaveIs, Zenon
<1>4. r.category = n OBVIOUS
<1> HIDE DEF r
<1>5. p.key = "record" /\ p.to = r /\ q.key = "answer" BY DEF Put
<1> HIDE DEF p, q
<1>6. PICK plan, put, f : Sets(s, Job("save", "saved", i, todo, plan, f, put)) BY <1>3
<1> DEFINE j == Job("save", "saved", i, todo, plan, f, put)
<1>7. j.kind = "save" /\ j.pc = "saved" /\ j.todo = todo BY DEF Job
<1>8. Sets(s, j) BY <1>6
<1> HIDE DEF j
<1>9. \A k \in DOMAIN todo : todo[k] = p \/ todo[k] = q OBVIOUS
<1>10. \A k \in DOMAIN j.todo : j.todo[k].key # "categories" /\ Brings(j.todo[k], ToSet(categories))
  BY <1>1, <1>4, <1>5, <1>7, <1>9 DEF Brings
<1>11. "save" \in EditKinds BY DEF EditKinds
<1>12. QED BY <1>2, <1>7, <1>8, <1>10, <1>11, EditBegins

LEMMA DeleteCover == ASSUME Typed, CoverInv, NEW s \in Tasks, NEW i \in Items, Delete(s, i) PROVE CoverInv'
<1> DEFINE p == Put("record", i, None)
           q == Put("answer", i, None)
           todo == <<p, q>>
<1>0. JobsTyped BY DEF Typed
<1>1. Begins(s, "delete") BY DEF Delete
<1>2. \E plan, put, f : Sets(s, Job("delete", "deleted", i, todo, plan, f, put)) BY <1>0, DeleteIs, Zenon
<1>3. p.key = "record" /\ p.to = None /\ q.key = "answer" BY DEF Put
<1> HIDE DEF p, q
<1>4. PICK plan, put, f : Sets(s, Job("delete", "deleted", i, todo, plan, f, put)) BY <1>2
<1> DEFINE j == Job("delete", "deleted", i, todo, plan, f, put)
<1>5. j.kind = "delete" /\ j.pc = "deleted" /\ j.todo = todo BY DEF Job
<1>6. Sets(s, j) BY <1>4
<1> HIDE DEF j
<1>7. \A k \in DOMAIN todo : todo[k] = p \/ todo[k] = q OBVIOUS
<1>8. \A k \in DOMAIN j.todo : j.todo[k].key # "categories" /\ Brings(j.todo[k], ToSet(categories))
  BY <1>3, <1>5, <1>7 DEF Brings
<1>9. "delete" \in EditKinds BY DEF EditKinds
<1>10. QED BY <1>1, <1>5, <1>6, <1>8, <1>9, EditBegins

LEMMA CheckStepsCover == ASSUME Typed, CoverInv, NEW s \in Tasks, NEW all, CheckSteps(s, all) PROVE CoverInv'
<1> DEFINE p == Put("stories", None, all)
           todo == <<p>>
<1>0. JobsTyped BY DEF Typed
<1>1. Begins(s, "stories") BY DEF CheckSteps
<1>2. \E plan, put, f : Sets(s, Job("stories", "told", None, todo, plan, f, put)) BY <1>0, CheckStepsIs, Zenon
<1>3. p.key = "stories" BY DEF Put
<1> HIDE DEF p
<1>4. PICK plan, put, f : Sets(s, Job("stories", "told", None, todo, plan, f, put)) BY <1>2
<1> DEFINE j == Job("stories", "told", None, todo, plan, f, put)
<1>5. j.kind = "stories" /\ j.pc = "told" /\ j.todo = todo BY DEF Job
<1>6. Sets(s, j) BY <1>4
<1> HIDE DEF j
<1>7. \A k \in DOMAIN todo : todo[k] = p OBVIOUS
<1>8. \A k \in DOMAIN j.todo : j.todo[k].key # "categories" /\ Brings(j.todo[k], ToSet(categories))
  BY <1>3, <1>5, <1>7 DEF Brings
<1>9. "stories" \in EditKinds BY DEF EditKinds
<1>10. QED BY <1>1, <1>5, <1>6, <1>8, <1>9, EditBegins

LEMMA ExportCover == ASSUME Typed, CoverInv, NEW s \in Tasks, Export(s) PROVE CoverInv'
<1> DEFINE todo == <<>>
<1>0. JobsTyped BY DEF Typed
<1>1. Begins(s, "export") BY DEF Export
<1>2. \E ask, plan, put, f : Sets(s, Job("export", "reading", ask, todo, plan, f, put)) BY <1>0, ExportIs, Zenon
<1>3. DOMAIN todo = {} OBVIOUS
<1> HIDE DEF todo
<1>4. PICK ask, plan, put, f : Sets(s, Job("export", "reading", ask, todo, plan, f, put)) BY <1>2
<1> DEFINE j == Job("export", "reading", ask, todo, plan, f, put)
<1>5. j.kind = "export" /\ j.pc = "reading" /\ j.todo = todo BY DEF Job
<1>6. Sets(s, j) BY <1>4
<1> HIDE DEF j
<1>7. "export" \in EditKinds BY DEF EditKinds
<1>8. QED BY <1>1, <1>3, <1>5, <1>6, <1>7, EditBegins

\* A request that is an edit goes on to a point with nothing to send.
LEMMA EditIdles ==
    ASSUME Typed, CoverInv, NEW s \in Tasks, job[s].pc # "free", job[s].kind \in EditKinds,
           record' = record, categories' = categories, half' = half, crossed' = crossed,
           NEW pc, NEW ask, NEW todo, NEW plan, NEW f, NEW put, pc # "free",
           Sets(s, Job(job[s].kind, pc, ask, todo, plan, f, put)),
           \A k \in DOMAIN todo : todo[k].key \notin {"categories", "record"}
    PROVE  CoverInv'
<1> DEFINE j == Job(job[s].kind, pc, ask, todo, plan, f, put)
<1>1. j.kind = job[s].kind /\ j.pc = pc /\ j.todo = todo BY DEF Job
<1>2. Sets(s, j) OBVIOUS
<1> HIDE DEF j
<1>3. QED BY <1>1, <1>2, EditGoes

LEMMA ChallengeCovers == ASSUME Typed, CoverInv, NEW s \in Tasks, ChallengeStep(s) PROVE CoverInv'
<1>0. JobsTyped BY DEF Typed
<1>1. CASE ReadStories(s)
  <2>1. job[s].pc = "deleted" /\ record' = record /\ categories' = categories /\ half' = half /\ crossed' = crossed
    BY <1>1, SameCover DEF ReadStories, Busy
  <2>2. job[s].kind \in EditKinds BY <1>0, <2>1, AtPoint DEF DeleteFits, EditKinds
  <2> DEFINE p == Put("stories", None, Shrunk(job[s].ask))
  <2>3. \E todo \in {<<>>, <<p>>} : Sets(s, Job(job[s].kind, "shrunk", job[s].ask, todo, job[s].plan, job[s].failed, job[s].put))
    BY <1>0, <1>1, ReadStoriesIs
  <2>4. p.key = "stories" BY DEF Put
  <2> HIDE DEF p
  <2>5. PICK todo \in {<<>>, <<p>>} : Sets(s, Job(job[s].kind, "shrunk", job[s].ask, todo, job[s].plan, job[s].failed, job[s].put))
    BY <2>3
  <2>6. \A k \in DOMAIN todo : todo[k] = p OBVIOUS
  <2>7. QED BY <2>1, <2>2, <2>4, <2>5, <2>6, EditIdles
<1>2. CASE ListFiles(s)
  <2>1. /\ job[s].pc = "shrunk" /\ record' = record /\ categories' = categories /\ half' = half /\ crossed' = crossed
        /\ job[s].todo = <<>>
    BY <1>2, SameCover DEF ListFiles, Busy
  <2>2. job[s].kind \in EditKinds BY <1>0, <2>1, AtPoint DEF DeleteFits, EditKinds
  <2>3. DOMAIN job[s].todo = {} BY <2>1
  <2>4. QED BY <1>0, <1>2, <2>1, <2>2, <2>3, ListFilesIs, EditIdles
<1>3. CASE RemoveNext(s)
  <2>1. /\ job[s].pc = "remove" /\ record' = record /\ categories' = categories /\ half' = half /\ crossed' = crossed
        /\ job[s].todo = <<>>
    BY <1>3 DEF RemoveNext, Busy, FilesOnly, board
  <2>2. job[s].kind \in EditKinds BY <1>0, <2>1, AtPoint DEF DeleteFits, EditKinds
  <2>3. DOMAIN job[s].todo = {} BY <2>1
  <2>4. CASE Sets(s, Free) BY <2>1, <2>2, <2>4, EditGoes
  <2>5. CASE Sets(s, Job(job[s].kind, job[s].pc, job[s].ask, job[s].todo, Tail(job[s].plan), job[s].failed, job[s].put))
    BY <2>1, <2>2, <2>3, <2>5, EditIdles
  <2>6. QED BY <1>0, <1>3, <2>4, <2>5, RemoveNextIs
<1>4. QED BY <1>1, <1>2, <1>3, SaveCover, DeleteCover, CheckStepsCover DEF ChallengeStep

LEMMA ExportCovers == ASSUME Typed, CoverInv, NEW s \in Tasks, ExportStep(s) \/ \E part \in Parts : ExportUnread(s, part) PROVE CoverInv'
<1>0. JobsTyped BY DEF Typed
<1>1. ASSUME job[s].pc = "reading" PROVE job[s].kind \in EditKinds /\ DOMAIN job[s].todo = {}
  BY <1>0, <1>1, AtPoint DEF ExportFits, EditKinds
<1>2. ASSUME NEW part, ExportRead(s, part) PROVE CoverInv'
  <2>1. job[s].pc = "reading" /\ record' = record /\ categories' = categories /\ half' = half /\ crossed' = crossed
    BY <1>2, SameCover DEF ExportRead, Busy
  <2>2. QED BY <1>0, <1>1, <1>2, <2>1, ExportReadIs, EditIdles
<1>3. ASSUME NEW part, ExportUnread(s, part) PROVE CoverInv'
  <2>1. job[s].pc = "reading" /\ record' = record /\ categories' = categories /\ half' = half /\ crossed' = crossed
    BY <1>3 DEF ExportUnread, Busy, BoardOnly, board
  <2>2. QED BY <1>0, <1>1, <1>3, <2>1, ExportUnreadIs, EditIdles
<1>4. CASE ExportDone(s)
  <2>1. job[s].pc = "reading" /\ record' = record /\ categories' = categories /\ half' = half /\ crossed' = crossed
    BY <1>4 DEF ExportDone, Busy, board
  <2>2. QED BY <1>0, <1>1, <1>4, <2>1, ExportDoneIs, EditGoes
<1>5. QED BY <1>2, <1>3, <1>4, ExportCover DEF ExportStep

\* What a request that stops leaves covers what is in use, once what it was bringing is told.
LEMMA SettledBy ==
    ASSUME Typed, NEW s \in Tasks, OverBoard(job[s]), Covers(job[s], record, categories, half),
           NEW h, half \subseteq h, Unsettled(job[s]) \subseteq h
    PROVE  Covered(record, categories, h)
<1>0. JobsTyped /\ BoardTyped /\ job[s] # Free BY DEF Typed, OverBoard
<1>1. CASE job[s].kind = "list"
  <2>1. ListCover(job[s], record, categories, half) BY <1>1, CoversKind
  <2>2. QED BY <2>1 DEF ListCover, Covered
<1>2. CASE job[s].kind = "rename"
  <2>1. RenameCover(job[s], record, categories, half) BY <1>2, CoversKind
  <2>2. Unsettled(job[s]) = {job[s].ask.to} BY <1>2 DEF Unsettled
  <2>3. QED BY <2>1, <2>2 DEF RenameCover, Covered
<1>3. CASE job[s].kind \in EditKinds
  <2>1. EditCover(job[s], record, categories, half) BY <1>3, CoversKind
  <2>2. QED BY <2>1 DEF EditCover, Covered
<1>4. CASE job[s].kind \in {"import", "replace"} /\ job[s].pc = "clear"
  <2>1. job[s].kind = "replace" BY <1>0, <1>4, AtPoint DEF ImportFits
  <2>2. Unsettled(job[s]) = Names BY <2>1 DEF Unsettled
  <2>3. Used(record) \subseteq Names BY <1>0 DEF Used, Existing, BoardTyped, Rows, Record
  <2>4. QED BY <2>2, <2>3 DEF Covered
<1>5. CASE job[s].kind \in {"import", "replace"} /\ job[s].pc # "clear"
  <2>1. BringCover(job[s], record, categories, half) BY <1>5, CoversKind
  <2>2. QED BY <2>1 DEF BringCover, Covered
<1>6. QED BY <1>1, <1>2, <1>3, <1>4, <1>5 DEF OverBoard, BoardKinds, EditKinds

\* An import with nothing in hand: what is in use is on the list.
LEMMA BringSettled ==
    ASSUME Typed, Blamed, NEW s \in Tasks, OverBoard(job[s]), Covers(job[s], record, categories, half),
           job[s].kind \in {"import", "replace"}, job[s].pc # "clear", job[s].todo = <<>>
    PROVE  Covered(record, categories, half)
<1>0. job[s] # Free BY DEF OverBoard
<1>1. CASE job[s].failed
  <2>1. Unsettled(job[s]) \subseteq half BY <1>0, <1>1 DEF Blamed
  <2>2. QED BY <2>1, SettledBy
<1>2. CASE ~job[s].failed
  <2>1. BringCover(job[s], record, categories, half) BY CoversKind
  <2>2. CASE job[s].pc = "plan" BY <1>2, <2>1, <2>2 DEF BringCover
  <2>3. CASE job[s].pc # "plan"
    <3>1. Coming(job[s]) = <<>> BY <2>3 DEF Coming
    <3>2. PICK F \in SUBSET Names : EndsAt(Coming(job[s]), record, categories, half, F) BY <1>2, <2>1 DEF BringCover
    <3>3. F = ToSet(categories) /\ Used(record) \subseteq F \union half BY <3>1, <3>2 DEF EndsAt
    <3>4. QED BY <3>3 DEF Covered
  <2>4. QED BY <2>2, <2>3
<1>3. QED BY <1>1, <1>2

LEMMA BringIdle ==
    ASSUME NEW j, NEW rec, NEW list \in GoodLists, NEW h, j.kind \in {"import", "replace"}, j.pc \notin {"free", "clear", "plan"},
           j.todo = <<>>, Covered(rec, list, h)
    PROVE  Covers(j, rec, list, h) /\ OverBoard(j)
<1>1. Coming(j) = <<>> /\ j # Free BY DEF Coming, Free
<1>2. ToSet(list) \in SUBSET Names BY DEF GoodLists, ToSet
<1>3. DOMAIN Coming(j) = {} BY <1>1
<1>4. EndsAt(Coming(j), rec, list, h, ToSet(list)) BY <1>3 DEF EndsAt, Covered
<1>5. BringCover(j, rec, list, h) BY <1>2, <1>3, <1>4 DEF BringCover, Covered
<1>6. QED BY <1>1, <1>5, KindCovers

\* An import goes on with nothing in hand, or ends.
LEMMA BringGoes ==
    ASSUME Typed, Blamed, CoverInv, NEW s \in Tasks, job[s].kind \in {"import", "replace"}, job[s].pc \notin {"free", "clear"},
           job[s].todo = <<>>, NEW j, Sets(s, j),
           record' = record, categories' = categories, half' = half, crossed' = crossed,
           j = Free \/ (j.kind \in {"import", "replace"} /\ j.pc \notin {"free", "clear", "plan"} /\ j.todo = <<>>)
    PROVE  CoverInv'
<1>0. JobsTyped /\ categories \in GoodLists BY DEF Typed, BoardTyped
<1>1. OverBoard(job[s]) BY <1>0, OverAt DEF BoardKinds
<1>2. ASSUME Covers(job[s], record, categories, half) PROVE Leaves(j, record', categories', half')
  <2>1. Covered(record, categories, half) BY <1>1, <1>2, BringSettled
  <2>2. CASE j = Free BY <2>1, <2>2, EndLeaves
  <2>3. CASE j.kind \in {"import", "replace"} /\ j.pc \notin {"free", "clear", "plan"} /\ j.todo = <<>>
    <3>1. Covers(j, record, categories, half) /\ OverBoard(j) BY <1>0, <2>1, <2>3, BringIdle
    <3>2. QED BY <3>1 DEF Leaves
  <2>4. QED BY <2>2, <2>3
<1>3. QED BY <1>1, <1>2, CoverGoes

LEMMA BringIdles ==
    ASSUME Typed, Blamed, CoverInv, NEW s \in Tasks, job[s].kind \in {"import", "replace"}, job[s].pc \notin {"free", "clear"},
           job[s].todo = <<>>, record' = record, categories' = categories, half' = half, crossed' = crossed,
           NEW pc, pc \notin {"free", "clear", "plan"}, NEW plan, NEW put,
           Sets(s, Job(job[s].kind, pc, job[s].ask, job[s].todo, plan, job[s].failed, put))
    PROVE  CoverInv'
<1> DEFINE j == Job(job[s].kind, pc, job[s].ask, job[s].todo, plan, job[s].failed, put)
<1>1. j.kind = job[s].kind /\ j.pc = pc /\ j.todo = job[s].todo BY DEF Job
<1>2. Sets(s, j) OBVIOUS
<1> HIDE DEF j
<1>3. QED BY <1>1, <1>2, BringGoes

LEMMA ImportCover == ASSUME Typed, CoverInv, NEW s \in Tasks, NEW b, Import(s, b) PROVE CoverInv'
<1> DEFINE todo == <<>>
<1>0. JobsTyped /\ categories \in GoodLists BY DEF Typed, BoardTyped
<1>1. Begins(s, "import") BY DEF Import
<1>2. \E plan, put, f : Sets(s, Job("import", "read", b, todo, plan, f, put)) BY <1>0, ImportIs, Zenon
<1>3. todo = <<>> OBVIOUS
<1> HIDE DEF todo
<1>4. PICK plan, put, f : Sets(s, Job("import", "read", b, todo, plan, f, put)) BY <1>2
<1> DEFINE j == Job("import", "read", b, todo, plan, f, put)
<1>5. j.kind = "import" /\ j.pc = "read" /\ j.todo = todo BY DEF Job
<1>6. Sets(s, j) BY <1>4
<1> HIDE DEF j
<1>7. OverBoard(j) BY <1>5 DEF OverBoard, Free, BoardKinds
<1>8. Covered(record, categories, half) => Covers(j, record, categories, half) BY <1>0, <1>3, <1>5, BringIdle
<1>9. QED BY <1>1, <1>6, <1>7, <1>8, CoverBegins

LEMMA ReplaceCover == ASSUME Typed, CoverInv, NEW s \in Tasks, NEW b, Replace(s, b) PROVE CoverInv'
<1> DEFINE p1 == Put("record", None, Nothing)
           p2 == Put("answer", None, Nothing)
           p3 == Put("categories", None, <<>>)
           p4 == Put("stories", None, NoSteps)
<1>0. JobsTyped BY DEF Typed
<1>1. Begins(s, "replace") BY DEF Replace
<1>2. \E plan, put, f : Sets(s, Job("replace", "clear", b, Cleared, plan, f, put)) BY <1>0, ReplaceIs, Zenon
<1>3. p1.item = None /\ p1.to = Nothing /\ p1.key = "record" /\ p2.key # "record" /\ p3.key # "record" /\ p4.key # "record" BY DEF Put
<1>4. Cleared = <<p1, p2, p3, p4>> BY DEF Cleared
<1> HIDE DEF p1, p2, p3, p4
<1>5. /\ \A k \in DOMAIN Cleared : Cleared[k] \in {p1, p2, p3, p4}
      /\ Cleared # <<>> /\ Head(Cleared) = p1
  BY <1>4
<1>6. PICK plan, put, f : Sets(s, Job("replace", "clear", b, Cleared, plan, f, put)) BY <1>2
<1> DEFINE j == Job("replace", "clear", b, Cleared, plan, f, put)
<1>7. j.kind = "replace" /\ j.pc = "clear" /\ j.todo = Cleared BY DEF Job
<1>8. Sets(s, j) BY <1>6
<1> HIDE DEF j
<1>9. ClearCover(j, record) BY <1>3, <1>5, <1>7 DEF ClearCover
<1>10. OverBoard(j) BY <1>7 DEF OverBoard, Free, BoardKinds
<1>11. Covers(j, record, categories, half) BY <1>7, <1>9, KindCovers
<1>12. QED BY <1>1, <1>8, <1>10, <1>11, CoverBegins

LEMMA ClearFilesCover == ASSUME Typed, CoverInv, NEW s \in Tasks, ClearFiles(s) PROVE CoverInv'
<1> DEFINE j == Job(job[s].kind, "read", job[s].ask, job[s].todo, job[s].plan, job[s].failed, job[s].put)
<1>0. JobsTyped /\ categories \in GoodLists BY DEF Typed, BoardTyped
<1>1. Sets(s, j) BY <1>0, ClearFilesIs
<1>2. /\ job[s].pc = "clear" /\ job[s].todo = <<>> /\ ~job[s].failed
      /\ record' = record /\ categories' = categories /\ half' = half /\ crossed' = crossed
  BY DEF ClearFiles, Busy, FilesOnly, board
<1>3. job[s].kind \in {"import", "replace"} BY <1>0, <1>2, AtPoint DEF ImportFits
<1>4. OverBoard(job[s]) BY <1>0, <1>2, <1>3, OverAt DEF BoardKinds
<1>5. j.kind = job[s].kind /\ j.pc = "read" /\ j.todo = <<>> BY <1>2 DEF Job
<1> HIDE DEF j
<1>6. ASSUME Covers(job[s], record, categories, half) PROVE Leaves(j, record', categories', half')
  <2>1. ClearCover(job[s], record) BY <1>2, <1>3, <1>6, CoversKind
  <2>2. Existing(record) = {} BY <1>2, <2>1 DEF ClearCover
  <2>3. Covered(record, categories, half) BY <2>2 DEF Covered, Used
  <2>4. Covers(j, record, categories, half) /\ OverBoard(j) BY <1>0, <1>3, <1>5, <2>3, BringIdle
  <2>5. QED BY <1>2, <2>4 DEF Leaves
<1>7. QED BY <1>1, <1>2, <1>4, <1>6, CoverGoes

\* What an import writes are challenges in categories of its list, which it writes once.
LEMMA WritesCover ==
    ASSUME BoardTyped, NEW b \in Bundles, Accepts(stories, b.stories), Len(Unioned(categories, b.categories)) <= ListMax
    PROVE  LET F == ToSet(Unioned(categories, b.categories))
               out == Writes(b)
           IN  /\ F \in SUBSET Names /\ ToSet(categories) \subseteq F /\ F \subseteq ToSet(categories) \union ToSet(b.categories)
               /\ \A k \in DOMAIN out : /\ Brings(out[k], F)
                                        /\ out[k].key = "categories" => out[k].to = Unioned(categories, b.categories)
               /\ \E k \in DOMAIN out : out[k].key = "categories"
<1> DEFINE list == Unioned(categories, b.categories)
           n == Len(b.challenges)
           out == Writes(b)
           row(k) == [category |-> Spelling(list, b.challenges[k].category), text |-> b.challenges[k].text]
           N == 2 * n
<1>1. /\ list \in GoodLists /\ n \in Nat /\ DOMAIN out = 1..(N + 2)
      /\ \A k \in 1..n : /\ Spelling(list, b.challenges[k].category) \in ToSet(list)
                         /\ out[2 * k - 1] = Put("record", b.challenges[k].item, row(k))
                         /\ out[2 * k] = Put("answer", b.challenges[k].item, b.challenges[k].text)
      /\ out[N + 1] = Put("categories", None, list)
      /\ out[N + 2] = Put("stories", None, Merged(stories, b.stories))
      /\ ToSet(categories) \subseteq ToSet(list)
      /\ ToSet(list) \subseteq ToSet(categories) \union ToSet(b.categories)
  BY WritesAre
<1>2. \A k \in 1..n : row(k).category \in ToSet(list) BY <1>1
<1> HIDE DEF list, out, row
<1>3. ToSet(list) \in SUBSET Names BY <1>1 DEF GoodLists, ToSet
<1> DEFINE Fine(p) == Brings(p, ToSet(list)) /\ (p.key = "categories" => p.to = list)
<1>4. ASSUME NEW k \in 1..n PROVE Fine(out[2 * k - 1]) /\ Fine(out[2 * k])
  <2> DEFINE p == out[2 * k - 1]
             q == out[2 * k]
  <2>1. p = Put("record", b.challenges[k].item, row(k)) /\ q = Put("answer", b.challenges[k].item, b.challenges[k].text) BY <1>1
  <2> HIDE DEF p, q
  <2>2. p.key = "record" /\ p.to = row(k) /\ q.key = "answer" BY <2>1 DEF Put
  <2>3. Fine(p) /\ Fine(q) BY <1>2, <2>2 DEF Brings
  <2>4. QED BY <2>3 DEF p, q
<1>5. Fine(out[N + 1]) /\ Fine(out[N + 2]) /\ out[N + 1].key = "categories"
  <2> DEFINE p == out[N + 1]
             q == out[N + 2]
  <2>1. p = Put("categories", None, list) /\ q = Put("stories", None, Merged(stories, b.stories)) BY <1>1
  <2> HIDE DEF p, q
  <2>2. p.key = "categories" /\ p.to = list /\ q.key = "stories" BY <2>1 DEF Put
  <2>3. Fine(p) /\ Fine(q) BY <2>2 DEF Brings
  <2>4. QED BY <2>2, <2>3 DEF p, q
<1>6. ASSUME NEW m \in 1..(N + 2) PROVE Fine(out[m])
  <2>1. m = N + 1 \/ m = N + 2 \/ \E k \in 1..n : m = 2 * k - 1 \/ m = 2 * k BY <1>1, EvenOrOdd
  <2> HIDE DEF Fine
  <2>2. QED BY <1>4, <1>5, <2>1
<1>7. N + 1 \in DOMAIN out BY <1>1
<1>8. QED BY <1>1, <1>3, <1>5, <1>6, <1>7 DEF list, out

LEMMA ReadBoardCover == ASSUME Typed, Blamed, CoverInv, NEW s \in Tasks, ReadBoard(s) PROVE CoverInv'
<1>0. JobsTyped /\ BoardTyped BY DEF Typed
<1>1. /\ job[s].pc = "read" /\ job[s].todo = <<>>
      /\ record' = record /\ categories' = categories /\ half' = half /\ crossed' = crossed
  BY SameCover DEF ReadBoard, Busy
<1>2. job[s].kind \in {"import", "replace"} /\ job[s].ask \in Bundles BY <1>0, <1>1, AtPoint DEF ImportFits
<1>3. CASE Sets(s, Free) BY <1>1, <1>2, <1>3, BringGoes
<1>4. CASE /\ Accepts(stories, job[s].ask.stories)
           /\ Len(Unioned(categories, job[s].ask.categories)) <= ListMax
           /\ Sets(s, Job(job[s].kind, "plan", job[s].ask, job[s].todo, Writes(job[s].ask), job[s].failed, job[s].put))
  <2> DEFINE b == job[s].ask
             out == Writes(b)
             F == ToSet(Unioned(categories, b.categories))
             j == Job(job[s].kind, "plan", b, job[s].todo, out, job[s].failed, job[s].put)
  <2>1. Sets(s, j) BY <1>4
  <2>2. j.kind = job[s].kind /\ j.pc = "plan" /\ j.ask = b /\ j.plan = out BY DEF Job
  <2>3. /\ F \in SUBSET Names /\ ToSet(categories) \subseteq F /\ F \subseteq ToSet(categories) \union ToSet(b.categories)
        /\ \A k \in DOMAIN out : Brings(out[k], F) /\ (out[k].key = "categories" => out[k].to = Unioned(categories, b.categories))
        /\ \E k \in DOMAIN out : out[k].key = "categories"
    BY <1>0, <1>2, <1>4, WritesCover
  <2> HIDE DEF j, out
  <2>4. Coming(j) = out BY <2>2 DEF Coming
  <2>5. F \subseteq ToSet(categories) \union Unsettled(j)
    <3>1. CASE job[s].kind = "import" BY <2>2, <2>3, <3>1 DEF Unsettled
    <3>2. CASE job[s].kind = "replace" BY <2>2, <2>3, <3>2 DEF Unsettled
    <3>3. QED BY <1>2, <3>1, <3>2
  <2>6. \A k \in DOMAIN out : out[k].key = "categories" => ToSet(out[k].to) = F BY <2>3
  <2>7. \A k, l \in DOMAIN out : out[k].key = "categories" /\ out[l].key = "categories" => out[k].to = out[l].to BY <2>3
  <2>8. \A k \in DOMAIN out : Brings(out[k], F) BY <2>3
  <2> HIDE DEF F
  <2>9. OverBoard(job[s]) BY <1>0, <1>1, <1>2, OverAt DEF BoardKinds
  <2>10. ASSUME Covers(job[s], record, categories, half) PROVE Leaves(j, record', categories', half')
    <3>1. Covered(record, categories, half) BY <1>1, <1>2, <2>9, <2>10, BringSettled
    <3>2. EndsAt(out, record, categories, half, F) BY <2>3, <2>6, <2>8, <3>1 DEF EndsAt, Covered, Brings
    <3>3. \A k \in DOMAIN out : Brings(out[k], ToSet(categories) \union half \union Unsettled(j)) BY <2>5, <2>8 DEF Brings
    <3>4. BringCover(j, record, categories, half) BY <2>2, <2>3, <2>4, <2>6, <2>7, <3>1, <3>2, <3>3 DEF BringCover, Covered
    <3>5. Covers(j, record, categories, half) BY <1>2, <2>2, <3>4, KindCovers
    <3>6. QED BY <1>1, <1>2, <2>2, <3>5, KindCovers, NotOver DEF Leaves, OverBoard, Free, BoardKinds
  <2>11. QED BY <1>1, <2>1, <2>9, <2>10, CoverGoes
<1>5. QED BY <1>0, <1>3, <1>4, ReadBoardIs

LEMMA PlanFilesCover == ASSUME Typed, Blamed, CoverInv, NEW s \in Tasks, PlanFiles(s) PROVE CoverInv'
<1>0. JobsTyped BY DEF Typed
<1>1. /\ job[s].pc = "plan" /\ job[s].todo = <<>>
      /\ record' = record /\ categories' = categories /\ half' = half /\ crossed' = crossed
  BY SameCover DEF PlanFiles, Busy
<1>2. job[s].kind \in {"import", "replace"} BY <1>0, <1>1, AtPoint DEF ImportFits
<1>3. CASE Sets(s, Free) BY <1>1, <1>2, <1>3, BringGoes
<1>4. CASE Sets(s, Job(job[s].kind, "attach", job[s].ask, job[s].plan, Additions(job[s].ask), job[s].failed, job[s].put))
  <2> DEFINE j == Job(job[s].kind, "attach", job[s].ask, job[s].plan, Additions(job[s].ask), job[s].failed, job[s].put)
  <2>1. Sets(s, j) BY <1>4
  <2>2. j.kind = job[s].kind /\ j.pc = "attach" /\ j.ask = job[s].ask /\ j.todo = job[s].plan /\ j.failed = job[s].failed BY DEF Job
  <2> HIDE DEF j
  <2>3. Coming(j) = Coming(job[s]) /\ Unsettled(j) = Unsettled(job[s]) BY <1>1, <2>2 DEF Coming, Unsettled
  <2>4. OverBoard(job[s]) /\ OverBoard(j) BY <1>0, <1>1, <1>2, <2>2, OverAt DEF BoardKinds, OverBoard, Free
  <2>5. ASSUME Covers(job[s], record, categories, half) PROVE Leaves(j, record', categories', half')
    <3>1. BringCover(job[s], record, categories, half) BY <1>1, <1>2, <2>5, CoversKind
    <3>2. BringCover(j, record, categories, half)
      <4> DEFINE todo == Coming(job[s])
                 some == ToSet(categories) \union half \union Unsettled(job[s])
      <4>1. /\ Used(record) \subseteq some
            /\ \A k \in DOMAIN todo : Brings(todo[k], some) /\ (todo[k].key = "categories" => ToSet(categories) \subseteq ToSet(todo[k].to))
            /\ \A k, l \in DOMAIN todo : todo[k].key = "categories" /\ todo[l].key = "categories" => todo[k].to = todo[l].to
            /\ ~job[s].failed => \E F \in SUBSET Names : EndsAt(todo, record, categories, half, F)
        BY <3>1 DEF BringCover
      <4>2. todo = Coming(j) /\ some = ToSet(categories) \union half \union Unsettled(j) BY <2>3
      <4> HIDE DEF todo, some
      <4>3. QED BY <2>2, <4>1, <4>2 DEF BringCover
    <3>3. Covers(j, record, categories, half) BY <1>2, <2>2, <3>2, KindCovers
    <3>4. QED BY <1>1, <2>4, <3>3 DEF Leaves
  <2>6. QED BY <1>1, <2>1, <2>4, <2>5, CoverGoes
<1>5. QED BY <1>0, <1>3, <1>4, PlanFilesIs

LEMMA ImportCovers == ASSUME Typed, Blamed, CoverInv, NEW s \in Tasks, ImportStep(s) PROVE CoverInv'
<1>0. JobsTyped BY DEF Typed
<1>1. CASE AttachNext(s)
  <2>1. /\ job[s].pc = "attach" /\ job[s].todo = <<>>
        /\ record' = record /\ categories' = categories /\ half' = half /\ crossed' = crossed
    BY <1>1 DEF AttachNext, Busy, FilesOnly, board
  <2>2. job[s].kind \in {"import", "replace"} BY <1>0, <2>1, AtPoint DEF ImportFits
  <2>3. CASE Sets(s, Free) BY <2>1, <2>2, <2>3, BringGoes
  <2>4. CASE \E plan : Sets(s, Job(job[s].kind, "find", job[s].ask, job[s].todo, plan, job[s].failed, job[s].put))
    BY <2>1, <2>2, <2>4, BringIdles
  <2>5. CASE Sets(s, Job(job[s].kind, job[s].pc, job[s].ask, job[s].todo, Tail(job[s].plan), job[s].failed, job[s].put))
    BY <2>1, <2>2, <2>5, BringIdles
  <2>6. QED BY <1>0, <1>1, <2>3, <2>4, <2>5, AttachNextIs
<1>2. CASE FindNext(s)
  <2>1. /\ job[s].pc = "find" /\ job[s].todo = <<>>
        /\ record' = record /\ categories' = categories /\ half' = half /\ crossed' = crossed
    BY <1>2 DEF FindNext, Busy, FilesOnly, board
  <2>2. job[s].kind \in {"import", "replace"} BY <1>0, <2>1, AtPoint DEF ImportFits
  <2>3. CASE Sets(s, Free) BY <2>1, <2>2, <2>3, BringGoes
  <2>4. CASE \E put : Sets(s, Job(job[s].kind, "chunks", job[s].ask, job[s].todo, Tail(job[s].plan), job[s].failed, put))
    BY <2>1, <2>2, <2>4, BringIdles
  <2>5. CASE Sets(s, Job(job[s].kind, job[s].pc, job[s].ask, job[s].todo, Tail(job[s].plan), job[s].failed, job[s].put))
    BY <2>1, <2>2, <2>5, BringIdles
  <2>6. QED BY <1>0, <1>2, <2>3, <2>4, <2>5, FindNextIs
<1>3. QED BY <1>1, <1>2, ImportCover, ReplaceCover, ClearFilesCover, ReadBoardCover, PlanFilesCover DEF ImportStep

\* A request for one file leaves the board, and whoever edits it, alone.
LEMMA FileAside ==
    ASSUME Typed, CoverInv, NEW s \in Tasks, job[s] = Free \/ job[s].kind \in {"upload", "refill"}, NEW j, Sets(s, j),
           record' = record, categories' = categories, half' = half, crossed' = crossed,
           j = Free \/ j.kind \in {"upload", "refill"}
    PROVE  CoverInv'
<1>1. ~OverBoard(job[s]) /\ ~OverBoard(j) BY DEF OverBoard, BoardKinds
<1>2. QED BY <1>1, CoverAside

LEMMA FileAsides ==
    ASSUME Typed, CoverInv, NEW s \in Tasks, NEW kind \in {"upload", "refill"}, job[s] = Free \/ job[s].kind = kind,
           NEW pc, NEW ask, NEW todo, NEW plan, NEW failed, NEW put, Sets(s, Job(kind, pc, ask, todo, plan, failed, put)),
           record' = record, categories' = categories, half' = half, crossed' = crossed
    PROVE  CoverInv'
<1> DEFINE j == Job(kind, pc, ask, todo, plan, failed, put)
<1>1. j.kind = kind BY DEF Job
<1>2. Sets(s, j) OBVIOUS
<1> HIDE DEF j
<1>3. QED BY <1>1, <1>2, FileAside

LEMMA FileCovers == ASSUME Typed, Blamed, CoverInv, NEW s \in Tasks, FileStep(s) \/ ChunkFails(s) \/ FinishUnheard(s) PROVE CoverInv'
<1>0. JobsTyped BY DEF Typed
<1>1. ASSUME NEW i, NEW c, Upload(s, i, c) PROVE CoverInv'
  <2>1. job[s] = Free /\ record' = record /\ categories' = categories /\ half' = half /\ crossed' = crossed
    BY <1>1 DEF Upload, FilesOnly, board
  <2>2. \E todo, plan, f, put : Sets(s, Job("upload", "chunks", i, todo, plan, f, put)) BY <1>0, <1>1, UploadIs, Zenon
  <2>3. QED BY <2>1, <2>2, FileAsides
<1>2. ASSUME NEW i, NEW c, Refill(s, i, c) PROVE CoverInv'
  <2>1. job[s] = Free /\ record' = record /\ categories' = categories /\ half' = half /\ crossed' = crossed
    BY <1>2 DEF Refill, FilesOnly, board
  <2>2. \E todo, plan, f, put : Sets(s, Job("refill", "chunks", i, todo, plan, f, put)) BY <1>0, <1>2, RefillIs, Zenon
  <2>3. QED BY <2>1, <2>2, FileAsides
<1>3. ASSUME job[s].pc \in {"chunks", "drop"}, record' = record, categories' = categories, half' = half, crossed' = crossed,
             \/ Sets(s, Free)
             \/ \E pc, plan, put : /\ pc \notin {"free", "clear", "plan"}
                                   /\ Sets(s, Job(job[s].kind, pc, job[s].ask, job[s].todo, plan, job[s].failed, put))
      PROVE CoverInv'
  <2>1. job[s].todo = <<>> BY <1>0, <1>3, AtPoint DEF ImportFits, FileFits
  <2>2. CASE job[s].kind \in {"import", "replace"} BY <1>3, <2>1, <2>2, BringGoes, BringIdles
  <2>3. CASE job[s].kind \in {"upload", "refill"} BY <1>3, <2>3, FileAside, FileAsides
  <2>4. QED BY <1>0, <1>3, <2>2, <2>3, AtPoint DEF ImportFits, FileFits
<1>4. CASE PutChunk(s)
  <2>1. job[s].pc = "chunks" /\ record' = record /\ categories' = categories /\ half' = half /\ crossed' = crossed
    BY <1>4 DEF PutChunk, Busy, FilesOnly, board
  <2>2. QED BY <1>0, <1>3, <1>4, <2>1, PutChunkIs
<1>5. CASE Finish(s)
  <2>1. job[s].pc = "chunks" /\ record' = record /\ categories' = categories /\ half' = half /\ crossed' = crossed
    BY <1>5 DEF Finish, Written, Busy, FilesOnly, board
  <2>2. QED BY <1>0, <1>3, <1>5, <2>1, FinishIs
<1>6. CASE DropChunks(s)
  <2>1. job[s].pc = "drop" /\ record' = record /\ categories' = categories /\ half' = half /\ crossed' = crossed
    BY <1>6 DEF DropChunks, Busy, FilesOnly, board
  <2>2. QED BY <1>0, <1>3, <1>6, <2>1, DropChunksIs
<1>7. CASE ChunkFails(s) \/ FinishUnheard(s)
  <2>1. job[s].pc = "chunks" /\ record' = record /\ categories' = categories /\ half' = half /\ crossed' = crossed
    BY <1>7 DEF ChunkFails, FinishUnheard, Written, Busy, FilesOnly, board
  <2>2. QED BY <1>0, <1>3, <1>7, <2>1, DropsIs
<1>8. QED BY <1>1, <1>2, <1>4, <1>5, <1>6, <1>7 DEF FileStep

\* What a command makes of the challenges in use and of the list.
LEMMA CommandUses ==
    ASSUME NEW rec \in Rows, NEW list, NEW rec2, NEW list2, NEW p \in Command, rec2 = Over(p, "record", rec), list2 = Over(p, "categories", list)
    PROVE  /\ p.key = "record" /\ p.item \in Items =>
                 /\ list2 = list
                 /\ \A i \in Existing(rec2) : IF i = p.item THEN rec2[i] = p.to /\ p.to # None ELSE i \in Existing(rec) /\ rec2[i] = rec[i]
           /\ p.key = "record" /\ p.item \notin Items => list2 = list /\ rec2 = p.to /\ p.item = None
           /\ p.key = "categories" => rec2 = rec /\ list2 = p.to
           /\ p.key \notin {"record", "categories"} => rec2 = rec /\ list2 = list
<1>0. None \notin Items BY ContentAssumption
<1>1. ASSUME p.key = "record", p.item \in Items, NEW i \in Existing(rec2)
      PROVE IF i = p.item THEN rec2[i] = p.to /\ p.to # None ELSE i \in Existing(rec) /\ rec2[i] = rec[i]
  <2>1. p.item # None BY <1>0, <1>1
  <2>2. rec2 = [rec EXCEPT ![p.item] = p.to] BY <1>1, <2>1 DEF Over
  <2>3. i \in Items /\ rec2[i] # None BY DEF Existing
  <2>4. QED BY <1>1, <2>2, <2>3 DEF Existing, Rows
<1>2. p.key = "categories" => p.item = None BY CommandIs
<1>3. p.key = "record" /\ p.item \notin Items => p.item = None BY CommandIs
<1>4. QED BY <1>1, <1>2, <1>3 DEF Over

LEMMA TailOf == ASSUME NEW S, NEW todo \in Seq(S), todo # <<>>
    PROVE /\ 1 \in DOMAIN todo /\ Head(todo) = todo[1] /\ Head(todo) \in S
          /\ \A k \in DOMAIN Tail(todo) : k + 1 \in DOMAIN todo /\ Tail(todo)[k] = todo[k + 1]
          /\ \A k \in DOMAIN todo : k = 1 \/ (k - 1 \in DOMAIN Tail(todo) /\ Tail(todo)[k - 1] = todo[k])
OBVIOUS

\* A pipeline goes on by a command p: each kind's cover is kept.
LEMMA EditRuns ==
    ASSUME NEW i, NEW j, NEW rec, NEW list, NEW h, NEW rec2, NEW todo \in Seq(Command), todo # <<>>, i.todo = todo, j.todo = Tail(todo),
           EditCover(i, rec, list, h), Used(rec2) \subseteq Used(rec) \union ToSet(list) \union h
    PROVE  EditCover(j, rec2, list, h)
<1>1. \A k \in DOMAIN Tail(todo) : k + 1 \in DOMAIN todo /\ Tail(todo)[k] = todo[k + 1] BY TailOf
<1>2. \A k \in DOMAIN todo : todo[k].key # "categories" /\ Brings(todo[k], ToSet(list) \union h) BY DEF EditCover
<1>3. \A k \in DOMAIN Tail(todo) : Tail(todo)[k].key # "categories" /\ Brings(Tail(todo)[k], ToSet(list) \union h) BY <1>1, <1>2
<1>4. QED BY <1>3 DEF EditCover, Covered

LEMMA RenameRuns ==
    ASSUME NEW i, NEW j, NEW rec \in Rows, NEW list, NEW h, NEW rec2, NEW todo \in Seq(Command), todo # <<>>, i.todo = todo,
           j.todo = Tail(todo), j.ask = i.ask, j.plan = i.plan, j.pc = i.pc, j.failed = i.failed,
           RenameCover(i, rec, list, h), rec2 = Over(Head(todo), "record", rec)
    PROVE  RenameCover(j, rec2, list, h)
<1> DEFINE p == Head(todo)
           ask == i.ask
<1>1. /\ 1 \in DOMAIN todo /\ p = todo[1] /\ p \in Command
      /\ \A k \in DOMAIN Tail(todo) : k + 1 \in DOMAIN todo /\ Tail(todo)[k] = todo[k + 1]
      /\ \A k \in DOMAIN todo : k = 1 \/ (k - 1 \in DOMAIN Tail(todo) /\ Tail(todo)[k - 1] = todo[k])
  BY TailOf
<1>2. \A k \in DOMAIN todo : todo[k].key = "record" /\ todo[k].item \in Items /\ todo[k].to # None /\ todo[k].to.category = ask.to
  BY DEF RenameCover
<1>3. p.key = "record" /\ p.item \in Items /\ p.to.category = ask.to BY <1>1, <1>2
<1> DEFINE list0 == Over(p, "categories", list)
<1>4. \A x \in Existing(rec2) : IF x = p.item THEN rec2[x] = p.to ELSE x \in Existing(rec) /\ rec2[x] = rec[x]
  <2>1. list0 = Over(p, "categories", list) OBVIOUS
  <2> HIDE DEF list0
  <2>2. QED BY <1>1, <1>3, <2>1, CommandUses
<1> HIDE DEF p
<1>5. Used(rec2) \subseteq Used(rec) \union {ask.to}
  <2> SUFFICES ASSUME NEW x \in Existing(rec2) PROVE rec2[x].category \in Used(rec) \union {ask.to} BY DEF Used
  <2>1. QED BY <1>3, <1>4 DEF Used
<1>6. \A k \in DOMAIN Tail(todo) : LET q == Tail(todo)[k] IN q.key = "record" /\ q.item \in Items /\ q.to # None /\ q.to.category = ask.to
  BY <1>1, <1>2
<1>7. i.pc # "moving" BY DEF RenameCover
<1>8. ASSUME i.pc = "moved", ~i.failed, NEW x \in Existing(rec2), rec2[x].category = ask.from, ask.from # ask.to
      PROVE  \E k \in DOMAIN Tail(todo) : Tail(todo)[k].item = x
  <2>1. x # p.item /\ x \in Existing(rec) /\ rec[x].category = ask.from BY <1>3, <1>4, <1>8
  <2>2. PICK k \in DOMAIN todo : todo[k].item = x BY <1>8, <2>1 DEF RenameCover
  <2>3. k # 1 BY <1>1, <2>1, <2>2
  <2>4. QED BY <1>1, <2>2, <2>3
<1>9. QED BY <1>5, <1>6, <1>7, <1>8 DEF RenameCover

LEMMA ClearRuns ==
    ASSUME NEW i, NEW j, NEW rec \in Rows, NEW rec2, NEW todo \in Seq(Command), todo # <<>>, i.todo = todo,
           j.todo = Tail(todo), j.failed = i.failed, ClearCover(i, rec), rec2 = Over(Head(todo), "record", rec)
    PROVE  ClearCover(j, rec2)
<1> DEFINE p == Head(todo)
<1>1. /\ 1 \in DOMAIN todo /\ p = todo[1] /\ p \in Command
      /\ \A k \in DOMAIN Tail(todo) : k + 1 \in DOMAIN todo /\ Tail(todo)[k] = todo[k + 1]
  BY TailOf
<1>2. \A k \in DOMAIN todo : todo[k].key = "record" => todo[k].item = None /\ todo[k].to = Nothing BY DEF ClearCover
<1>3. \A k \in DOMAIN Tail(todo) : Tail(todo)[k].key = "record" => Tail(todo)[k].item = None /\ Tail(todo)[k].to = Nothing
  BY <1>1, <1>2
<1>4. i.failed \/ Existing(rec2) = {}
  <2>1. CASE p.key = "record"
    <3>1. rec2 = Nothing BY <1>1, <1>2, <2>1 DEF Over
    <3>2. QED BY <3>1 DEF Existing, Nothing
  <2>2. CASE p.key # "record"
    <3>1. rec2 = rec BY <2>2 DEF Over
    <3>2. i.failed \/ Existing(rec) = {} BY <2>2 DEF ClearCover
    <3>3. QED BY <3>1, <3>2
  <2>3. QED BY <2>1, <2>2
<1>5. QED BY <1>3, <1>4 DEF ClearCover

\* What an import's cover says of the commands it has, of some names.
Fits(todo, rec, list, some) ==
    /\ Used(rec) \subseteq some
    /\ \A k \in DOMAIN todo : Brings(todo[k], some) /\ (todo[k].key = "categories" => ToSet(list) \subseteq ToSet(todo[k].to))
    /\ \A k, l \in DOMAIN todo : todo[k].key = "categories" /\ todo[l].key = "categories" => todo[k].to = todo[l].to
Reaches(todo, rec, list, h) == \E F \in SUBSET Names : EndsAt(todo, rec, list, h, F)

LEMMA BringFits == ASSUME NEW j, NEW rec, NEW list, NEW h, j.pc # "plan"
    PROVE BringCover(j, rec, list, h) <=>
             /\ Fits(j.todo, rec, list, ToSet(list) \union h \union Unsettled(j))
             /\ ~j.failed => Reaches(j.todo, rec, list, h)
<1>1. Coming(j) = j.todo BY DEF Coming
<1> DEFINE some == ToSet(list) \union h \union Unsettled(j)
           todo == j.todo
<1>2. BringCover(j, rec, list, h) <=>
        /\ Used(rec) \subseteq some
        /\ \A k \in DOMAIN Coming(j) : /\ Brings(Coming(j)[k], some)
                                       /\ Coming(j)[k].key = "categories" => ToSet(list) \subseteq ToSet(Coming(j)[k].to)
        /\ \A k, l \in DOMAIN Coming(j) : Coming(j)[k].key = "categories" /\ Coming(j)[l].key = "categories" => Coming(j)[k].to = Coming(j)[l].to
        /\ ~j.failed => \E F \in SUBSET Names : EndsAt(Coming(j), rec, list, h, F)
  BY DEF BringCover
<1> HIDE DEF some
<1>3. BringCover(j, rec, list, h) <=>
        /\ Used(rec) \subseteq some
        /\ \A k \in DOMAIN todo : Brings(todo[k], some) /\ (todo[k].key = "categories" => ToSet(list) \subseteq ToSet(todo[k].to))
        /\ \A k, l \in DOMAIN todo : todo[k].key = "categories" /\ todo[l].key = "categories" => todo[k].to = todo[l].to
        /\ ~j.failed => \E F \in SUBSET Names : EndsAt(todo, rec, list, h, F)
  BY <1>1, <1>2
<1>4. BringCover(j, rec, list, h) <=> Fits(j.todo, rec, list, some) /\ (~j.failed => Reaches(j.todo, rec, list, h))
  BY <1>3 DEF Fits, Reaches
<1>5. QED BY <1>4 DEF some

LEMMA BringRuns ==
    ASSUME NEW i, NEW j, NEW rec \in Rows, NEW list, NEW h, NEW rec2, NEW list2, NEW todo \in Seq(Command), todo # <<>>,
           i.pc # "plan", i.todo = todo, j.todo = Tail(todo), j.pc = i.pc, j.kind = i.kind, j.ask = i.ask, j.failed = i.failed,
           BringCover(i, rec, list, h), rec2 = Over(Head(todo), "record", rec), list2 = Over(Head(todo), "categories", list),
           Head(todo).key = "record" => Head(todo).item \in Items
    PROVE  BringCover(j, rec2, list2, h)
<1> DEFINE p == Head(todo)
           rest == Tail(todo)
           some == ToSet(list) \union h \union Unsettled(i)
           some2 == ToSet(list2) \union h \union Unsettled(i)
<1>1. /\ 1 \in DOMAIN todo /\ p = todo[1] /\ p \in Command
      /\ \A k \in DOMAIN rest : k + 1 \in DOMAIN todo /\ rest[k] = todo[k + 1]
      /\ \A k \in DOMAIN todo : k = 1 \/ (k - 1 \in DOMAIN rest /\ rest[k - 1] = todo[k])
  BY TailOf
<1>2. Unsettled(j) = Unsettled(i) BY DEF Unsettled
<1>3. /\ Used(rec) \subseteq some
      /\ \A k \in DOMAIN todo : Brings(todo[k], some) /\ (todo[k].key = "categories" => ToSet(list) \subseteq ToSet(todo[k].to))
      /\ \A k, l \in DOMAIN todo : todo[k].key = "categories" /\ todo[l].key = "categories" => todo[k].to = todo[l].to
      /\ ~i.failed => \E F \in SUBSET Names : EndsAt(todo, rec, list, h, F)
  <2> HIDE DEF some
  <2>1. Fits(todo, rec, list, some) /\ (~i.failed => Reaches(todo, rec, list, h)) BY BringFits DEF some
  <2>2. QED BY <2>1 DEF Fits, Reaches
<1>4. /\ p.key = "record" => /\ list2 = list /\ p.item \in Items
                             /\ \A x \in Existing(rec2) : IF x = p.item THEN rec2[x] = p.to /\ p.to # None ELSE x \in Existing(rec) /\ rec2[x] = rec[x]
      /\ p.key = "categories" => rec2 = rec /\ list2 = p.to
      /\ p.key \notin {"record", "categories"} => rec2 = rec /\ list2 = list
  BY <1>1, CommandUses
<1> HIDE DEF p, rest
<1>5. ASSUME NEW names, Used(rec) \subseteq names, Brings(p, names) PROVE Used(rec2) \subseteq names
  <2> SUFFICES ASSUME NEW x \in Existing(rec2) PROVE rec2[x].category \in names BY DEF Used
  <2>1. CASE p.key = "record" BY <1>4, <1>5, <2>1 DEF Used, Brings
  <2>2. CASE p.key # "record" BY <1>4, <1>5, <2>2 DEF Used
  <2>3. QED BY <2>1, <2>2
<1>6. ToSet(list) \subseteq ToSet(list2) BY <1>1, <1>3, <1>4
<1>7. some \subseteq some2 BY <1>6
<1>8. Used(rec2) \subseteq some2
  <2> HIDE DEF some, some2
  <2>1. Used(rec2) \subseteq some BY <1>1, <1>3, <1>5
  <2>2. QED BY <1>7, <2>1
<1>9. ASSUME NEW k \in DOMAIN rest
      PROVE Brings(rest[k], some2) /\ (rest[k].key = "categories" => ToSet(list2) \subseteq ToSet(rest[k].to))
  <2> HIDE DEF some, some2
  <2>1. Brings(rest[k], some2) BY <1>1, <1>3, <1>7 DEF Brings
  <2>2. rest[k].key = "categories" => ToSet(list2) \subseteq ToSet(rest[k].to) BY <1>1, <1>3, <1>4
  <2>3. QED BY <2>1, <2>2
<1>10. \A k, l \in DOMAIN rest : rest[k].key = "categories" /\ rest[l].key = "categories" => rest[k].to = rest[l].to BY <1>1, <1>3
<1>11. ASSUME ~i.failed PROVE \E F \in SUBSET Names : EndsAt(rest, rec2, list2, h, F)
  <2>1. PICK F \in SUBSET Names : EndsAt(todo, rec, list, h, F) BY <1>3, <1>11
  <2>2. /\ Used(rec) \subseteq F \union h
        /\ \A k \in DOMAIN todo : Brings(todo[k], F \union h) /\ (todo[k].key = "categories" => ToSet(todo[k].to) = F)
        /\ (\A k \in DOMAIN todo : todo[k].key # "categories") => F = ToSet(list)
    BY <2>1 DEF EndsAt
  <2>3. Used(rec2) \subseteq F \union h BY <1>1, <1>5, <2>2
  <2>4. ASSUME NEW k \in DOMAIN rest PROVE Brings(rest[k], F \union h) /\ (rest[k].key = "categories" => ToSet(rest[k].to) = F)
    <3>1. k + 1 \in DOMAIN todo /\ rest[k] = todo[k + 1] BY <1>1
    <3> DEFINE q == todo[k + 1]
    <3>2. Brings(q, F \union h) /\ (q.key = "categories" => ToSet(q.to) = F) BY <2>2, <3>1
    <3> HIDE DEF q
    <3>3. rest[k] = q BY <3>1 DEF q
    <3>4. QED BY <3>2, <3>3
  <2>5. ASSUME \A k \in DOMAIN rest : rest[k].key # "categories" PROVE F = ToSet(list2)
    <3>1. CASE p.key = "categories" BY <1>1, <1>4, <2>2, <3>1
    <3>2. CASE p.key # "categories"
      <4>1. \A k \in DOMAIN todo : todo[k].key # "categories" BY <1>1, <2>5, <3>2
      <4>2. QED BY <1>4, <2>2, <3>2, <4>1
    <3>3. QED BY <3>1, <3>2
  <2>6. EndsAt(rest, rec2, list2, h, F) BY <2>3, <2>4, <2>5 DEF EndsAt
  <2>7. QED BY <2>6
<1>12. Fits(rest, rec2, list2, some2)
  <2> HIDE DEF some, some2
  <2>1. QED BY <1>8, <1>9, <1>10 DEF Fits
<1>13. ~i.failed => Reaches(rest, rec2, list2, h) BY <1>11 DEF Reaches
<1>14. j.todo = rest BY DEF rest
<1>15. some2 = ToSet(list2) \union h \union Unsettled(j) BY <1>2
<1> HIDE DEF some, some2
<1>16. Fits(j.todo, rec2, list2, ToSet(list2) \union h \union Unsettled(j)) /\ (~j.failed => Reaches(j.todo, rec2, list2, h))
  BY <1>12, <1>13, <1>14, <1>15
<1>17. QED BY <1>16, BringFits

\* A request with commands in hand is one over the board, past its reads.
LEMMA InHand ==
    ASSUME JobsTyped, NEW s \in Tasks, job[s] # Free, job[s].todo # <<>>
    PROVE  /\ OverBoard(job[s]) /\ job[s].todo \in Seq(Command)
           /\ job[s].kind \in {"rename", "import", "replace"} \union EditKinds /\ job[s].kind # "export"
           /\ job[s].pc # "plan" /\ job[s].pc # "free"
           /\ job[s].pc = "clear" => job[s].kind = "replace"
<1>1. job[s].todo \in Seq(Command) /\ job[s].pc # "free" /\ JobFits(job[s]) BY AtWork
<1>2. job[s].kind \in {"rename", "save", "delete", "stories", "import", "replace"}
  BY <1>1 DEF JobFits, ListFits, RenameFits, SaveFits, DeleteFits, TellFits, ImportFits, FileFits, ExportFits
<1>3. job[s].pc # "plan" /\ (job[s].pc = "clear" => job[s].kind = "replace") BY AtPoint DEF ImportFits
<1>4. QED BY <1>1, <1>2, <1>3 DEF OverBoard, BoardKinds, EditKinds

LEMMA RunCover == ASSUME Typed, PutsInv, CoverInv, NEW s \in Tasks, RunCommand(s) PROVE CoverInv'
<1> DEFINE todo == job[s].todo
           p == Head(todo)
           i == job[s]
           j == Job(i.kind, i.pc, i.ask, Tail(todo), i.plan, i.failed, i.put)
<1>0. JobsTyped /\ record \in Rows /\ categories \in GoodLists BY DEF Typed, BoardTyped
<1>1. i # Free /\ todo # <<>> BY DEF RunCommand
<1>2. /\ OverBoard(i) /\ todo \in Seq(Command) /\ i.pc # "plan" /\ i.pc # "free"
      /\ i.kind \in {"rename", "import", "replace"} \union EditKinds /\ i.kind # "export"
      /\ i.pc = "clear" => i.kind = "replace"
  BY <1>0, <1>1, InHand
<1>3. /\ record' = Over(p, "record", record) /\ categories' = Over(p, "categories", categories)
      /\ half' = half /\ crossed' = crossed
  BY DEF RunCommand, BoardOnly
<1>4. Sets(s, j) BY <1>0, RunCommandIs
<1>5. /\ j.kind = i.kind /\ j.pc = i.pc /\ j.ask = i.ask /\ j.todo = Tail(todo) /\ j.plan = i.plan /\ j.failed = i.failed
      /\ j # Free
  <2>1. j.pc = i.pc BY DEF Job
  <2>2. j # Free BY <1>2, <2>1 DEF Free
  <2>3. QED BY <2>2 DEF Job
<1>6. 1 \in DOMAIN todo /\ p = todo[1] /\ p \in Command BY <1>1, <1>2, TailOf
<1>7. GoodPut(i, p) BY <1>1, <1>6 DEF PutsInv, PutsFit
<1>8. todo = i.todo OBVIOUS
<1> HIDE DEF i, j, todo, p
<1>9. \A x \in DOMAIN todo : todo[1].key = todo[1].key OBVIOUS
<1>10. ASSUME Covers(i, record, categories, half) PROVE Covers(j, record', categories', half')
  <2>1. CASE i.kind = "rename"
    <3>1. RenameCover(i, record, categories, half) BY <1>10, <2>1, CoversKind
    <3>2. p.key = "record" BY <1>6, <1>8, <3>1 DEF RenameCover
    <3>3. categories' = categories BY <1>3, <3>2 DEF Over
    <3>6. record' = Over(Head(todo), "record", record) BY <1>3 DEF p
    <3>4. RenameCover(j, record', categories, half)
      <4>1. record \in Rows /\ todo \in Seq(Command) /\ todo # <<>> BY <1>0, <1>1, <1>2
      <4>2. i.todo = todo /\ j.todo = Tail(todo) /\ j.ask = i.ask /\ j.plan = i.plan /\ j.pc = i.pc /\ j.failed = i.failed
        BY <1>5, <1>8
      <4>3. QED BY <3>1, <3>6, <4>1, <4>2, RenameRuns, ZenonT(40)
    <3>5. QED BY <1>3, <1>5, <2>1, <3>3, <3>4, KindCovers
  <2>2. CASE i.kind \in EditKinds
    <3>1. EditCover(i, record, categories, half) BY <1>10, <2>2, CoversKind
    <3>2. p.key # "categories" /\ Brings(p, ToSet(categories) \union half) BY <1>6, <1>8, <3>1 DEF EditCover
    <3>3. categories' = categories BY <1>3, <3>2 DEF Over
    <3>4. p.key = "record" => p.item \in Items BY <1>7, <2>2 DEF GoodPut, EditKinds
    <3>5. Used(record') \subseteq Used(record) \union ToSet(categories) \union half
      <4> SUFFICES ASSUME NEW x \in Existing(record') PROVE record'[x].category \in Used(record) \union ToSet(categories) \union half
        BY DEF Used
      <4>1. CASE p.key = "record"
        <5>1. IF x = p.item THEN record'[x] = p.to /\ p.to # None ELSE x \in Existing(record) /\ record'[x] = record[x]
          BY <1>0, <1>3, <1>6, <3>4, <4>1, CommandUses
        <5>2. QED BY <3>2, <3>4, <4>1, <5>1 DEF Used, Brings
      <4>2. CASE p.key # "record" BY <1>3, <4>2 DEF Over, Used
      <4>3. QED BY <4>1, <4>2
    <3>6. EditCover(j, record', categories, half) BY <1>1, <1>2, <1>5, <1>8, <3>1, <3>5, EditRuns
    <3>7. QED BY <1>3, <1>5, <2>2, <3>3, <3>6, KindCovers
  <2>3. CASE i.kind \in {"import", "replace"} /\ i.pc = "clear"
    <3>1. ClearCover(i, record) BY <1>10, <2>3, CoversKind
    <3>2. ClearCover(j, record') BY <1>0, <1>1, <1>2, <1>3, <1>5, <1>8, <3>1, ClearRuns DEF p
    <3>3. QED BY <1>5, <2>3, <3>2, KindCovers
  <2>4. CASE i.kind \in {"import", "replace"} /\ i.pc # "clear"
    <3>1. BringCover(i, record, categories, half) BY <1>10, <2>4, CoversKind
    <3>2. p.key = "record" => p.item \in Items BY <1>7, <2>4 DEF GoodPut
    <3> DEFINE rec2 == record'
               list2 == categories'
    <3>3. /\ rec2 = Over(Head(todo), "record", record) /\ list2 = Over(Head(todo), "categories", categories)
          /\ Head(todo).key = "record" => Head(todo).item \in Items
      BY <1>3, <3>2 DEF p
    <3>4. record \in Rows /\ todo \in Seq(Command) /\ todo # <<>> /\ i.pc # "plan" /\ i.todo = todo BY <1>0, <1>1, <1>2, <1>8
    <3>5. j.todo = Tail(todo) /\ j.pc = i.pc /\ j.kind = i.kind /\ j.ask = i.ask /\ j.failed = i.failed BY <1>5
    <3> HIDE DEF rec2, list2
    <3>6. BringCover(j, rec2, list2, half) BY <3>1, <3>3, <3>4, <3>5, BringRuns
    <3>7. BringCover(j, record', categories', half') BY <1>3, <3>6 DEF rec2, list2
    <3>8. QED BY <1>5, <2>4, <3>7, KindCovers
  <2>5. QED BY <1>2, <2>1, <2>2, <2>3, <2>4
<1>11. OverBoard(j) BY <1>2, <1>5 DEF OverBoard
<1>12. QED BY <1>2, <1>3, <1>4, <1>10, <1>11, CoverGoes DEF Leaves, i

\* A pipeline whose command fails is left with the others, over what it was bringing.
LEMMA FailsCover == ASSUME Typed, CoverInv, NEW s \in Tasks, CommandFails(s) PROVE CoverInv'
<1> DEFINE todo == job[s].todo
           i == job[s]
           h == half \union Unsettled(i)
           j == Job(i.kind, i.pc, i.ask, Tail(todo), i.plan, TRUE, i.put)
<1>0. JobsTyped /\ record \in Rows /\ categories \in GoodLists BY DEF Typed, BoardTyped
<1>1. i # Free /\ todo # <<>> BY DEF CommandFails
<1>2. /\ OverBoard(i) /\ todo \in Seq(Command) /\ i.pc # "plan" /\ i.pc # "free"
      /\ i.kind \in {"rename", "import", "replace"} \union EditKinds /\ i.kind # "export"
  BY <1>0, <1>1, InHand
<1>3. record' = record /\ categories' = categories /\ half' = h /\ crossed' = crossed
  BY DEF CommandFails, Breaks, board
<1>4. Sets(s, j) BY <1>0, CommandFailsIs
<1>5. /\ j.kind = i.kind /\ j.pc = i.pc /\ j.ask = i.ask /\ j.todo = Tail(todo) /\ j.plan = i.plan /\ j.failed = TRUE
      /\ j # Free
  <2>1. j.kind = i.kind /\ j.pc = i.pc /\ j.ask = i.ask /\ j.todo = Tail(todo) /\ j.plan = i.plan /\ j.failed = TRUE BY DEF Job
  <2> HIDE DEF j
  <2>2. j # Free BY <1>2, <2>1 DEF Free
  <2>3. QED BY <2>1, <2>2
<1>6. \A k \in DOMAIN Tail(todo) : k + 1 \in DOMAIN todo /\ Tail(todo)[k] = todo[k + 1] BY <1>1, <1>2, TailOf
<1>7. todo = i.todo OBVIOUS
<1>8. half \subseteq h /\ Unsettled(i) \subseteq h OBVIOUS
<1>9. Unsettled(j) = Unsettled(i) BY <1>5 DEF Unsettled
<1>10. Covers(i, record, categories, half) => Covered(record, categories, h) BY <1>2, <1>8, SettledBy
<1> HIDE DEF i, j, todo, h
<1>11. ASSUME Covers(i, record, categories, half) PROVE Covers(j, record, categories, h)
  <2>1. CASE i.kind = "rename"
    <3>1. RenameCover(i, record, categories, half) BY <1>11, <2>1, CoversKind
    <3>2. Used(record) \subseteq ToSet(categories) \union h \union {j.ask.to} BY <1>10, <1>11 DEF Covered
    <3>3. /\ ToSet(categories) \subseteq ToSet(j.plan) \union {j.ask.from} /\ j.ask.to \in ToSet(j.plan)
          /\ j.pc # "moving"
      BY <1>1, <1>5, <1>7, <3>1 DEF RenameCover
    <3>4. \A k \in DOMAIN todo : todo[k].key = "record" /\ todo[k].item \in Items /\ todo[k].to # None /\ todo[k].to.category = i.ask.to
      BY <1>7, <3>1 DEF RenameCover
    <3>5. \A k \in DOMAIN j.todo : LET q == j.todo[k] IN q.key = "record" /\ q.item \in Items /\ q.to # None /\ q.to.category = j.ask.to
      BY <1>5, <1>6, <3>4
    <3>6. RenameCover(j, record, categories, h) BY <1>5, <3>2, <3>3, <3>5 DEF RenameCover
    <3>7. QED BY <1>5, <2>1, <3>6, KindCovers
  <2>2. CASE i.kind \in EditKinds
    <3>1. EditCover(i, record, categories, half) BY <1>11, <2>2, CoversKind
    <3>2. \A k \in DOMAIN todo : todo[k].key # "categories" /\ Brings(todo[k], ToSet(categories) \union half) BY <1>7, <3>1 DEF EditCover
    <3>3. ASSUME NEW k \in DOMAIN Tail(todo) PROVE Tail(todo)[k].key # "categories" /\ Brings(Tail(todo)[k], ToSet(categories) \union h)
      <4>1. Tail(todo)[k].key # "categories" /\ Brings(Tail(todo)[k], ToSet(categories) \union half) BY <1>6, <3>2
      <4>2. QED BY <1>8, <4>1 DEF Brings
    <3>4. EditCover(j, record, categories, h) BY <1>5, <1>10, <1>11, <3>3 DEF EditCover
    <3>5. QED BY <1>5, <2>2, <3>4, KindCovers
  <2>3. CASE i.kind \in {"import", "replace"} /\ i.pc = "clear"
    <3>1. ClearCover(i, record) BY <1>11, <2>3, CoversKind
    <3>2. \A k \in DOMAIN todo : todo[k].key = "record" => todo[k].item = None /\ todo[k].to = Nothing BY <1>7, <3>1 DEF ClearCover
    <3>3. \A k \in DOMAIN j.todo : j.todo[k].key = "record" => j.todo[k].item = None /\ j.todo[k].to = Nothing BY <1>5, <1>6, <3>2
    <3>4. ClearCover(j, record) BY <1>5, <3>3 DEF ClearCover
    <3>5. QED BY <1>5, <2>3, <3>4, KindCovers
  <2>4. CASE i.kind \in {"import", "replace"} /\ i.pc # "clear"
    <3> DEFINE some == ToSet(categories) \union half \union Unsettled(i)
               some2 == ToSet(categories) \union h \union Unsettled(j)
    <3>1. BringCover(i, record, categories, half) BY <1>11, <2>4, CoversKind
    <3>2. Fits(todo, record, categories, some) BY <1>2, <1>7, <3>1, BringFits
    <3>3. some \subseteq some2 BY <1>8, <1>9
    <3> HIDE DEF some, some2
    <3>4. ASSUME NEW k \in DOMAIN todo
          PROVE Brings(todo[k], some2) /\ (todo[k].key = "categories" => ToSet(categories) \subseteq ToSet(todo[k].to))
      <4>1. Brings(todo[k], some) /\ (todo[k].key = "categories" => ToSet(categories) \subseteq ToSet(todo[k].to)) BY <3>2 DEF Fits
      <4>2. QED BY <3>3, <4>1 DEF Brings
    <3>5. Used(record) \subseteq some2 BY <3>2, <3>3 DEF Fits
    <3>6. \A k, l \in DOMAIN todo : todo[k].key = "categories" /\ todo[l].key = "categories" => todo[k].to = todo[l].to BY <3>2 DEF Fits
    <3>7. Fits(Tail(todo), record, categories, some2)
      <4>1. \A k \in DOMAIN Tail(todo) : Brings(Tail(todo)[k], some2) /\ (Tail(todo)[k].key = "categories" => ToSet(categories) \subseteq ToSet(Tail(todo)[k].to))
        BY <1>6, <3>4
      <4>2. \A k, l \in DOMAIN Tail(todo) : Tail(todo)[k].key = "categories" /\ Tail(todo)[l].key = "categories" => Tail(todo)[k].to = Tail(todo)[l].to
        BY <1>6, <3>6
      <4>3. QED BY <3>5, <4>1, <4>2 DEF Fits
    <3>8. BringCover(j, record, categories, h) BY <1>2, <1>5, <3>7, BringFits DEF some2
    <3>9. QED BY <1>5, <2>4, <3>8, KindCovers
  <2>5. QED BY <1>2, <2>1, <2>2, <2>3, <2>4
<1>12. OverBoard(j) BY <1>2, <1>5 DEF OverBoard
<1>13. QED BY <1>2, <1>3, <1>4, <1>11, <1>12, CoverGoes DEF Leaves, i

\* A request that throws, or is done.
LEMMA ReturnsCover == ASSUME Typed, Blamed, CoverInv, NEW s \in Tasks, Returns(s) PROVE CoverInv'
<1>0. JobsTyped /\ job[s] # Free /\ Sets(s, Free) BY OverIs DEF Typed, Returns
<1>1. record' = record /\ categories' = categories /\ half' = half /\ crossed' = crossed BY SameCover DEF Returns
<1>2. CASE ~OverBoard(job[s]) BY <1>0, <1>1, <1>2, NotOver, CoverAside
<1>3. CASE OverBoard(job[s])
  <2>1. ASSUME Covers(job[s], record, categories, half) PROVE Covered(record', categories', half')
    <3>1. CASE job[s].failed
      <4>1. Unsettled(job[s]) \subseteq half BY <1>0, <3>1 DEF Blamed
      <4>2. QED BY <1>1, <1>3, <2>1, <4>1, SettledBy
    <3>2. CASE job[s].pc \in {"saved", "told"}
      <4>1. job[s].kind \in EditKinds BY <1>0, <3>2, AtPoint DEF SaveFits, TellFits, EditKinds
      <4>2. EditCover(job[s], record, categories, half) BY <2>1, <4>1, CoversKind
      <4>3. QED BY <1>1, <4>2 DEF EditCover
    <3>3. QED BY <3>1, <3>2 DEF Returns
  <2>2. QED BY <1>0, <1>1, <1>3, <2>1, CoverEnds
<1>4. QED BY <1>2, <1>3

LEMMA DiesCover == ASSUME Typed, CoverInv, NEW s \in Tasks, RequestDies(s) PROVE CoverInv'
<1>0. JobsTyped /\ job[s] # Free /\ Sets(s, Free) BY OverIs DEF Typed, RequestDies
<1>1. record' = record /\ categories' = categories /\ half' = half \union Unsettled(job[s]) /\ crossed' = crossed
  BY DEF RequestDies, Breaks, board
<1>2. CASE ~OverBoard(job[s])
  <2>1. job[s].kind \in {"upload", "refill"} BY <1>0, <1>2, AtWork DEF OverBoard, BoardKinds, JobFits,
      ListFits, RenameFits, SaveFits, DeleteFits, TellFits, ImportFits, FileFits, ExportFits
  <2>2. Unsettled(job[s]) = {} BY <2>1 DEF Unsettled
  <2>3. half' = half BY <1>1, <2>2
  <2>4. QED BY <1>0, <1>1, <1>2, <2>3, NotOver, CoverAside
<1>3. CASE OverBoard(job[s])
  <2>1. ASSUME Covers(job[s], record, categories, half) PROVE Covered(record', categories', half')
    <3> DEFINE h == half \union Unsettled(job[s])
    <3>1. half \subseteq h /\ Unsettled(job[s]) \subseteq h /\ half' = h BY <1>1
    <3> HIDE DEF h
    <3>2. Covered(record, categories, h) BY <1>3, <2>1, <3>1, SettledBy
    <3>3. QED BY <1>1, <3>1, <3>2
  <2>2. QED BY <1>0, <1>1, <1>3, <2>1, CoverEnds
<1>4. QED BY <1>2, <1>3

LEMMA CoverStands == ASSUME CoverInv, UNCHANGED <<record, categories, half, crossed, job>> PROVE CoverInv'
<1>1. ASSUME ~crossed'
      PROVE  /\ \A t \in Tasks : OverBoard(job'[t]) => /\ \A u \in Tasks : OverBoard(job'[u]) => u = t
                                                       /\ Covers(job'[t], record', categories', half')
             /\ (\A t \in Tasks : ~OverBoard(job'[t])) => Covered(record', categories', half')
  BY <1>1 DEF CoverInv, Alone
<1>2. QED BY <1>1, CoverNext

LEMMA CoverInit == ASSUME Init PROVE CoverInv
<1>1. \A s \in Tasks : ~OverBoard(job[s]) BY NotOver DEF Init
<1>2. PICK b \in Boards : record = b.record /\ categories = b.categories BY DEF Init
<1>3. \A i \in Existing(record) : record[i].category \in ToSet(categories) BY <1>2, ContentAssumption
<1>4. Covered(record, categories, half) BY <1>3 DEF Covered, Used
<1>5. QED BY <1>1, <1>4 DEF CoverInv

LEMMA CoverKept == ASSUME Typed, Blamed, PutsInv, CoverInv, Next PROVE CoverInv'
<1>1. ASSUME NEW s \in Tasks, FaultStep(s) PROVE CoverInv'
  BY <1>1, FailsCover, DiesCover, FileCovers, ExportCovers DEF FaultStep
<1>2. ASSUME NEW id, RemoveAttachment(id) PROVE CoverInv'
  <2>1. UNCHANGED <<record, categories, half, crossed, job>> BY <1>2 DEF RemoveAttachment, FilesOnly, board
  <2>2. QED BY <2>1, CoverStands
<1>3. QED BY <1>1, <1>2, ListCovers, ChallengeCovers, ImportCovers, FileCovers, ExportCovers, RunCover, ReturnsCover, Steps

LEMMA CoverFollows == ASSUME CoverInv PROVE CategoriesCover
<1> SUFFICES ASSUME ~crossed, AtRest(BoardKinds) PROVE \A i \in Existing(record) : record[i].category \in ToSet(categories) \union half
  BY DEF CategoriesCover
<1>1. \A s \in Tasks : ~OverBoard(job[s]) BY DEF AtRest, OverBoard
<1>2. Covered(record, categories, half) BY <1>1 DEF CoverInv
<1>3. QED BY <1>2 DEF Covered, Used

-----------------------------------------------------------------------------
\* The inductive invariant.
ContentIInv == Typed /\ Blamed /\ FilesInv /\ PutsInv /\ Orphans /\ CoverInv

LEMMA IInvFollows == ASSUME ContentIInv PROVE ContentInv
<1>1. BytesExact /\ CapsHold BY DEF ContentIInv, FilesInv
<1>2. QED BY <1>1, FilesKeptFollows, TypesFollow, ListsFollow, CoverFollows DEF ContentIInv, ContentInv

LEMMA IInvInit == ASSUME Init PROVE ContentIInv
BY TypedInit, BlamedInit, FilesInit, PutsInit, OrphansInit, CoverInit DEF ContentIInv

LEMMA IInvStays == ASSUME ContentIInv, UNCHANGED contentVars PROVE ContentIInv'
<1>1. UNCHANGED board /\ UNCHANGED store /\ UNCHANGED job /\ UNCHANGED made /\ UNCHANGED history BY DEF contentVars
<1>2. UNCHANGED <<record, answer, categories, stories, files, blob, bytes, job, made, crossed, broken, half, swept, doubt>>
  BY <1>1 DEF board, store, history
<1>3. Typed' BY <1>2 DEF ContentIInv, Typed, BoardTyped, StoreTyped, JobsTyped, HistoryTyped
<1>4. Blamed' BY <1>2 DEF ContentIInv, Blamed
<1>5. PutsInv' BY <1>2 DEF ContentIInv, PutsInv
<1>6. Orphans' BY <1>2 DEF ContentIInv, Orphans
<1>7. CoverInv' BY <1>2, CoverStands DEF ContentIInv
<1>8. FilesInv'
  <2>1. (Listed /\ OwnPrefix)' BY <1>2 DEF ContentIInv, FilesInv, Listed, OwnPrefix, Attached
  <2>2. (OwnPuts /\ Puts)' BY <1>2 DEF ContentIInv, FilesInv, OwnPuts, Puts, Writer, PutNew, PutStored, Attached
  <2>3. (Accounted /\ BytesExact /\ CapsHold /\ FilesReadable)'
    BY <1>2 DEF ContentIInv, FilesInv, Accounted, PutChunks, Writer, BytesExact, CapsHold, FilesReadable, Attached
  <2>4. QED BY <2>1, <2>2, <2>3 DEF FilesInv
<1>9. QED BY <1>3, <1>4, <1>5, <1>6, <1>7, <1>8 DEF ContentIInv

LEMMA IInvKept == ASSUME ContentIInv, [Next]_contentVars PROVE ContentIInv'
<1>1. CASE Next BY <1>1, TypedKept, BlamedKept, FilesInvKept, PutsKept, OrphansKept, CoverKept DEF ContentIInv
<1>2. CASE UNCHANGED contentVars BY <1>2, IInvStays
<1>3. QED BY <1>1, <1>2

THEOREM ContentHolds == Spec => []ContentInv
<1>1. Init => ContentIInv BY IInvInit
<1>2. ContentIInv /\ [Next]_contentVars => ContentIInv' BY IInvKept
<1>3. ContentIInv => ContentInv BY IInvFollows
<1>4. QED BY <1>1, <1>2, <1>3, PTL DEF Spec
=============================================================================
