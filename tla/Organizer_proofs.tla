-------------------------- MODULE Organizer_proofs --------------------------
(***************************************************************************)
(* Proofs about the AI event route, the admin panel, the demo fixture and    *)
(* the provisioning (AiEvent, AdminPanel, DemoSeed, Provision), which share  *)
(* no state.                                                                 *)
(***************************************************************************)
EXTENDS AiEvent, AdminPanel, DemoSeed, Provision, Sums, SequenceTheorems, TLAPS

(***************************************************************************)
(* AiEvent: the types, the nonce and the launch keys.                        *)
(***************************************************************************)
Flight == [phase : Phases, ts : Stamps, since : 0..MaxTime]
Minting == [phase : {"set", "get"}, drawn : Candidates]

\* Each action in terms of the requests in flight: what becomes of req[s].
LEMMA AiFlights ==
    ASSUME AiTypeOK, NEW s \in Slots, req[s] # Free
    PROVE  req[s] \in Flight /\ req[s].phase \in Phases /\ req[s].ts \in Stamps /\ req[s].since \in 0..MaxTime
BY DEF AiTypeOK, Flight

\* A request keeps its type through every change of its phase.
LEMMA FlightGoesOn ==
    ASSUME NEW r \in Flight, NEW p \in Phases, NEW t \in 0..MaxTime
    PROVE  /\ [r EXCEPT !.phase = p] \in Flight /\ [r EXCEPT !.phase = p].since = r.since
           /\ [r EXCEPT !.phase = p].phase = p /\ [r EXCEPT !.phase = p].ts = r.ts
           /\ [r EXCEPT !.phase = p, !.since = t] \in Flight
           /\ [r EXCEPT !.phase = p, !.since = t].since = t
           /\ [r EXCEPT !.phase = p, !.since = t].ts = r.ts
           /\ [r EXCEPT !.phase = p, !.since = t].phase = p
BY DEF Flight

\* No request in flight is none at all.
LEMMA FreeIsNoFlight == Free \notin Flight
BY DEF Free, Flight, Phases

\* What the requests in flight become when one ends or goes on.
LEMMA AiEnds ==
    ASSUME AiTypeOK, NEW s \in Slots, Ends(s)
    PROVE  /\ req' \in [Slots -> Flight \union {Free}] /\ req'[s] = Free
           /\ \A r \in Slots : r # s => req'[r] = req[r]
BY DEF AiTypeOK, Ends, Flight

LEMMA AiGoes ==
    ASSUME AiTypeOK, NEW s \in Slots, req[s] # Free, NEW p \in Phases, Goes(s, p)
    PROVE  /\ req' \in [Slots -> Flight \union {Free}]
           /\ req'[s] # Free /\ req'[s].phase = p /\ req'[s].ts = req[s].ts /\ req'[s].since = req[s].since
           /\ \A r \in Slots : r # s => req'[r] = req[r]
<1> DEFINE old == req[s]
           new == [old EXCEPT !.phase = p]
<1>1. old \in Flight BY AiFlights
<1>2. new \in Flight /\ new.phase = p /\ new.ts = old.ts /\ new.since = old.since
  BY <1>1, FlightGoesOn DEF Flight
<1>3. req \in [Slots -> Flight \union {Free}] BY DEF AiTypeOK, Flight
<1>4. req' = [req EXCEPT ![s] = new] BY DEF Goes
<1> HIDE DEF new
<1>5. QED BY <1>2, <1>3, <1>4, FreeIsNoFlight

\* A request whose nonce was claimed holds it from now.
LEMMA AiClaims ==
    ASSUME AiTypeOK, NEW s \in Slots, Claim(s)
    PROVE  /\ req' \in [Slots -> Flight \union {Free}]
           /\ \A r \in Slots : r # s => req'[r] = req[r]
           /\ \/ nonce > clock /\ req'[s] = Free /\ UNCHANGED <<nonce, settled, stuck>>
              \/ /\ nonce <= clock /\ nonce' = clock + NonceTtl /\ ~settled' /\ ~stuck'
                 /\ req'[s] # Free /\ req'[s].phase = "claimed" /\ req'[s].ts = req[s].ts
                 /\ req'[s].since = clock
<1> DEFINE old == req[s]
           new == [old EXCEPT !.phase = "claimed", !.since = clock]
<1>1. old \in Flight BY AiFlights DEF Claim
<1>2. clock \in 0..MaxTime /\ nonce \in 0..(MaxTime + NonceTtl) BY DEF AiTypeOK
<1>3. new \in Flight /\ new.phase = "claimed" /\ new.ts = old.ts /\ new.since = clock
  BY <1>1, <1>2, FlightGoesOn DEF Phases, Flight
<1>4. req \in [Slots -> Flight \union {Free}] BY DEF AiTypeOK, Flight
<1>5. CASE nonce > clock BY <1>5, AiEnds DEF Claim
<1>6. CASE ~(nonce > clock)
  <2>1. /\ nonce' = clock + NonceTtl /\ ~settled' /\ ~stuck'
        /\ req' = [req EXCEPT ![s] = new]
    BY <1>6 DEF Claim
  <2>2. nonce <= clock BY <1>2, <1>6, AiAssumption DEF NonceTtl
  <2> HIDE DEF new
  <2>3. QED BY <1>3, <1>4, <2>1, <2>2, FreeIsNoFlight
<1>7. QED BY <1>5, <1>6

\* A request received: its stamp is within the skew of now.
LEMMA AiReceives ==
    ASSUME AiTypeOK, NEW s \in Slots, NEW ts \in Stamps, Receive(s, ts)
    PROVE  /\ req' \in [Slots -> Flight \union {Free}]
           /\ \A r \in Slots : r # s => req'[r] = req[r]
           /\ req'[s] # Free /\ req'[s].phase = "checked" /\ req'[s].ts = ts /\ req'[s].since = clock
BY FreeIsNoFlight DEF AiTypeOK, Flight, Phases, Receive

\* Every step keeps the types.
LEMMA AiTypeStep == AiTypeOK /\ [AiNext]_aiVars => AiTypeOK'
<1> SUFFICES ASSUME AiTypeOK, [AiNext]_aiVars PROVE AiTypeOK'
  OBVIOUS
<1> USE AiAssumption
<1>1. /\ clock \in 0..MaxTime /\ open \in BOOLEAN /\ row \in BOOLEAN
      /\ nonce \in 0..(MaxTime + NonceTtl) /\ NonceTtl \in Nat
      /\ key \in Candidates \union {TokenKey, NoKey}
      /\ req \in [Slots -> Flight \union {Free}]
      /\ mint \in [Launchers -> Minting \union {Free}]
      /\ paid \in [Stamps -> Nat] /\ epoch \in Nat
      /\ handed \subseteq [key : Candidates \union {TokenKey}, epoch : 0..epoch]
  BY DEF AiTypeOK, Flight, Minting, NonceTtl
<1>2. ASSUME clock' \in 0..MaxTime, open' \in BOOLEAN, row' \in BOOLEAN,
             nonce' \in 0..(MaxTime + NonceTtl),
             key' \in Candidates \union {TokenKey, NoKey},
             req' \in [Slots -> Flight \union {Free}],
             mint' \in [Launchers -> Minting \union {Free}],
             paid' \in [Stamps -> Nat], epoch' \in Nat,
             handed' \subseteq [key : Candidates \union {TokenKey}, epoch : 0..epoch']
      PROVE  AiTypeOK'
  BY <1>2 DEF AiTypeOK, Flight, Minting, NonceTtl
<1> DEFINE Still == UNCHANGED <<key, mint, epoch, handed>>
<1>3. ASSUME NEW s \in Slots, NEW ts \in Stamps, Receive(s, ts) PROVE AiTypeOK'
  BY <1>3, AiReceives, <1>1, <1>2 DEF Receive, history
<1>4. ASSUME NEW s \in Slots, TurnAway(s) \/ Release(s) \/ RequestDies(s) \/ ClaimLost(s) PROVE AiTypeOK'
  BY <1>4, AiEnds, <1>1, <1>2 DEF TurnAway, Release, RequestDies, ClaimLost, history
<1>5. ASSUME NEW s \in Slots, Claim(s) PROVE AiTypeOK'
  <2>1. req' \in [Slots -> Flight \union {Free}] BY <1>5, AiClaims
  <2>2. UNCHANGED <<clock, open, row, paid>> /\ Still BY <1>5 DEF Claim
  <2>3. nonce' \in {nonce, clock + NonceTtl} BY <1>5, AiClaims
  <2>4. nonce' \in 0..(MaxTime + NonceTtl) BY <1>1, <2>3
  <2>5. QED BY <1>1, <1>2, <2>1, <2>2, <2>4
<1>6. ASSUME NEW s \in Slots, AwardGate(s) PROVE AiTypeOK'
  BY <1>6, AiGoes, <1>1, <1>2 DEF AwardGate, Phases, history
<1>7. ASSUME NEW s \in Slots, AwardScript(s) \/ AwardReplyLost(s) PROVE AiTypeOK'
  <2>1. req[s] # Free /\ Pay(s) BY <1>7 DEF AwardScript, AwardReplyLost
  <2>2. req' \in [Slots -> Flight \union {Free}]
    BY <1>7, AiEnds, AiGoes DEF AwardScript, AwardReplyLost, Phases
  <2>3. req[s].ts \in Stamps BY <2>1, AiFlights
  <2>4. row' \in BOOLEAN /\ paid' \in [Stamps -> Nat]
    <3>1. row' = TRUE /\ paid' \in {paid, [paid EXCEPT ![req[s].ts] = @ + 1]} BY <2>1 DEF Pay
    <3>2. QED BY <1>1, <2>3, <3>1
  <2>5. UNCHANGED <<clock, open, nonce>> /\ Still BY <1>7 DEF AwardScript, AwardReplyLost
  <2>6. QED BY <1>1, <1>2, <2>2, <2>4, <2>5
<1>8. ASSUME NEW n \in Launchers, LaunchReads(n) \/ LaunchSets(n) \/ HandOut(n) PROVE AiTypeOK'
  <2>1. UNCHANGED <<clock, open, row, nonce, req, paid, epoch>>
    BY <1>8 DEF LaunchReads, LaunchSets, HandOut, history
  <2>2. mint[n] # Free => mint[n] \in Minting BY <1>1
  <2>3. mint' \in [Launchers -> Minting \union {Free}]
    <3>1. CASE LaunchReads(n) BY <3>1, <1>1 DEF LaunchReads, Minting
    <3>2. CASE LaunchSets(n) BY <3>2, <2>2, <1>1 DEF LaunchSets, Minting
    <3>3. CASE HandOut(n) BY <1>1, <3>3 DEF HandOut
    <3>4. QED BY <1>8, <3>1, <3>2, <3>3
  <2>4. key' \in Candidates \union {TokenKey, NoKey}
    BY <1>1, <1>8, <2>2 DEF LaunchReads, LaunchSets, HandOut, Minting
  <2>5. \/ handed' = handed
        \/ key # NoKey /\ handed' = handed \union {[key |-> key, epoch |-> epoch]}
    BY <1>8 DEF LaunchReads, LaunchSets, HandOut, history
  <2>6. key # NoKey => [key |-> key, epoch |-> epoch] \in [key : Candidates \union {TokenKey}, epoch : 0..epoch]
    BY <1>1
  <2>7. QED BY <1>1, <1>2, <2>1, <2>3, <2>4, <2>5, <2>6
<1>9. ASSUME FlagSolve \/ ResetPlayer \/ Toggle \/ \E keepKey \in BOOLEAN : StartWipe(keepKey) PROVE AiTypeOK'
  BY <1>9, <1>1, <1>2 DEF FlagSolve, ResetPlayer, Toggle, StartWipe, history
<1>10. ASSUME RunWipe PROVE AiTypeOK' BY <1>10, <1>1, <1>2 DEF RunWipe
<1>11. ASSUME Tick PROVE AiTypeOK' BY <1>11, <1>1, <1>2 DEF Tick, history
<1>12. CASE UNCHANGED aiVars BY <1>1, <1>2, <1>12 DEF aiVars
<1>13. QED
  BY <1>3, <1>4, <1>5, <1>6, <1>7, <1>8, <1>9, <1>10, <1>11, <1>12 DEF AiNext

LEMMA AiTypeInit == AiInit => AiTypeOK
<1> SUFFICES ASSUME AiInit PROVE AiTypeOK
  OBVIOUS
<1>1. /\ clock = 0 /\ nonce = 0 /\ key \in {TokenKey, NoKey} /\ open = TRUE /\ row = FALSE
      /\ epoch = 0 /\ handed = {}
      /\ req = [s \in Slots |-> Free] /\ mint = [n \in Launchers |-> Free] /\ paid = [ts \in Stamps |-> 0]
  BY DEF AiInit
<1>2. clock \in 0..MaxTime /\ nonce \in 0..(MaxTime + NonceTtl)
  BY <1>1, AiAssumption DEF NonceTtl
<1>3. /\ req \in [Slots -> [phase : Phases, ts : Stamps, since : 0..MaxTime] \union {Free}]
      /\ mint \in [Launchers -> [phase : {"set", "get"}, drawn : Candidates] \union {Free}]
      /\ paid \in [Stamps -> Nat]
  BY <1>1
<1>4. QED BY <1>1, <1>2, <1>3 DEF AiTypeOK

\* AiEvent's types hold in every behaviour, for every number of requests,
\* launches, stamps and seconds.
THEOREM AiTypes == AiSpec => []AiTypeOK
BY AiTypeInit, AiTypeStep, PTL DEF AiSpec

\* A nonce that is set belongs to a request that goes on, or tells of a solve or
\* of a failure.
SpentHeld == nonce > clock => settled \/ stuck \/ \E s \in Slots : Claimed(s)

LEMMA SpentStep == AiTypeOK /\ SpentHeld /\ [AiNext]_aiVars => SpentHeld'
<1> SUFFICES ASSUME AiTypeOK, SpentHeld, [AiNext]_aiVars, nonce' > clock'
             PROVE  settled' \/ stuck' \/ \E s \in Slots : Claimed(s)'
  BY DEF SpentHeld
<1>1. clock \in Nat /\ nonce \in Int /\ ~(0 > clock)
  BY AiAssumption DEF AiTypeOK, NonceTtl
<1>2. ASSUME UNCHANGED <<req, clock, nonce, settled, stuck>> PROVE SpentHeld'
  BY <1>2 DEF SpentHeld, Claimed
<1>3. ASSUME NEW s \in Slots, NEW ts \in Stamps, Receive(s, ts) PROVE SpentHeld'
  BY <1>3, AiReceives DEF Receive, history, Claimed, SpentHeld
<1>4. ASSUME NEW s \in Slots, TurnAway(s) PROVE SpentHeld'
  BY <1>4, AiEnds DEF TurnAway, history, Claimed, SpentHeld
<1>5. ASSUME NEW s \in Slots, Claim(s) PROVE SpentHeld' BY <1>5, AiClaims DEF Claim, Claimed, SpentHeld
<1>6. ASSUME NEW s \in Slots, AwardGate(s) \/ AwardReplyLost(s) PROVE SpentHeld'
  BY <1>6, AiGoes DEF AwardGate, AwardReplyLost, Phases, history, Claimed, SpentHeld
<1>7. ASSUME NEW s \in Slots, ClaimLost(s) \/ RequestDies(s) PROVE stuck'
  BY <1>7 DEF ClaimLost, RequestDies
<1>8. ASSUME NEW s \in Slots, AwardScript(s) PROVE settled'
  BY <1>8 DEF AwardScript
<1>9. ASSUME NEW s \in Slots, Release(s) PROVE FALSE
  BY <1>1, <1>9 DEF Release
<1>10. ASSUME RunWipe PROVE SpentHeld' BY <1>10, <1>1, <1>2 DEF RunWipe
<1>11. ASSUME Tick PROVE SpentHeld' BY <1>11, <1>1 DEF Tick, history, SpentHeld, Claimed
<1>12. ASSUME NEW n \in Launchers, LaunchReads(n) \/ LaunchSets(n) \/ HandOut(n) PROVE SpentHeld'
  BY <1>2, <1>12 DEF LaunchReads, LaunchSets, HandOut, history
<1>13. ASSUME FlagSolve \/ ResetPlayer \/ Toggle \/ \E keepKey \in BOOLEAN : StartWipe(keepKey) PROVE SpentHeld'
  BY <1>2, <1>13 DEF FlagSolve, ResetPlayer, Toggle, StartWipe, history
<1>14. CASE UNCHANGED aiVars BY <1>2, <1>14 DEF aiVars, SpentHeld
<1>15. QED
  <2>1. SUFFICES ASSUME AiNext PROVE SpentHeld' \/ settled' \/ stuck'
    BY <1>14 DEF SpentHeld
  <2>2. QED
    BY <2>1, <1>3, <1>4, <1>5, <1>6, <1>7, <1>8, <1>9, <1>10, <1>11, <1>12, <1>13 DEF AiNext

\* Once its requests have ended, a jti that is still spent was answered with a
\* solve, unless a failure left it.
THEOREM AiSpentMeansSolved == AiSpec => []SpentMeansSolved
<1>1. AiInit => SpentHeld BY DEF AiInit, SpentHeld
<1>2. SpentHeld => SpentMeansSolved BY DEF SpentHeld, SpentMeansSolved, Claimed
<1>3. QED BY <1>1, <1>2, AiTypes, SpentStep, PTL DEF AiSpec

\* While no key is published, no token of the present rotation is out.
KeyIsOfTheEpoch == TokensVerify /\ (key = NoKey => \A h \in handed : h.epoch # epoch)

LEMMA TokensStep == AiTypeOK /\ KeyIsOfTheEpoch /\ [AiNext]_aiVars => KeyIsOfTheEpoch'
<1> SUFFICES ASSUME AiTypeOK, KeyIsOfTheEpoch, [AiNext]_aiVars PROVE KeyIsOfTheEpoch'
  OBVIOUS
<1>1. ASSUME UNCHANGED <<key, epoch, handed>> PROVE KeyIsOfTheEpoch'
  BY <1>1 DEF KeyIsOfTheEpoch, TokensVerify
<1>2. epoch \in Nat /\ \A h \in handed : h.epoch \in 0..epoch BY DEF AiTypeOK
<1>3. ASSUME key # NoKey, UNCHANGED <<key, epoch>>, handed' = handed \union {[key |-> key, epoch |-> epoch]}
      PROVE  KeyIsOfTheEpoch'
  BY <1>3 DEF KeyIsOfTheEpoch, TokensVerify
<1>4. ASSUME NEW n \in Launchers, LaunchReads(n) \/ HandOut(n) PROVE KeyIsOfTheEpoch'
  BY <1>1, <1>3, <1>4 DEF LaunchReads, HandOut
<1>5. ASSUME NEW n \in Launchers, LaunchSets(n) PROVE KeyIsOfTheEpoch'
  BY <1>5, <1>1 DEF LaunchSets, history, KeyIsOfTheEpoch, TokensVerify
<1>6. ASSUME RunWipe PROVE KeyIsOfTheEpoch'
  <2>1. CASE UNCHANGED <<key, epoch>> BY <1>1, <1>6, <2>1 DEF RunWipe
  <2>2. CASE key' = NoKey /\ epoch' = epoch + 1 BY <1>6, <1>2, <2>2 DEF RunWipe, KeyIsOfTheEpoch, TokensVerify
  <2>3. QED BY <1>6, <2>1, <2>2 DEF RunWipe
<1>7. ASSUME NEW s \in Slots,
             \/ \E ts \in Stamps : Receive(s, ts)
             \/ TurnAway(s) \/ Claim(s) \/ ClaimLost(s) \/ AwardGate(s) \/ AwardScript(s)
             \/ AwardReplyLost(s) \/ Release(s) \/ RequestDies(s)
      PROVE  KeyIsOfTheEpoch'
  BY <1>1, <1>7 DEF Receive, TurnAway, Claim, ClaimLost, AwardGate, AwardScript, AwardReplyLost,
                    Release, RequestDies, history
<1>8. ASSUME FlagSolve \/ ResetPlayer \/ Toggle \/ Tick \/ \E keepKey \in BOOLEAN : StartWipe(keepKey)
      PROVE  KeyIsOfTheEpoch'
  BY <1>1, <1>8 DEF FlagSolve, ResetPlayer, Toggle, Tick, StartWipe, history
<1>9. CASE UNCHANGED aiVars BY <1>1, <1>9 DEF aiVars
<1>10. QED BY <1>4, <1>5, <1>6, <1>7, <1>8, <1>9 DEF AiNext

\* Of the launches since the last rotation, every one carries a token that the
\* published key verifies, whoever minted the pair first.
THEOREM AiTokensVerify == AiSpec => []TokensVerify
<1>1. AiInit => KeyIsOfTheEpoch BY DEF AiInit, KeyIsOfTheEpoch, TokensVerify
<1>2. KeyIsOfTheEpoch => TokensVerify BY DEF KeyIsOfTheEpoch
<1>3. QED BY <1>1, <1>2, AiTypes, TokensStep, PTL DEF AiSpec

\* Of the requests in flight: a stamp was within the skew of the second its
\* request was received or claimed in, and one that was checked is of this second.
InTheWindow ==
    \A s \in Slots : req[s] # Free =>
        /\ req[s].ts - req[s].since <= Skew /\ req[s].since - req[s].ts <= Skew
        /\ req[s].phase = "checked" => req[s].since = clock

LEMMA WindowStep ==
    ASSUME Stall = 0
    PROVE  AiTypeOK /\ InTheWindow /\ [AiNext]_aiVars => InTheWindow'
<1> SUFFICES ASSUME AiTypeOK, InTheWindow, [AiNext]_aiVars PROVE InTheWindow'
  OBVIOUS
<1>1. ASSUME UNCHANGED <<req, clock>> PROVE InTheWindow'
  BY <1>1 DEF InTheWindow
<1>2. ASSUME NEW s \in Slots, Ends(s), UNCHANGED clock PROVE InTheWindow'
  BY <1>2, AiEnds DEF InTheWindow
<1>3. ASSUME NEW s \in Slots, req[s] # Free, NEW p \in Phases \ {"checked"}, Goes(s, p), UNCHANGED clock
      PROVE  InTheWindow'
  BY <1>3, AiGoes DEF InTheWindow
<1>4. ASSUME NEW s \in Slots, NEW ts \in Stamps, Receive(s, ts) PROVE InTheWindow'
  BY <1>4, AiReceives DEF Receive, InTheWindow, WithinSkew
<1>5. ASSUME NEW s \in Slots, Claim(s) PROVE InTheWindow' BY <1>5, AiClaims DEF Claim, InTheWindow
<1>6. ASSUME NEW s \in Slots, TurnAway(s) \/ ClaimLost(s) \/ AwardScript(s) \/ Release(s) \/ RequestDies(s)
      PROVE  InTheWindow'
  BY <1>2, <1>6 DEF TurnAway, ClaimLost, AwardScript, Release, RequestDies
<1>7. ASSUME NEW s \in Slots, AwardGate(s) \/ AwardReplyLost(s) PROVE InTheWindow'
  BY <1>7, <1>3 DEF AwardGate, AwardReplyLost, Phases
<1>8. ASSUME Tick PROVE InTheWindow'
  <2>1. UNCHANGED req BY <1>8 DEF Tick
  <2>2. \A s \in Slots : req[s] # Free => req[s].phase # "checked" BY <1>8 DEF Tick, InTheWindow, AiTypeOK
  <2>3. QED BY <2>1, <2>2 DEF InTheWindow
<1>9. ASSUME RunWipe \/ FlagSolve \/ ResetPlayer \/ Toggle \/ \E keepKey \in BOOLEAN : StartWipe(keepKey)
      PROVE  InTheWindow'
  BY <1>1, <1>9 DEF RunWipe, FlagSolve, ResetPlayer, Toggle, StartWipe
<1>10. ASSUME NEW n \in Launchers, LaunchReads(n) \/ LaunchSets(n) \/ HandOut(n) PROVE InTheWindow'
  BY <1>1, <1>10 DEF LaunchReads, LaunchSets, HandOut
<1>11. CASE UNCHANGED aiVars BY <1>1, <1>11 DEF aiVars
<1>12. QED BY <1>4, <1>5, <1>6, <1>7, <1>8, <1>9, <1>10, <1>11 DEF AiNext

\* One request at a time holds the nonce, and the nonce outlives it.
OneClaim ==
    /\ \A s, r \in Slots : Claimed(s) /\ Claimed(r) => s = r
    /\ \A s \in Slots : Claimed(s) => /\ nonce = req[s].since + NonceTtl
                                      /\ req[s].since <= clock /\ clock <= req[s].since + Life

\* A stamp that was paid is out of its window, or the nonce stands until it is;
\* and whoever holds the nonce now claimed it after that window.
PaidForGood ==
    \A ts \in Stamps : paid[ts] > 0 =>
        /\ paid[ts] = 1
        /\ nonce > ts + Skew \/ clock > ts + Skew
        /\ \A s \in Slots : Claimed(s) => req[s].since > ts + Skew

NonceGuards == doubt \/ (OneClaim /\ PaidForGood)

\* Nobody claims a nonce that somebody holds.
LEMMA NobodyHolds ==
    ASSUME AiTypeOK, OneClaim, nonce <= clock
    PROVE  \A s \in Slots : ~Claimed(s)
BY AiFlights, AiAssumption DEF OneClaim, Claimed, AiTypeOK, NonceTtl

LEMMA NonceStep ==
    ASSUME Stall = 0
    PROVE  AiTypeOK /\ InTheWindow /\ NonceGuards /\ [AiNext]_aiVars => NonceGuards'
<1> SUFFICES ASSUME AiTypeOK, InTheWindow, OneClaim, PaidForGood, [AiNext]_aiVars, ~doubt'
             PROVE  OneClaim' /\ PaidForGood'
  <2>1. ASSUME doubt, [AiNext]_aiVars PROVE doubt'
    BY <2>1 DEF AiNext, Receive, TurnAway, Claim, ClaimLost, AwardGate, AwardScript, AwardReplyLost,
                Release, RequestDies, LaunchReads, LaunchSets, HandOut, FlagSolve, ResetPlayer, Toggle,
                StartWipe, RunWipe, Tick, history, aiVars
  <2>2. QED BY <2>1 DEF NonceGuards
<1> DEFINE Kept == OneClaim' /\ PaidForGood'
<1>1. /\ clock \in 0..MaxTime /\ nonce \in Nat /\ NonceTtl = 2 * Skew + 1 /\ Skew \in Nat /\ Life <= 2 * Skew
      /\ Life \in Nat /\ MaxTime \in Nat /\ \A ts \in Stamps : ts \in Int /\ paid[ts] \in Nat
  BY AiAssumption DEF AiTypeOK, NonceTtl
<1>2. \A s \in Slots : req[s] # Free => req[s].since \in 0..MaxTime /\ req[s].ts \in Stamps
  BY AiFlights
<1>3. ASSUME UNCHANGED <<req, clock, nonce, paid>> PROVE Kept
  BY <1>3 DEF OneClaim, PaidForGood, Claimed
\* The requests that hold the nonce are as before, or fewer.
<1>4. ASSUME \A r \in Slots : Claimed(r)' => Claimed(r) /\ req'[r].since = req[r].since,
             UNCHANGED <<clock, nonce, paid>>
      PROVE  Kept
  BY <1>4 DEF OneClaim, PaidForGood
<1>5. ASSUME NEW s \in Slots, NEW ts \in Stamps, Receive(s, ts) PROVE Kept
  BY <1>5, AiReceives, <1>4 DEF Receive, history, Claimed
<1>6. ASSUME NEW s \in Slots, TurnAway(s) \/ RequestDies(s) PROVE Kept
  BY <1>6, AiEnds, <1>4 DEF TurnAway, RequestDies, history, Claimed
<1>7. ASSUME NEW s \in Slots, AwardGate(s) PROVE Kept
  BY <1>7, AiGoes, <1>4 DEF AwardGate, Phases, Claimed, history
<1>8. ASSUME nonce <= clock, nonce' = clock + NonceTtl, UNCHANGED <<clock, paid>>,
             NEW s \in Slots, \A r \in Slots : r # s => req'[r] = req[r],
             Claimed(s)' => req'[s].since = clock
      PROVE  Kept
  <2>1. \A r \in Slots : ~Claimed(r) BY <1>8, NobodyHolds
  <2>2. \A r \in Slots : Claimed(r)' => r = s BY <1>8, <2>1 DEF Claimed
  <2>3. OneClaim' BY <1>1, <1>8, <2>2 DEF OneClaim, NonceTtl
  <2>4. ASSUME NEW ts \in Stamps, paid[ts] > 0 PROVE paid[ts] = 1 /\ clock > ts + Skew
    BY <2>4, <1>1, <1>8 DEF PaidForGood
  <2>5. PaidForGood' BY <1>8, <2>2, <2>4 DEF PaidForGood
  <2>6. QED BY <2>3, <2>5
<1>9. ASSUME NEW s \in Slots, Claim(s) PROVE Kept
  <2>1. UNCHANGED <<clock, paid>> BY <1>9 DEF Claim
  <2>2. CASE nonce > clock /\ req'[s] = Free /\ UNCHANGED nonce BY <1>9, <2>2, AiClaims, <1>4, <2>1 DEF Claimed
  <2>3. CASE nonce <= clock /\ nonce' = clock + NonceTtl /\ req'[s].since = clock
    BY <1>8, <1>9, <2>1, <2>3, AiClaims
  <2>4. QED BY <1>9, <2>2, <2>3, AiClaims
<1>10. ASSUME NEW s \in Slots, ClaimLost(s) PROVE Kept BY <1>10, AiEnds, <1>8 DEF ClaimLost, Claimed
<1>11. ASSUME NEW s \in Slots, AwardScript(s) PROVE Kept
  <2>1. /\ Claimed(s) /\ req[s] # Free /\ Pay(s) /\ Ends(s) /\ UNCHANGED <<clock, nonce>>
    BY <1>11 DEF AwardScript, Claimed
  <2>2. \A r \in Slots : ~Claimed(r)' BY <2>1, AiEnds DEF Claimed, OneClaim
  <2>3. OneClaim' BY <2>2 DEF OneClaim
  <2>4. /\ nonce = req[s].since + NonceTtl /\ req[s].ts \in Stamps /\ req[s].ts \in Int
        /\ req[s].since \in 0..MaxTime /\ req[s].since - req[s].ts <= Skew /\ req[s].ts - req[s].since <= Skew
    BY <1>1, <1>2, <2>1 DEF OneClaim, InTheWindow
  <2>5. nonce > req[s].ts + Skew BY <1>1, <2>4
  <2>6. paid[req[s].ts] = 0 BY <1>1, <2>4, <2>1 DEF PaidForGood
  <2>7. \A ts \in Stamps : paid'[ts] = paid[ts] \/ (ts = req[s].ts /\ paid'[ts] = 1)
    BY <2>1, <2>4, <2>6 DEF Pay, AiTypeOK
  <2>8. PaidForGood' BY <2>1, <2>2, <2>5, <2>7 DEF PaidForGood
  <2>9. QED BY <2>3, <2>8
<1>12. ASSUME NEW s \in Slots, AwardReplyLost(s) PROVE FALSE
  BY <1>12 DEF AwardReplyLost
<1>13. ASSUME NEW s \in Slots, Release(s) PROVE Kept
  <2>1. /\ Claimed(s) /\ req[s] # Free /\ Ends(s) /\ nonce' = 0 /\ UNCHANGED <<clock, paid>>
    BY <1>13 DEF Release, Claimed, history
  <2>2. \A r \in Slots : ~Claimed(r)' BY <2>1, AiEnds DEF Claimed, OneClaim
  <2>3. OneClaim' BY <2>2 DEF OneClaim
  <2>4. ASSUME NEW ts \in Stamps, paid[ts] > 0 PROVE paid[ts] = 1 /\ clock > ts + Skew
    BY <2>1, <2>4, <1>1, <1>2 DEF PaidForGood, OneClaim
  <2>5. PaidForGood' BY <2>1, <2>2, <2>4 DEF PaidForGood
  <2>6. QED BY <2>3, <2>5
<1>14. ASSUME RunWipe PROVE Kept
  <2>1. UNCHANGED <<clock, req>> BY <1>14 DEF RunWipe
  <2>2. CASE UNCHANGED <<nonce, paid>> BY <1>3, <2>1, <2>2
  <2>3. CASE Head(wiping) = "nonces"
    <3>1. (\A s \in Slots : ~Claimed(s)) /\ paid' = [ts \in Stamps |-> 0] BY <1>14, <2>3 DEF RunWipe
    <3>2. \A s \in Slots : ~Claimed(s)' BY <2>1, <3>1 DEF Claimed
    <3>3. \A ts \in Stamps : ~(paid'[ts] > 0) BY <3>1
    <3>4. QED BY <3>2, <3>3 DEF OneClaim, PaidForGood
  <2>4. QED BY <1>14, <2>2, <2>3 DEF RunWipe
<1>15. ASSUME Tick PROVE Kept BY <1>15, <1>2, <1>1 DEF Tick, history, Claimed, OneClaim, NonceTtl, PaidForGood
<1>16. ASSUME FlagSolve \/ ResetPlayer \/ Toggle \/ \E keepKey \in BOOLEAN : StartWipe(keepKey) PROVE Kept
  BY <1>3, <1>16 DEF FlagSolve, ResetPlayer, Toggle, StartWipe, history
<1>17. ASSUME NEW n \in Launchers, LaunchReads(n) \/ LaunchSets(n) \/ HandOut(n) PROVE Kept
  BY <1>3, <1>17 DEF LaunchReads, LaunchSets, HandOut, history
<1>18. CASE UNCHANGED aiVars BY <1>3, <1>18 DEF aiVars
<1>19. QED
  BY <1>5, <1>6, <1>7, <1>9, <1>10, <1>11, <1>12, <1>13, <1>14, <1>15, <1>16, <1>17, <1>18 DEF AiNext

\* What the route promises of a signed solve, for every number of requests in
\* flight, of captured copies and of organizers' resets: the types, a request that
\* pays once and a nonce that is spent for a solve, and launch tokens that verify.
THEOREM AiHolds ==
    ASSUME Stall = 0
    PROVE  AiSpec => []AiInv
<1>1. AiInit => InTheWindow /\ NonceGuards
  BY DEF AiInit, InTheWindow, NonceGuards, OneClaim, PaidForGood, Claimed
<1>2. AiTypeOK /\ NonceGuards => RequestPaysOnce BY DEF NonceGuards, RequestPaysOnce, AiTypeOK, PaidForGood
<1>3. AiSpec => []RequestPaysOnce
  BY <1>1, <1>2, AiTypes, WindowStep, NonceStep, PTL DEF AiSpec
<1>4. QED BY <1>3, AiTypes, AiSpentMeansSolved, AiTokensVerify, PTL DEF AiInv

(***************************************************************************)
(* AdminPanel: whose draft a reply may take.                                 *)
(***************************************************************************)
\* The requests of a save and of a delete have their fields, whatever they say.
IsSave(request) == \E at, id, said : request = [at |-> at, id |-> id, row |-> said]
IsRemoval(request) == \E at, id, closes : request = [at |-> at, id |-> id, closes |-> closes]

\* While a form is saved it stays as it was sent, or is closed; while an item is
\* deleted its confirmation stands in front, and no other draft is opened.
SaveHoldsForm ==
    InFlight("save") =>
        /\ IsSave(call["save"]) /\ pendingEditor = Closed
        /\ \/ editing = Closed
           \/ /\ call["save"].row = [text |-> editing.text, order |-> editing.order]
              /\ editing.id \in {call["save"].id, New}
RemovalHoldsFront ==
    InFlight("remove") =>
        /\ IsRemoval(call["remove"])
        /\ deleteTarget # Nobody
        /\ call["remove"].closes => editing = Closed \/ editing.id = call["remove"].id
CallKeys == {"save", "remove", "order", "load"}
DraftHeld ==
    /\ DOMAIN call = CallKeys /\ call = [k \in CallKeys |-> call[k]]
    /\ SaveHoldsForm /\ RemovalHoldsFront
    /\ deleteTarget # Nobody => pendingEditor = Closed

LEMMA DraftInit == PanelInit => DraftHeld
BY DEF PanelInit, DraftHeld, CallKeys, SaveHoldsForm, RemovalHoldsFront, InFlight

\* What the calls become when a request goes out.
LEMMA CallSent ==
    ASSUME DraftHeld, NEW k \in CallKeys, NEW request, Sends(k, request)
    PROVE  /\ DOMAIN call' = CallKeys /\ call' = [j \in CallKeys |-> call'[j]]
           /\ call'[k] = request
           /\ \A j \in CallKeys \ {k, "load"} : call'[j] = call[j]
BY DEF DraftHeld, Sends, Beside, CallKeys

LEMMA CallReturned ==
    ASSUME DraftHeld, NEW k \in CallKeys, Returns(k)
    PROVE  /\ DOMAIN call' = CallKeys /\ call' = [j \in CallKeys |-> call'[j]]
           /\ call'[k] = Idle
           /\ \A j \in CallKeys \ {k} : call'[j] = call[j]
BY DEF DraftHeld, Returns, CallKeys

\* The editor, the dialogs and the requests of a save and a delete are as they were.
LEMMA DraftStays ==
    ASSUME DraftHeld, DOMAIN call' = CallKeys, call' = [j \in CallKeys |-> call'[j]],
           call'["save"] = call["save"], call'["remove"] = call["remove"],
           UNCHANGED <<editing, pendingEditor, deleteTarget>>
    PROVE  DraftHeld'
BY DEF DraftHeld, SaveHoldsForm, RemovalHoldsFront, InFlight

\* A request that lands, or is refused, says what it said.
LEMMA RequestKept ==
    ASSUME NEW r, NEW at
    PROVE  /\ IsSave(r) => /\ IsSave([r EXCEPT !.at = at])
                           /\ [r EXCEPT !.at = at].row = r.row /\ [r EXCEPT !.at = at].id = r.id
           /\ IsRemoval(r) => /\ IsRemoval([r EXCEPT !.at = at])
                              /\ [r EXCEPT !.at = at].closes = r.closes /\ [r EXCEPT !.at = at].id = r.id
<1>1. ASSUME IsSave(r) PROVE /\ IsSave([r EXCEPT !.at = at])
                             /\ [r EXCEPT !.at = at].row = r.row /\ [r EXCEPT !.at = at].id = r.id
  <2>1. PICK a, id, said : r = [at |-> a, id |-> id, row |-> said] BY <1>1 DEF IsSave
  <2>2. [r EXCEPT !.at = at] = [at |-> at, id |-> id, row |-> said] BY <2>1
  <2>3. QED BY <2>1, <2>2 DEF IsSave
<1>2. ASSUME IsRemoval(r) PROVE /\ IsRemoval([r EXCEPT !.at = at])
                                /\ [r EXCEPT !.at = at].closes = r.closes /\ [r EXCEPT !.at = at].id = r.id
  <2>1. PICK a, id, closes : r = [at |-> a, id |-> id, closes |-> closes] BY <1>2 DEF IsRemoval
  <2>2. [r EXCEPT !.at = at] = [at |-> at, id |-> id, closes |-> closes] BY <2>1
  <2>3. QED BY <2>1, <2>2 DEF IsRemoval
<1>3. QED BY <1>1, <1>2

LEMMA DraftStep == DraftHeld /\ [PanelNext]_panelVars => DraftHeld'
<1> SUFFICES ASSUME DraftHeld, [PanelNext]_panelVars PROVE DraftHeld'
  OBVIOUS
<1>1. ASSUME NEW k \in CallKeys, InFlight(k), Land(k) PROVE DraftHeld'
  <2>1. UNCHANGED <<editing, pendingEditor, deleteTarget>> BY <1>1 DEF Land, editorVars
  <2>2. PICK at : call' = [call EXCEPT ![k].at = at] BY <1>1 DEF Land
  <2> DEFINE next == [call[k] EXCEPT !.at = at]
  <2>3. call' = [call EXCEPT ![k] = next] BY <2>2
  <2> HIDE DEF next
  <2>4. /\ DOMAIN call' = CallKeys /\ call' = [j \in CallKeys |-> call'[j]] /\ call'[k] = next
        /\ \A j \in CallKeys \ {k} : call'[j] = call[j]
    BY <2>3 DEF DraftHeld
  <2>5. CASE k \in {"order", "load"}
    BY <2>1, <2>4, <2>5, DraftStays DEF CallKeys
  <2>6. CASE k = "save"
    <3>1. /\ IsSave(call["save"]) /\ pendingEditor = Closed BY <1>1, <2>6 DEF DraftHeld, SaveHoldsForm
    <3>2. IsSave(next) /\ next.row = call["save"].row /\ next.id = call["save"].id
      BY <2>6, <3>1, RequestKept DEF next
    <3>3. call'["save"] = next /\ call'["remove"] = call["remove"] BY <2>4, <2>6 DEF CallKeys
    <3>4. SaveHoldsForm' BY <1>1, <2>1, <2>6, <3>1, <3>2, <3>3 DEF DraftHeld, SaveHoldsForm
    <3>5. RemovalHoldsFront' BY <2>1, <3>3 DEF DraftHeld, RemovalHoldsFront, InFlight
    <3>6. QED BY <2>1, <2>4, <3>4, <3>5 DEF DraftHeld
  <2>7. CASE k = "remove"
    <3>1. IsRemoval(call["remove"]) BY <1>1, <2>7 DEF DraftHeld, RemovalHoldsFront
    <3>2. IsRemoval(next) /\ next.closes = call["remove"].closes /\ next.id = call["remove"].id
      BY <2>7, <3>1, RequestKept DEF next
    <3>3. call'["remove"] = next /\ call'["save"] = call["save"] BY <2>4, <2>7 DEF CallKeys
    <3>4. RemovalHoldsFront' BY <1>1, <2>1, <2>7, <3>2, <3>3 DEF DraftHeld, RemovalHoldsFront
    <3>5. SaveHoldsForm' BY <2>1, <3>3 DEF DraftHeld, SaveHoldsForm, InFlight
    <3>6. QED BY <2>1, <2>4, <3>4, <3>5 DEF DraftHeld
  <2>8. QED BY <2>5, <2>6, <2>7 DEF CallKeys
<1>2. ASSUME NEW k \in {"order", "load"}, ReadStore(k) PROVE DraftHeld'
  BY <1>2, DraftStays DEF ReadStore, editorVars, DraftHeld, CallKeys
<1>3. ASSUME ApplyLoad \/ OrderFailed PROVE DraftHeld'
  BY <1>3, CallReturned, DraftStays DEF ApplyLoad, OrderFailed, editorVars, CallKeys
<1>4. ASSUME \/ Reload \/ \E i \in PanelIds, text \in Texts : Import(i, text)
             \/ \E from, to \in 1..Len(IdOrder) : Move(from, to)
      PROVE  DraftHeld' BY <1>4, CallSent, DraftStays DEF Reload, Import, Move, editorVars, CallKeys
<1>5. ASSUME ImportReply \/ OrderReply PROVE DraftHeld'
  <2>1. UNCHANGED <<editing, pendingEditor, deleteTarget>> BY <1>5 DEF ImportReply, OrderReply, editorVars
  <2>2. \E k \in {"load", "order"} : \E next : call' = [call EXCEPT ![k] = next]
    <3>1. CASE ImportReply BY <3>1 DEF ImportReply, Returns
    <3>2. CASE OrderReply BY <3>2 DEF OrderReply, DraftHeld, CallKeys
    <3>3. QED BY <1>5, <3>1, <3>2
  <2>3. PICK k \in {"load", "order"} : \E next : call' = [call EXCEPT ![k] = next] BY <2>2
  <2>4. QED BY <2>1, <2>3, DraftStays DEF DraftHeld, CallKeys
<1>6. ASSUME \/ \E i \in PanelIds : Edit(i)
             \/ Add \/ (\E text \in Texts : Type(text)) \/ CancelEditor
      PROVE  DraftHeld'
  <2>1. ~InFlight("save") /\ Unblocked /\ UNCHANGED <<call, deleteTarget>>
    BY <1>6 DEF Edit, Add, OpenEditor, Type, CancelEditor
  <2>2. ~InFlight("remove") BY <2>1 DEF DraftHeld, RemovalHoldsFront, Unblocked
  <2>3. QED BY <2>1, <2>2 DEF DraftHeld, SaveHoldsForm, RemovalHoldsFront, Unblocked, InFlight
<1>7. ASSUME ConfirmDraftSwitch PROVE DraftHeld'
  BY <1>7 DEF ConfirmDraftSwitch, ApplyEditor, DraftHeld, SaveHoldsForm, RemovalHoldsFront, InFlight
<1>8. ASSUME CancelDraftSwitch PROVE DraftHeld'
  BY <1>8 DEF CancelDraftSwitch, DraftHeld, SaveHoldsForm, RemovalHoldsFront, InFlight
<1>9. ASSUME NEW i \in PanelIds, SubmitEditor(i) PROVE DraftHeld'
  <2> DEFINE request == [at |-> "out", id |-> i, row |-> [text |-> editing.text, order |-> editing.order]]
  <2>1. /\ Unblocked /\ editing # Closed /\ UNCHANGED <<editing, pendingEditor, deleteTarget>>
        /\ Sends("save", request) /\ i = IF editing.id = New THEN FreshIds[minted'] ELSE editing.id
    BY <1>9 DEF SubmitEditor, editorVars
  <2>2. IsSave(request) BY DEF IsSave
  <2>3. request.id = i /\ request.row = [text |-> editing.text, order |-> editing.order] OBVIOUS
  <2> HIDE DEF request
  <2>4. /\ DOMAIN call' = CallKeys /\ call' = [j \in CallKeys |-> call'[j]]
        /\ call'["save"] = request /\ call'["remove"] = call["remove"]
    BY <2>1, CallSent DEF CallKeys
  <2>5. SaveHoldsForm' BY <2>1, <2>2, <2>3, <2>4 DEF SaveHoldsForm, Unblocked
  <2>6. RemovalHoldsFront' BY <2>1, <2>4 DEF DraftHeld, RemovalHoldsFront, InFlight
  <2>7. QED BY <2>1, <2>4, <2>5, <2>6 DEF DraftHeld
<1>10. ASSUME SaveReply PROVE DraftHeld'
  BY <1>10, CallReturned DEF SaveReply, CallKeys, DraftHeld, SaveHoldsForm, RemovalHoldsFront, InFlight
<1>11. ASSUME NEW i \in PanelIds, RequestDelete(i) PROVE DraftHeld'
  BY <1>11 DEF RequestDelete, editorVars, DraftHeld, RemovalHoldsFront, Unblocked, SaveHoldsForm, InFlight
<1>12. ASSUME CancelDelete PROVE DraftHeld'
  BY <1>12 DEF CancelDelete, editorVars, DraftHeld, SaveHoldsForm, RemovalHoldsFront, InFlight
<1>13. ASSUME Removal PROVE DraftHeld'
  <2> DEFINE request == [at |-> "out", id |-> deleteTarget, closes |-> ClosesOnDelete(editing, deleteTarget)]
  <2>1. /\ deleteTarget # Nobody /\ UNCHANGED <<editing, pendingEditor, deleteTarget>>
        /\ Sends("remove", request)
    BY <1>13 DEF Removal, editorVars
  <2>2. IsRemoval(request) BY DEF IsRemoval
  <2>3. request.id = deleteTarget /\ request.closes = (editing.id = deleteTarget) BY DEF ClosesOnDelete
  <2> HIDE DEF request
  <2>4. /\ DOMAIN call' = CallKeys /\ call' = [j \in CallKeys |-> call'[j]]
        /\ call'["remove"] = request /\ call'["save"] = call["save"]
    BY <2>1, CallSent DEF CallKeys
  <2>5. RemovalHoldsFront' BY <2>1, <2>2, <2>3, <2>4 DEF RemovalHoldsFront
  <2>6. SaveHoldsForm' BY <2>1, <2>4 DEF DraftHeld, SaveHoldsForm, InFlight
  <2>7. QED BY <2>1, <2>4, <2>5, <2>6 DEF DraftHeld
<1>14. ASSUME RemoveReply PROVE DraftHeld'
  BY <1>14, CallReturned DEF RemoveReply, CallKeys, DraftHeld, SaveHoldsForm, RemovalHoldsFront, InFlight
<1>15. ASSUME OtherWrites PROVE DraftHeld'
  BY <1>15, DraftStays DEF OtherWrites, editorVars, DraftHeld, Beside, CallKeys
<1>16. CASE UNCHANGED panelVars
  BY <1>16 DEF panelVars, DraftHeld, SaveHoldsForm, RemovalHoldsFront, InFlight
<1>17. QED
  BY <1>1, <1>2, <1>3, <1>4, <1>5, <1>6, <1>7, <1>8, <1>9, <1>10, <1>11, <1>12, <1>13, <1>14, <1>15, <1>16
     DEF PanelNext, CallKeys

\* What the form holds, or is about to.
IsForm(form) == \E id, order, text : form = [id |-> id, order |-> order, text |-> text]
FormsHeld == IsForm(editing) /\ IsForm(pendingEditor)

LEMMA Typed ==
    ASSUME NEW form, IsForm(form), NEW text
    PROVE  IsForm([form EXCEPT !.text = text]) /\ [form EXCEPT !.text = text].id = form.id
<1>1. PICK id, order, old : form = [id |-> id, order |-> order, text |-> old] BY DEF IsForm
<1>2. [form EXCEPT !.text = text] = [id |-> id, order |-> order, text |-> text] BY <1>1
<1>3. QED BY <1>1, <1>2 DEF IsForm

LEMMA FormsStep == FormsHeld /\ [PanelNext]_panelVars => FormsHeld'
<1> SUFFICES ASSUME FormsHeld, [PanelNext]_panelVars PROVE FormsHeld'
  OBVIOUS
<1>1. IsForm(Closed) BY DEF IsForm, Closed
<1>2. ASSUME NEW next, IsForm(next), OpenEditor(next) PROVE FormsHeld'
  BY <1>1, <1>2 DEF OpenEditor, ApplyEditor, FormsHeld
<1>3. ASSUME NEW i \in PanelIds, Edit(i) PROVE FormsHeld' BY <1>2, <1>3 DEF IsForm, Edit
<1>4. ASSUME Add PROVE FormsHeld' BY <1>2, <1>4 DEF IsForm, Add
<1>5. ASSUME NEW text \in Texts, Type(text) PROVE FormsHeld'
  BY <1>5, Typed DEF Type, FormsHeld
<1>6. ASSUME ConfirmDraftSwitch \/ CancelDraftSwitch \/ CancelEditor PROVE FormsHeld'
  BY <1>1, <1>6 DEF ConfirmDraftSwitch, CancelDraftSwitch, CancelEditor, ApplyEditor, FormsHeld
<1>7. ASSUME SaveReply \/ RemoveReply PROVE FormsHeld' BY <1>7, <1>1 DEF SaveReply, RemoveReply, FormsHeld
<1>8. ASSUME UNCHANGED <<editing, pendingEditor>> PROVE FormsHeld' BY <1>8 DEF FormsHeld
<1>9. QED
  BY <1>3, <1>4, <1>5, <1>6, <1>7, <1>8
     DEF PanelNext, panelVars, editorVars, Land, ReadStore, ApplyLoad, Reload, ImportReply, OrderReply,
         OrderFailed, Import, Move, RequestDelete, SubmitEditor, CancelDelete, Removal, OtherWrites

\* What a step may do to a touched draft.
DraftLeaves ==
    Dirty /\ <<editing', openedAs'>> # <<editing, openedAs>> =>
         \/ openedAs' = openedAs /\ editing'.id = editing.id /\ ~InFlight("save")
         \/ /\ SaveReply /\ call["save"].row = [text |-> editing.text, order |-> editing.order]
            /\ editing.id \in {call["save"].id, New}
         \/ RemoveReply /\ call["remove"].id = editing.id
         \/ CancelEditor \/ ConfirmDraftSwitch

LEMMA DraftLeavesStep == DraftHeld /\ FormsHeld /\ [PanelNext]_panelVars => DraftLeaves
<1> SUFFICES ASSUME DraftHeld, FormsHeld, [PanelNext]_panelVars,
                    Dirty, <<editing', openedAs'>> # <<editing, openedAs>>
             PROVE  DraftLeaves
  BY DEF DraftLeaves
<1>1. editing # Closed BY DEF Dirty
\* A dirty editor is only asked about.
<1>2. ASSUME (\E i \in PanelIds : Edit(i)) \/ Add PROVE FALSE
  BY <1>2 DEF Edit, Add, OpenEditor
<1>3. ASSUME NEW text \in Texts, Type(text) PROVE DraftLeaves
  BY <1>3, Typed DEF Type, FormsHeld, DraftLeaves
<1>4. ASSUME ConfirmDraftSwitch \/ CancelEditor PROVE DraftLeaves BY <1>4 DEF DraftLeaves
<1>5. ASSUME SaveReply PROVE DraftLeaves
  BY <1>1, <1>5 DEF SaveReply, DraftHeld, SaveHoldsForm, DraftLeaves
<1>6. ASSUME RemoveReply PROVE DraftLeaves
  BY <1>6, <1>1 DEF RemoveReply, DraftHeld, RemovalHoldsFront, DraftLeaves
<1>7. QED
  BY <1>2, <1>3, <1>4, <1>5, <1>6
     DEF PanelNext, panelVars, editorVars, Land, ReadStore, ApplyLoad, Reload, ImportReply, OrderReply,
         OrderFailed, Import, Move, RequestDelete, SubmitEditor, CancelDelete, Removal, OtherWrites,
         CancelDraftSwitch

\* No reply takes a touched draft that is not the one it is about, for any number of
\* items, texts and organizers: not a reload's, a move's or an import's, not a delete's
\* of another item, and a save's only when the form still says what was saved.
THEOREM DraftsKept == PanelSpec => DraftKept
<1>1. PanelInit => DraftHeld /\ FormsHeld BY DraftInit DEF IsForm, Closed, PanelInit, FormsHeld
<1>2. DraftHeld /\ FormsHeld /\ [PanelNext]_panelVars => [DraftLeaves]_panelVars
  BY DraftLeavesStep
<1>3. QED BY <1>1, <1>2, DraftStep, FormsStep, PTL DEF PanelSpec, DraftKept, DraftLeaves

(***************************************************************************)
(* AdminPanel: what the list shows of what is stored.                        *)
(***************************************************************************)
TheCalls == {"save", "remove", "order", "load"}
Rows == UNION {[S -> Row] : S \in SUBSET PanelIds}
Form == {Closed} \union [id : PanelIds \union {New}, order : Nat \ {0}, text : Texts \union {Nobody}]
Sent == [id : PanelIds, row : Row]
SaveCall == [at : {"out", "done", "refused"}, id : PanelIds, row : Row]
RemoveCall == [at : {"out", "done", "refused"}, id : PanelIds, closes : BOOLEAN]
OrderCall == [at : {"out", "done", "refused", "reread", "read", "unread"}, todo : Seq(Sent) \ {<<>>}, was : Rows, got : Rows]
LoadCall == [at : {"import", "done", "refused", "out", "read", "unread"}, id : PanelIds \union {Nobody},
             row : Row \union {Closed}, got : Rows, alone : BOOLEAN]

CallsTyped ==
    /\ DOMAIN call = TheCalls /\ call = [k \in TheCalls |-> call[k]]
    /\ call["save"] \in SaveCall \union {Idle} /\ call["remove"] \in RemoveCall \union {Idle}
    /\ call["order"] \in OrderCall \union {Idle} /\ call["load"] \in LoadCall \union {Idle}
PanelTyped ==
    /\ stored \in Rows /\ shown \in Rows /\ editing \in Form /\ pendingEditor \in Form
    /\ deleteTarget \in PanelIds \union {Nobody} /\ apart \in BOOLEAN /\ loaded \in BOOLEAN
    /\ CallsTyped

Lone(k) == \A j \in TheCalls \ {k} : call[j] = Idle

\* A load that ran alone has read what is stored; one that imports says what.
LoadsAlone ==
    call["load"] # Idle =>
        /\ call["load"].alone => Lone("load") /\ (call["load"].at = "read" => call["load"].got = stored)
        /\ call["load"].at \in {"import", "done", "refused"} => call["load"].id # Nobody /\ call["load"].row \in Row

\* What of a move is still to be stored, from some place on of what was to be sent.
Owed(todo, from) ==
    /\ DOMAIN stored = DOMAIN shown
    /\ \A k \in 1..Len(todo) : todo[k].id \in DOMAIN shown /\ todo[k].row = shown[todo[k].id]
    /\ \A i \in DOMAIN shown : stored[i] = shown[i] \/ \E k \in from..Len(todo) : todo[k].id = i

\* While nothing sets list and store apart, one request is in flight at a time, and
\* what it has done and not yet shown is the difference.
OneAtATime ==
    ~apart => \A k \in TheCalls : call[k] # Idle => Lone(k) /\ (k = "load" => call[k].alone)
Explained ==
    ~apart /\ loaded =>
        /\ Quiet => shown = stored
        /\ call["save"] # Idle =>
              IF call["save"].at = "done" THEN stored = Upsert(shown, call["save"].id, call["save"].row)
              ELSE shown = stored
        /\ call["remove"] # Idle =>
              IF call["remove"].at = "done" THEN stored = Without(shown, call["remove"].id) ELSE shown = stored
        /\ call["order"] # Idle =>
              /\ call["order"].at = "out" => Owed(call["order"].todo, 1)
              /\ call["order"].at = "done" => Owed(call["order"].todo, 2)
              /\ call["order"].at = "read" => call["order"].got = stored
        /\ call["load"] # Idle /\ (call["load"].id = Nobody \/ call["load"].at \in {"import", "refused"}) =>
              shown = stored
ListInv == PanelTyped /\ LoadsAlone /\ OneAtATime /\ Explained

LEMMA FinitelyMany == IsFiniteSet(PanelIds) /\ \A ids : ids \subseteq PanelIds => IsFiniteSet(ids)
<1>1. IdOrder \in Seq(PanelIds) BY PanelAssumption
<1>2. DOMAIN IdOrder = 1..Len(IdOrder) /\ Len(IdOrder) \in Nat BY <1>1
<1>3. IsFiniteSet(1..Len(IdOrder)) BY <1>2, FS_Interval
<1>4. IdOrder \in Surjection(1..Len(IdOrder), PanelIds) BY <1>1, <1>2 DEF PanelIds, ToSet, Surjection
<1>5. IsFiniteSet(PanelIds) BY <1>3, <1>4, FS_Surjection
<1>6. QED BY <1>5, FS_Subset

LEMMA RowsAre == \A items : items \in Rows <=> AreRows(items)
BY DEF Rows, AreRows

\* Rows have an order, all of them.
LEMMA BeforeIsAnOrder ==
    ASSUME NEW items \in Rows
    PROVE  /\ \A a \in DOMAIN items : ~Before(items, a, a)
           /\ \A a, b \in DOMAIN items : a # b => Before(items, a, b) \/ Before(items, b, a)
           /\ \A a, b, c \in DOMAIN items : Before(items, a, b) /\ Before(items, b, c) => Before(items, a, c)
BY RowsAre, PanelAssumption DEF AreRows, Row, Place, PanelIds, ToSet, Before

Ahead(items, ids, i) == {j \in ids : Before(items, j, i)}
Rank(items, ids, i) == Cardinality(Ahead(items, ids, i))

\* A sorted list has each of its ids at one place.
LEMMA SortedHasEach ==
    ASSUME NEW items \in Rows, NEW ids, ids \subseteq DOMAIN items
    PROVE  /\ Cardinality(ids) \in Nat /\ Sorted(ids, items) \in [1..Cardinality(ids) -> ids]
           /\ \A i \in ids : \E k \in 1..Cardinality(ids) : Sorted(ids, items)[k] = i
<1> DEFINE n == Cardinality(ids)
           A(i) == Ahead(items, ids, i)
           R(i) == Rank(items, ids, i)
<1>1. IsFiniteSet(ids) /\ n \in Nat BY RowsAre, FinitelyMany, FS_CardinalityType DEF AreRows
<1>2. \A i \in ids : A(i) \subseteq ids BY DEF Ahead
<1>3. \A i \in ids : IsFiniteSet(A(i)) /\ R(i) \in Nat BY <1>1, <1>2, FS_Subset, FS_CardinalityType DEF Rank
<1>4. ASSUME NEW i \in ids PROVE i \notin A(i) /\ Cardinality(A(i) \union {i}) = R(i) + 1
  BY BeforeIsAnOrder, <1>3, FS_AddElement DEF Ahead, Rank
<1>5. ASSUME NEW i \in ids PROVE R(i) + 1 \in 1..n
  <2>1. A(i) \union {i} \subseteq ids BY <1>2
  <2>2. Cardinality(A(i) \union {i}) <= n BY <1>1, <2>1, FS_Subset
  <2> HIDE DEF n, A, R
  <2>3. QED BY <1>1, <1>3, <1>4, <2>2
<1>6. ASSUME NEW i \in ids, NEW j \in ids, Before(items, i, j) PROVE R(i) < R(j)
  <2>1. \A k \in ids : Before(items, k, i) => Before(items, k, j) BY <1>6, BeforeIsAnOrder
  <2>2. A(i) \union {i} \subseteq A(j) BY <1>6, <2>1 DEF Ahead
  <2>3. Cardinality(A(i) \union {i}) <= R(j) BY <1>3, <2>2, FS_Subset DEF Rank
  <2> HIDE DEF A, R
  <2>4. QED BY <1>3, <1>4, <2>3
<1> HIDE DEF n, A, R
<1>7. ASSUME NEW i \in ids, NEW j \in ids, i # j PROVE R(i) # R(j) BY <1>7, BeforeIsAnOrder, <1>3, <1>6
<1> DEFINE rank == [i \in ids |-> R(i) + 1]
<1>8. rank \in [ids -> 1..n] BY <1>5
<1>9. \A i, j \in ids : rank[i] = rank[j] => i = j BY <1>3, <1>7
<1>10. \A i \in ids : rank[i] = R(i) + 1 OBVIOUS
<1> HIDE DEF rank
<1>11. rank \in Injection(ids, 1..n) BY <1>8, <1>9 DEF Injection, IsInjective
<1>12. IsFiniteSet(1..n) /\ Cardinality(1..n) = n BY <1>1, FS_Interval
<1>13. rank \in Surjection(ids, 1..n) BY <1>1, <1>11, <1>12, FS_Injection DEF n
<1>14. Sorted(ids, items) = [k \in 1..n |-> CHOOSE i \in ids : R(i) = k - 1] BY DEF Sorted, n, R, Rank, Ahead
<1>15. ASSUME NEW k \in 1..n
       PROVE  Sorted(ids, items)[k] \in ids /\ R(Sorted(ids, items)[k]) = k - 1
  BY <1>13, <1>1, <1>3, <1>10, <1>14 DEF Surjection
<1>16. Sorted(ids, items) \in [1..n -> ids] BY <1>14, <1>15
<1>17. ASSUME NEW i \in ids PROVE \E k \in 1..n : Sorted(ids, items)[k] = i
  BY <1>1, <1>3, <1>8, <1>10, <1>7, <1>15
<1>18. QED BY <1>1, <1>16, <1>17 DEF n

\* The highest place, and the next.
LEMMA NextIsAPlace == ASSUME NEW items \in Rows PROVE NextOrder(items) \in Nat \ {0}
<1> DEFINE S == {0} \union {items[i].order : i \in DOMAIN items}
<1>1. IsFiniteSet(DOMAIN items) /\ \A i \in DOMAIN items : items[i].order \in Nat BY RowsAre, FinitelyMany DEF AreRows, Row
<1>2. IsFiniteSet({items[i].order : i \in DOMAIN items})
  <2> DEFINE f == [i \in DOMAIN items |-> items[i].order]
  <2>1. f \in Surjection(DOMAIN items, {items[i].order : i \in DOMAIN items}) BY DEF Surjection
  <2>2. QED BY <1>1, <2>1, FS_Surjection
<1>3. IsFiniteSet(S) BY <1>2, FS_Singleton, FS_Union
<1>4. \A x \in S : x \in Int /\ x >= 0 BY <1>1
<1>5. 0 \in S OBVIOUS
<1> HIDE DEF S
<1>6. \E x \in S : \A y \in S : y <= x BY <1>3, <1>4, <1>5, Largest
<1>7. \E x \in S : \A y \in S : x >= y BY <1>4, <1>6
<1>8. Max(S) \in S BY <1>7 DEF Max
<1>9. Max(S) + 1 \in Nat \ {0} BY <1>4, <1>8
<1>10. QED BY <1>9 DEF NextOrder, S

LEMMA RowsChange ==
    ASSUME NEW items \in Rows, NEW id \in PanelIds
    PROVE  /\ \A item \in Row : Upsert(items, id, item) \in Rows
           /\ Without(items, id) \in Rows
BY RowsAre DEF AreRows, Upsert, Without

\* Taking one out of a list and putting it in elsewhere keeps every other in it.
LEMMA MovedHasEach ==
    ASSUME NEW S, NEW ordered \in Seq(S), NEW from \in 1..Len(ordered), NEW to \in 1..Len(ordered)
    PROVE  LET moved == InsertAt(RemoveAt(ordered, from), to, ordered[from])
           IN  moved \in Seq(S) /\ \A k \in 1..Len(ordered) : \E m \in 1..Len(moved) : moved[m] = ordered[k]
<1> DEFINE head == SubSeq(ordered, 1, from - 1)
           tail == SubSeq(ordered, from + 1, Len(ordered))
           rest == head \o tail
           before == SubSeq(rest, 1, to - 1)
           after == SubSeq(rest, to, Len(rest))
           moved == before \o <<ordered[from]>> \o after
<1>1. Len(ordered) \in Nat /\ \A k \in 1..Len(ordered) : ordered[k] \in S OBVIOUS
<1>2. head \in Seq(S) /\ Len(head) = from - 1 /\ \A k \in 1..from - 1 : head[k] = ordered[k]
  BY <1>1, SubSeqProperties
<1>3. tail \in Seq(S) /\ Len(tail) = Len(ordered) - from /\ \A k \in 1..Len(ordered) - from : tail[k] = ordered[k + from]
  BY <1>1, SubSeqProperties
<1> HIDE DEF head, tail
<1>4. rest \in Seq(S) /\ Len(rest) = Len(ordered) - 1
      /\ \A k \in 1..Len(ordered) - 1 : rest[k] = IF k < from THEN ordered[k] ELSE ordered[k + 1]
  BY <1>2, <1>3, ConcatProperties, <1>1
<1> HIDE DEF rest
<1>5. \A k \in 1..Len(rest) : rest[k] \in S BY <1>4
<1>6. before \in Seq(S) /\ Len(before) = to - 1 /\ \A k \in 1..to - 1 : before[k] = rest[k]
  BY <1>1, <1>4, <1>5, SubSeqProperties
<1>7. after \in Seq(S) /\ Len(after) = Len(ordered) - to /\ \A k \in 1..Len(ordered) - to : after[k] = rest[k + to - 1]
  BY <1>1, <1>4, <1>5, SubSeqProperties
<1> HIDE DEF before, after
<1>8. <<ordered[from]>> \in Seq(S) /\ Len(<<ordered[from]>>) = 1 BY <1>1
<1>9. before \o <<ordered[from]>> \in Seq(S) /\ Len(before \o <<ordered[from]>>) = to
      /\ \A k \in 1..to : (before \o <<ordered[from]>>)[k] = IF k < to THEN rest[k] ELSE ordered[from]
  BY <1>6, <1>8, ConcatProperties
<1> DEFINE first == before \o <<ordered[from]>>
<1> HIDE DEF first
<1>10. first \in Seq(S) /\ Len(first) = to /\ \A k \in 1..to : first[k] = IF k < to THEN rest[k] ELSE ordered[from]
  BY <1>9 DEF first
<1>11. moved = first \o after BY DEF first
<1>12. moved \in Seq(S) /\ Len(moved) = Len(ordered)
       /\ \A k \in 1..Len(ordered) : moved[k] = IF k <= to THEN first[k] ELSE after[k - to]
  <2>1. first \o after \in Seq(S) /\ Len(first \o after) = Len(first) + Len(after)
        /\ \A k \in 1..Len(first) + Len(after) : (first \o after)[k] = IF k <= Len(first) THEN first[k] ELSE after[k - Len(first)]
    BY <1>7, <1>10, ConcatProperties
  <2>2. Len(first) + Len(after) = Len(ordered) /\ Len(first) = to BY <1>1, <1>7, <1>10
  <2> HIDE DEF moved
  <2>3. QED BY <1>11, <2>1, <2>2
<1> HIDE DEF moved
<1>13. \A k \in 1..Len(ordered) : moved[k] = IF k < to THEN rest[k] ELSE IF k = to THEN ordered[from] ELSE rest[k - 1]
  BY <1>7, <1>10, <1>12
<1>14. ASSUME NEW k \in 1..Len(ordered) PROVE \E m \in 1..Len(moved) : moved[m] = ordered[k]
  <2>1. CASE k = from BY <1>12, <1>13, <2>1
  <2>2. CASE k # from
    <3>1. PICK r \in 1..Len(ordered) - 1 : rest[r] = ordered[k]
      <4>1. CASE k < from BY <1>4, <4>1
      <4>2. CASE k > from
        <5>1. k - 1 \in 1..Len(ordered) - 1 /\ ~(k - 1 < from) /\ k - 1 + 1 = k BY <4>2
        <5>2. QED BY <1>4, <5>1
      <4>3. QED BY <2>2, <4>1, <4>2
    <3>2. CASE r < to BY <1>12, <1>13, <3>1, <3>2
    <3>3. CASE ~(r < to) BY <3>3, <1>13, <1>12, <3>1
    <3>4. QED BY <3>2, <3>3
  <2>3. QED BY <2>1, <2>2
<1>15. moved = InsertAt(RemoveAt(ordered, from), to, ordered[from]) BY DEF moved, before, after, rest, head, tail, InsertAt, RemoveAt
<1>16. QED BY <1>12, <1>14, <1>15

LEMMA MoveReorders ==
    ASSUME NEW items \in Rows, NEW from \in 1..Cardinality(DOMAIN items), NEW to \in 1..Cardinality(DOMAIN items)
    PROVE  /\ Reordered(items, from, to) \in Rows /\ DOMAIN Reordered(items, from, to) = DOMAIN items
           /\ \A i \in DOMAIN items : Reordered(items, from, to)[i].order = items[i].order => Reordered(items, from, to)[i] = items[i]
<1> DEFINE L == ListOf(items)
           moved == InsertAt(RemoveAt(L, from), to, L[from])
           after == [i \in DOMAIN items |-> [items[i] EXCEPT !.order = Place(moved, i)]]
<1>1. L \in Seq(DOMAIN items) /\ Len(L) = Cardinality(DOMAIN items)
      /\ \A i \in DOMAIN items : \E k \in 1..Len(L) : L[k] = i
  BY SortedHasEach DEF ListOf
<1> HIDE DEF L
<1>2. from \in 1..Len(L) /\ to \in 1..Len(L) BY <1>1
<1>3. moved \in Seq(DOMAIN items) /\ \A k \in 1..Len(L) : \E m \in 1..Len(moved) : moved[m] = L[k]
  BY <1>1, <1>2, MovedHasEach, ZenonT(40)
<1> HIDE DEF moved
<1>4. ASSUME NEW i \in DOMAIN items PROVE Place(moved, i) \in Nat \ {0}
  <2>1. PICK k \in 1..Len(L) : L[k] = i BY <1>1
  <2>2. \E m \in 1..Len(moved) : moved[m] = L[k] BY <1>3
  <2>3. DOMAIN moved = 1..Len(moved) BY <1>3
  <2>4. \E m \in DOMAIN moved : moved[m] = i BY <2>1, <2>2, <2>3
  <2>5. Place(moved, i) \in DOMAIN moved BY <2>4 DEF Place
  <2>6. QED BY <1>3, <2>3, <2>5
<1>5. DOMAIN items \subseteq PanelIds /\ \A i \in DOMAIN items : items[i] \in Row BY RowsAre DEF AreRows
<1>6. after \in [DOMAIN items -> Row] BY <1>4, <1>5 DEF Row
<1>7. \A i \in DOMAIN items : after[i].order = items[i].order => after[i] = items[i] BY <1>5 DEF Row
<1>8. after = Reordered(items, from, to) BY DEF after, moved, L, Reordered
<1> HIDE DEF after
<1>9. after \in Rows /\ DOMAIN after = DOMAIN items BY <1>5, <1>6 DEF Rows
<1>10. QED BY <1>7, <1>8, <1>9

\* What a move sends are the rows whose place it changes, as they are after it.
LEMMA ChangesAreSent ==
    ASSUME NEW before \in Rows, NEW after \in Rows
    PROVE  /\ ChangedRows(before, after) \in Seq(Sent)
           /\ \A k \in 1..Len(ChangedRows(before, after)) :
                 /\ ChangedRows(before, after)[k].id \in DOMAIN after
                 /\ ChangedRows(before, after)[k].row = after[ChangedRows(before, after)[k].id]
           /\ \A i \in DOMAIN after : before[i].order # after[i].order =>
                 \E k \in 1..Len(ChangedRows(before, after)) : ChangedRows(before, after)[k].id = i
<1> DEFINE ids == {i \in DOMAIN after : before[i].order # after[i].order}
           n == Cardinality(ids)
           ordered == Sorted(ids, after)
           sent == [k \in DOMAIN ordered |-> [id |-> ordered[k], row |-> after[ordered[k]]]]
<1>1. n \in Nat /\ ordered \in [1..n -> ids] /\ \A i \in ids : \E k \in 1..n : ordered[k] = i
  <2>1. ids \subseteq DOMAIN after OBVIOUS
  <2> HIDE DEF ids
  <2>2. QED BY <2>1, SortedHasEach
<1>2. sent = ChangedRows(before, after) BY DEF ChangedRows
<1>3. DOMAIN after \subseteq PanelIds /\ \A i \in DOMAIN after : after[i] \in Row BY RowsAre DEF AreRows
<1>4. \A i \in ids : i \in DOMAIN after OBVIOUS
<1>5. \A i \in DOMAIN after : before[i].order # after[i].order => i \in ids OBVIOUS
<1> HIDE DEF ordered, ids, n
<1>6. sent \in [1..n -> Sent] BY <1>1, <1>3, <1>4 DEF Sent
<1>7. sent \in Seq(Sent) /\ Len(sent) = n BY <1>1, <1>6
<1>8. \A k \in 1..n : sent[k].id = ordered[k] /\ sent[k].row = after[ordered[k]] BY <1>1
<1> HIDE DEF sent
<1>9. QED BY <1>1, <1>2, <1>4, <1>5, <1>7, <1>8

LEMMA NoRows == <<>> \in Rows
BY DEF Rows

CallOf(k) == CASE k = "save" -> SaveCall [] k = "remove" -> RemoveCall [] k = "order" -> OrderCall [] k = "load" -> LoadCall

\* A call that is in flight, and one that is not.
LEMMA Underway ==
    /\ \A c \in SaveCall \union RemoveCall \union OrderCall \union LoadCall : c # Idle /\ c.at # "idle"
    /\ Idle.at = "idle"
BY DEF SaveCall, RemoveCall, OrderCall, LoadCall, Idle

LEMMA CallsAre ==
    CallsTyped <=> /\ call = [k \in TheCalls |-> call[k]]
                   /\ \A k \in TheCalls : call[k] \in CallOf(k) \union {Idle}
BY DEF CallsTyped, TheCalls, CallOf

\* One call moves on, the others stand.
LEMMA OneMoves ==
    ASSUME CallsTyped, NEW k \in TheCalls, NEW v, v \in CallOf(k) \union {Idle}, call' = [call EXCEPT ![k] = v]
    PROVE  CallsTyped' /\ call'[k] = v /\ \A j \in TheCalls \ {k} : call'[j] = call[j]
BY CallsAre DEF CallsTyped, TheCalls, CallOf

\* A load beside others goes on, and no longer settles the list.
Demoted(c) == IF c = Idle THEN c ELSE [c EXCEPT !.alone = FALSE]

LEMMA BesideIs ==
    ASSUME CallsTyped, NEW k \in TheCalls
    PROVE  /\ Beside(k) = [j \in TheCalls |-> Beside(k)[j]]
           /\ \A j \in TheCalls : Beside(k)[j] = IF j # k /\ j = "load" THEN Demoted(call[j]) ELSE call[j]
           /\ \A j \in TheCalls : Beside(k)[j] \in CallOf(j) \union {Idle}
<1>1. DOMAIN call = TheCalls BY DEF CallsTyped
<1>2. \A j \in TheCalls : Beside(k)[j] = IF j # k /\ j = "load" THEN Demoted(call[j]) ELSE call[j]
  BY <1>1 DEF Beside, Demoted
<1>3. Beside(k) = [j \in TheCalls |-> Beside(k)[j]] BY <1>1 DEF Beside
<1>4. Demoted(call["load"]) \in LoadCall \union {Idle} BY DEF CallsTyped, Demoted, LoadCall
<1>5. \A j \in TheCalls : Beside(k)[j] \in CallOf(j) \union {Idle} BY <1>2, <1>4, CallsAre DEF CallOf
<1>6. QED BY <1>2, <1>3, <1>5

LEMMA Sending ==
    ASSUME CallsTyped, NEW k \in TheCalls, NEW request \in CallOf(k), Sends(k, request)
    PROVE  /\ CallsTyped' /\ call'[k] = request
           /\ \A j \in TheCalls \ {k} : call'[j] = IF j = "load" THEN Demoted(call[j]) ELSE call[j]
           /\ apart' = (apart \/ ~Quiet)
<1>1. /\ Beside(k) = [j \in TheCalls |-> Beside(k)[j]]
      /\ \A j \in TheCalls : Beside(k)[j] = IF j # k /\ j = "load" THEN Demoted(call[j]) ELSE call[j]
      /\ \A j \in TheCalls : Beside(k)[j] \in CallOf(j) \union {Idle}
  BY BesideIs
<1>2. call' = [Beside(k) EXCEPT ![k] = request] /\ apart' = (apart \/ ~Quiet) BY DEF Sends
<1>3. call' = [j \in TheCalls |-> IF j = k THEN request ELSE Beside(k)[j]] BY <1>1, <1>2
<1>4. call' = [j \in TheCalls |-> call'[j]] BY <1>3
<1>5. \A j \in TheCalls : call'[j] \in CallOf(j) \union {Idle} BY <1>1, <1>3
<1>6. CallsTyped' BY <1>4, <1>5 DEF CallsTyped, TheCalls, CallOf
<1>7. QED BY <1>1, <1>2, <1>3, <1>6

LEMMA QuietIs == CallsTyped => (Quiet <=> \A j \in TheCalls : call[j] = Idle)
BY DEF CallsTyped, Quiet, InFlight

LEMMA ListInit == PanelInit => ListInv
<1> SUFFICES ASSUME PanelInit PROVE ListInv OBVIOUS
<1>1. PICK visit \in Visits : stored = visit.start /\ allow = visit.allow BY DEF PanelInit
<1>2. stored \in Rows BY <1>1, RowsAre, PanelAssumption
<1>3. call = [k \in TheCalls |-> IF k = "load" THEN [at |-> "out", id |-> Nobody, row |-> Closed, got |-> <<>>, alone |-> TRUE] ELSE Idle]
  BY DEF PanelInit, TheCalls
<1>4. [at |-> "out", id |-> Nobody, row |-> Closed, got |-> <<>>, alone |-> TRUE] \in LoadCall BY NoRows DEF LoadCall
<1>5. CallsTyped BY <1>3, <1>4 DEF CallsTyped, TheCalls
<1>6. PanelTyped BY <1>2, <1>5, NoRows DEF PanelTyped, PanelInit, Form
<1>7. call["load"] = [at |-> "out", id |-> Nobody, row |-> Closed, got |-> <<>>, alone |-> TRUE]
      /\ \A k \in TheCalls \ {"load"} : call[k] = Idle
  BY <1>3 DEF TheCalls
<1>8. Lone("load") BY <1>7 DEF Lone
<1>9. LoadsAlone BY <1>7, <1>8 DEF LoadsAlone
<1>10. OneAtATime BY <1>7, <1>8 DEF OneAtATime
<1>11. Explained BY DEF Explained, PanelInit
<1>12. QED BY <1>6, <1>9, <1>10, <1>11 DEF ListInv

\* What neither sends, answers nor shows anything leaves the list's story as it is.
LEMMA ListStands ==
    ASSUME ListInv, UNCHANGED <<stored, shown, loaded, call, apart>>,
           editing' \in Form, pendingEditor' \in Form, deleteTarget' \in PanelIds \union {Nobody}
    PROVE  ListInv'
<1>1. PanelTyped' BY DEF ListInv, PanelTyped, CallsTyped
<1>2. LoadsAlone' BY DEF ListInv, LoadsAlone, Lone
<1>3. OneAtATime' BY DEF ListInv, OneAtATime, Lone
<1>4. Explained' BY DEF ListInv, Explained, Owed, Quiet, InFlight
<1>5. QED BY <1>1, <1>2, <1>3, <1>4 DEF ListInv

LEMMA EditingKeepsList ==
    ASSUME ListInv,
           \/ \E i \in PanelIds : Edit(i) \/ RequestDelete(i)
           \/ Add \/ \E text \in Texts : Type(text)
           \/ ConfirmDraftSwitch \/ CancelDraftSwitch \/ CancelEditor \/ CancelDelete
    PROVE  ListInv'
<1>1. editing \in Form /\ pendingEditor \in Form /\ Closed \in Form /\ shown \in Rows /\ deleteTarget \in PanelIds \union {Nobody}
  BY DEF ListInv, PanelTyped, Form
<1>2. ASSUME NEW next \in Form, OpenEditor(next) PROVE ListInv'
  BY <1>1, <1>2, ListStands DEF OpenEditor, ApplyEditor
<1>3. ASSUME NEW i \in PanelIds, Edit(i) PROVE ListInv'
  BY <1>1, <1>3, RowsAre, <1>2 DEF Edit, AreRows, Form, Row
<1>4. ASSUME NEW i \in PanelIds, RequestDelete(i) PROVE ListInv'
  BY <1>1, <1>4, ListStands DEF RequestDelete, editorVars
<1>5. ASSUME Add PROVE ListInv' BY <1>1, NextIsAPlace, <1>2, <1>5 DEF Form, Add
<1>6. ASSUME NEW text \in Texts, Type(text) PROVE ListInv' BY <1>1, <1>6, ListStands DEF Type, Form
<1>7. ASSUME ConfirmDraftSwitch PROVE ListInv' BY <1>1, <1>7, ListStands DEF ConfirmDraftSwitch, ApplyEditor
<1>8. ASSUME CancelDraftSwitch PROVE ListInv' BY <1>1, <1>8, ListStands DEF CancelDraftSwitch
<1>9. ASSUME CancelEditor PROVE ListInv' BY <1>1, <1>9, ListStands DEF CancelEditor, ApplyEditor
<1>10. ASSUME CancelDelete PROVE ListInv' BY <1>1, <1>10, ListStands DEF CancelDelete, editorVars
<1>11. QED BY <1>3, <1>4, <1>5, <1>6, <1>7, <1>8, <1>9, <1>10

\* A request of its own, sent into quiet: everything else is idle, or the two sides are apart.
LEMMA SentBeside ==
    ASSUME ListInv, NEW k \in TheCalls \ {"load"}, NEW request \in CallOf(k), Sends(k, request), call[k] = Idle,
           stored' = stored
    PROVE  /\ LoadsAlone' /\ OneAtATime'
           /\ ~apart' => ~apart /\ Quiet /\ ~Quiet' /\ \A j \in TheCalls \ {k} : call'[j] = Idle
<1>1. /\ CallsTyped' /\ call'[k] = request
      /\ \A j \in TheCalls \ {k} : call'[j] = IF j = "load" THEN Demoted(call[j]) ELSE call[j]
      /\ apart' = (apart \/ ~Quiet)
  BY Sending DEF ListInv, PanelTyped
<1>2. request # Idle BY Underway DEF CallOf, TheCalls
<1>3. ~apart' => ~apart /\ Quiet /\ \A j \in TheCalls \ {k} : call'[j] = Idle
  <2> SUFFICES ASSUME ~apart' PROVE ~apart /\ Quiet /\ \A j \in TheCalls \ {k} : call'[j] = Idle OBVIOUS
  <2>1. ~apart /\ Quiet BY <1>1
  <2>2. \A j \in TheCalls : call[j] = Idle BY <2>1, QuietIs DEF ListInv, PanelTyped
  <2>3. Demoted(Idle) = Idle BY DEF Demoted
  <2>4. \A j \in TheCalls \ {k} : call'[j] = Idle BY <1>1, <2>2, <2>3
  <2>5. QED BY <2>1, <2>4
<1>4. ~Quiet' BY <1>1, <1>2 DEF Quiet, InFlight, CallsTyped
<1>5. OneAtATime' BY <1>1, <1>3 DEF OneAtATime, Lone
<1>6. LoadsAlone'
  <2> SUFFICES ASSUME call'["load"] # Idle
               PROVE  /\ call'["load"].alone => FALSE
                      /\ call'["load"].at \in {"import", "done", "refused"} =>
                            call'["load"].id # Nobody /\ call'["load"].row \in Row
    BY DEF LoadsAlone
  <2>1. call'["load"] = Demoted(call["load"]) /\ call["load"] # Idle BY <1>1 DEF TheCalls, Demoted
  <2>2. call["load"] \in LoadCall BY <2>1 DEF ListInv, PanelTyped, CallsTyped
  <2>3. /\ call'["load"].alone = FALSE /\ call'["load"].at = call["load"].at
        /\ call'["load"].id = call["load"].id /\ call'["load"].row = call["load"].row
    BY <2>1, <2>2 DEF Demoted, LoadCall
  <2>4. QED BY <2>1, <2>3 DEF ListInv, LoadsAlone
<1>7. QED BY <1>3, <1>4, <1>5, <1>6

\* One request alone explains what list and store differ by.
Explains(k) ==
    IF k \in {"save", "remove"}
    THEN IF call[k].at # "done" THEN shown = stored
         ELSE stored = IF k = "save" THEN Upsert(shown, call[k].id, call[k].row) ELSE Without(shown, call[k].id)
    ELSE IF k = "order"
    THEN /\ call[k].at = "out" => Owed(call[k].todo, 1)
         /\ call[k].at = "done" => Owed(call[k].todo, 2)
         /\ call[k].at = "read" => call[k].got = stored
    ELSE call[k].id = Nobody \/ call[k].at \in {"import", "refused"} => shown = stored

LEMMA ExplainedNext ==
    ASSUME CallsTyped'
    PROVE  Explained' <=> (~apart' /\ loaded' => /\ Quiet' => shown' = stored'
                                                 /\ \A k \in TheCalls : call'[k] # Idle => Explains(k)')
BY DEF Explained, Explains, TheCalls

LEMMA SubmitKeepsList ==
    ASSUME ListInv, NEW i \in PanelIds, SubmitEditor(i) PROVE ListInv'
<1> DEFINE request == [at |-> "out", id |-> i, row |-> [text |-> editing.text, order |-> editing.order]]
<1>1. editing \in Form /\ editing # Closed /\ editing.text # Nobody BY DEF ListInv, PanelTyped, SubmitEditor
<1>2. request \in SaveCall BY <1>1 DEF Form, SaveCall, Row
<1>3. Sends("save", request) /\ call["save"] = Idle BY DEF SubmitEditor, InFlight
<1> HIDE DEF request
<1>4. CallsTyped' /\ call'["save"] = request BY <1>2, <1>3, Sending DEF ListInv, PanelTyped, TheCalls, CallOf
<1>5. UNCHANGED <<stored, shown, loaded, editing, pendingEditor, deleteTarget>> BY DEF SubmitEditor, editorVars
<1>6. apart' \in BOOLEAN BY <1>3 DEF Sends
<1>7. PanelTyped' BY <1>4, <1>5, <1>6 DEF ListInv, PanelTyped
<1>8. /\ LoadsAlone' /\ OneAtATime'
      /\ ~apart' => ~apart /\ Quiet /\ ~Quiet' /\ \A j \in TheCalls \ {"save"} : call'[j] = Idle
  BY <1>2, <1>3, <1>5, SentBeside DEF TheCalls, CallOf
<1>9. ~apart' /\ loaded' => Explains("save")' BY <1>5, <1>8, <1>4 DEF ListInv, Explained, request, Explains
<1>10. Explained' BY <1>4, <1>8, <1>9, ExplainedNext
<1>11. QED BY <1>7, <1>8, <1>10 DEF ListInv

LEMMA RemovalKeepsList == ASSUME ListInv, Removal PROVE ListInv'
<1> DEFINE request == [at |-> "out", id |-> deleteTarget, closes |-> ClosesOnDelete(editing, deleteTarget)]
<1>1. deleteTarget \in PanelIds BY DEF ListInv, PanelTyped, Removal
<1>2. request \in RemoveCall BY <1>1 DEF RemoveCall, ClosesOnDelete
<1>3. Sends("remove", request) /\ call["remove"] = Idle BY DEF Removal, InFlight
<1> HIDE DEF request
<1>4. CallsTyped' /\ call'["remove"] = request BY <1>2, <1>3, Sending DEF ListInv, PanelTyped, TheCalls, CallOf
<1>5. UNCHANGED <<stored, shown, loaded, editing, pendingEditor, deleteTarget>> BY DEF Removal, editorVars
<1>6. apart' \in BOOLEAN BY <1>3 DEF Sends
<1>7. PanelTyped' BY <1>4, <1>5, <1>6 DEF ListInv, PanelTyped
<1>8. /\ LoadsAlone' /\ OneAtATime'
      /\ ~apart' => ~apart /\ Quiet /\ ~Quiet' /\ \A j \in TheCalls \ {"remove"} : call'[j] = Idle
  BY <1>2, <1>3, <1>5, SentBeside DEF TheCalls, CallOf
<1>9. ~apart' /\ loaded' => Explains("remove")' BY <1>5, <1>8, <1>4 DEF ListInv, Explained, request, Explains
<1>10. Explained' BY <1>4, <1>8, <1>9, ExplainedNext
<1>11. QED BY <1>7, <1>8, <1>10 DEF ListInv

LEMMA MoveKeepsList ==
    ASSUME ListInv, NEW from \in Nat, NEW to \in Nat, Move(from, to) PROVE ListInv'
<1> DEFINE after == Reordered(shown, from, to)
           changed == ChangedRows(shown, after)
           request == [at |-> "out", todo |-> changed, was |-> shown, got |-> <<>>]
<1>1. shown \in Rows /\ stored \in Rows BY DEF ListInv, PanelTyped
<1>2. from \in 1..Cardinality(DOMAIN shown) /\ to \in 1..Cardinality(DOMAIN shown) BY DEF Move
<1>3. /\ after \in Rows /\ DOMAIN after = DOMAIN shown
      /\ \A i \in DOMAIN shown : after[i].order = shown[i].order => after[i] = shown[i]
  BY <1>1, <1>2, MoveReorders
<1>4. changed # <<>> /\ shown' = after /\ Sends("order", request) /\ call["order"] = Idle
      /\ UNCHANGED <<stored, loaded, editing, pendingEditor, deleteTarget>>
  BY DEF Move, InFlight, editorVars
<1> HIDE DEF after
<1>5. /\ changed \in Seq(Sent)
      /\ \A k \in 1..Len(changed) : changed[k].id \in DOMAIN after /\ changed[k].row = after[changed[k].id]
      /\ \A i \in DOMAIN after : shown[i].order # after[i].order => \E k \in 1..Len(changed) : changed[k].id = i
  BY <1>3, <1>1, ChangesAreSent
<1> HIDE DEF changed
<1>6. request \in OrderCall BY <1>1, <1>4, <1>5, NoRows DEF OrderCall
<1>7. request.at = "out" /\ request.todo = changed OBVIOUS
<1> HIDE DEF request
<1>8. CallsTyped' /\ call'["order"] = request BY <1>4, <1>6, Sending DEF ListInv, PanelTyped, TheCalls, CallOf
<1>9. apart' \in BOOLEAN BY <1>4 DEF Sends
<1>10. PanelTyped' BY <1>3, <1>4, <1>8, <1>9 DEF ListInv, PanelTyped
<1>11. /\ LoadsAlone' /\ OneAtATime'
       /\ ~apart' => ~apart /\ Quiet /\ ~Quiet' /\ \A j \in TheCalls \ {"order"} : call'[j] = Idle
  BY <1>4, <1>6, SentBeside DEF TheCalls, CallOf
<1>12. ~apart' /\ loaded' => Explains("order")'
  BY <1>4, <1>11, <1>3, <1>5, <1>7, <1>8 DEF ListInv, Explained, Owed, Explains
<1>13. Explained' BY <1>8, <1>11, <1>12, ExplainedNext
<1>14. QED BY <1>10, <1>11, <1>13 DEF ListInv

LEMMA LoadSent ==
    ASSUME ListInv, NEW request \in LoadCall, Sends("load", request), call["load"] = Idle, request.alone = Quiet,
           \/ request.at = "out" /\ request.id = Nobody
           \/ request.at = "import" /\ request.id # Nobody /\ request.row \in Row,
           UNCHANGED <<stored, shown, loaded, editing, pendingEditor, deleteTarget>>
    PROVE  ListInv'
<1>1. /\ CallsTyped' /\ call'["load"] = request /\ \A j \in TheCalls \ {"load"} : call'[j] = call[j]
      /\ apart' = (apart \/ ~Quiet)
  BY Sending DEF ListInv, PanelTyped, TheCalls, CallOf
<1>2. PanelTyped' BY <1>1 DEF ListInv, PanelTyped
<1>3. request # Idle BY Underway
<1>4. Quiet => Lone("load")' BY <1>1, QuietIs DEF Lone, ListInv, PanelTyped
<1>5. LoadsAlone' BY <1>1, <1>4 DEF LoadsAlone
<1>6. ~apart' => ~apart /\ Quiet BY <1>1
<1>7. ~apart' => \A j \in TheCalls \ {"load"} : call'[j] = Idle BY <1>4, <1>6 DEF Lone
<1>8. OneAtATime' BY <1>1, <1>3, <1>4, <1>6, <1>7 DEF OneAtATime
<1>9. ~Quiet' BY <1>1, <1>3 DEF Quiet, InFlight, CallsTyped, TheCalls
<1>10. Explained' BY <1>1, <1>7, <1>9, ExplainedNext, <1>6 DEF ListInv, Explained, Explains
<1>11. QED BY <1>2, <1>5, <1>8, <1>10 DEF ListInv

LEMMA LoadingKeepsList ==
    ASSUME ListInv, Reload \/ \E i \in PanelIds, text \in Texts : Import(i, text) PROVE ListInv'
<1>1. ASSUME Reload PROVE ListInv'
  BY NoRows, <1>1, LoadSent DEF Load, LoadCall, Quiet, Reload, InFlight, editorVars
<1>2. ASSUME NEW i \in PanelIds, NEW text \in Texts, Import(i, text) PROVE ListInv'
  <2> DEFINE item == [text |-> text, order |-> 1]
             request == Load("import", i, item)
  <2>1. item \in Row BY DEF Row
  <2> HIDE DEF item
  <2>2. request \in LoadCall /\ request.at = "import" /\ request.id = i /\ request.row = item /\ request.alone = Quiet
    BY <2>1, NoRows DEF Load, LoadCall, Quiet
  <2>3. i # Nobody BY PanelAssumption
  <2> HIDE DEF request
  <2>4. Sends("load", request) /\ call["load"] = Idle
        /\ UNCHANGED <<stored, shown, loaded, editing, pendingEditor, deleteTarget>>
    BY <1>2 DEF Import, InFlight, request, item, editorVars
  <2>5. QED BY <2>1, <2>2, <2>3, <2>4, LoadSent
<1>3. QED BY <1>1, <1>2

\* What came back leaves one call fewer.
LEMMA OneIsBack ==
    ASSUME ListInv, NEW k \in TheCalls, Returns(k), call[k] # Idle, stored' = stored
    PROVE  /\ CallsTyped' /\ call'[k] = Idle /\ \A j \in TheCalls \ {k} : call'[j] = call[j]
           /\ LoadsAlone' /\ (apart' = apart => OneAtATime')
           /\ ~apart => Quiet'
<1>1. CallsTyped' /\ call'[k] = Idle /\ \A j \in TheCalls \ {k} : call'[j] = call[j]
  BY OneMoves DEF Returns, ListInv, PanelTyped
<1>2. LoadsAlone' BY <1>1 DEF ListInv, LoadsAlone, Lone, TheCalls
<1>3. apart' = apart => OneAtATime' BY <1>1 DEF ListInv, OneAtATime, Lone
<1>4. ~apart => Quiet' BY <1>1 DEF ListInv, OneAtATime, Lone, Quiet, InFlight, CallsTyped
<1>5. QED BY <1>1, <1>2, <1>3, <1>4

LEMMA LandingKeepsList ==
    ASSUME ListInv, NEW k \in TheCalls, InFlight(k), Land(k) PROVE ListInv'
<1>1. CallsTyped /\ stored \in Rows /\ shown \in Rows /\ call[k] \in CallOf(k) /\ call[k] # Idle
  BY CallsAre DEF ListInv, PanelTyped, InFlight
<1>2. UNCHANGED <<shown, loaded, editing, pendingEditor, deleteTarget>> BY DEF Land, editorVars
<1>3. call[k].at = (IF k = "load" THEN "import" ELSE "out") BY DEF Land
<1>4. k = "load" => call[k].id \in PanelIds /\ call[k].row \in Row
  BY <1>1, <1>3 DEF ListInv, LoadsAlone, CallOf, LoadCall
<1>5. k = "order" => /\ call[k].todo \in Seq(Sent) /\ call[k].todo # <<>> /\ Head(call[k].todo) = call[k].todo[1]
                     /\ 1 \in 1..Len(call[k].todo) /\ call[k].todo[1] \in Sent
  BY <1>1 DEF CallOf, OrderCall
<1>6. Effect(k) \in Rows
  BY <1>1, RowsChange, <1>5, <1>4 DEF Effect, CallOf, SaveCall, RemoveCall, Sent, TheCalls
<1>7. \E at \in {"done", "refused"} :
        /\ call' = [call EXCEPT ![k] = [call[k] EXCEPT !.at = at]]
        /\ at = "done" => stored' = Effect(k) /\ apart' = apart
        /\ at = "refused" => stored' \in {stored, Effect(k)} /\ apart' = (apart \/ (k # "order" /\ stored' # stored))
  BY DEF Land
<1>8. PICK at \in {"done", "refused"} :
        /\ call' = [call EXCEPT ![k] = [call[k] EXCEPT !.at = at]]
        /\ at = "done" => stored' = Effect(k) /\ apart' = apart
        /\ at = "refused" => stored' \in {stored, Effect(k)} /\ apart' = (apart \/ (k # "order" /\ stored' # stored))
  BY <1>7
<1> DEFINE c == [call[k] EXCEPT !.at = at]
<1>9. c \in CallOf(k) BY <1>1 DEF CallOf, SaveCall, RemoveCall, OrderCall, LoadCall, TheCalls
<1>10. c.at = at /\ (k \in {"save", "load"} => c.id = call[k].id /\ c.row = call[k].row)
       /\ (k = "remove" => c.id = call[k].id) /\ (k = "order" => c.todo = call[k].todo)
       /\ (k = "load" => c.alone = call[k].alone)
  BY <1>1 DEF CallOf, SaveCall, RemoveCall, OrderCall, LoadCall
<1> HIDE DEF c
<1>11. CallsTyped' /\ call'[k] = c /\ \A j \in TheCalls \ {k} : call'[j] = call[j]
  BY <1>1, <1>8, <1>9, OneMoves DEF c
<1>12. c # Idle BY <1>9, Underway DEF CallOf, TheCalls
<1>13. PanelTyped' BY <1>8, <1>1, <1>6, <1>2, <1>11 DEF ListInv, PanelTyped
<1>14. LoadsAlone'
  <2>1. CASE k = "load" BY <1>1, <1>11, <2>1, <1>4, <1>10, PanelAssumption DEF ListInv, LoadsAlone, Lone
  <2>2. CASE k # "load" BY <1>11, <2>2, <1>1 DEF TheCalls, ListInv, LoadsAlone, Lone
  <2>3. QED BY <2>1, <2>2
<1>15. ~apart' => ~apart /\ (k # "order" /\ at = "refused" => stored' = stored) BY <1>8
<1>16. OneAtATime' BY <1>1, <1>10, <1>11, <1>15 DEF ListInv, OneAtATime, Lone
<1>17. ~apart' /\ loaded' => Explains(k)'
  <2> SUFFICES ASSUME ~apart', loaded' PROVE Explains(k)' OBVIOUS
  <2>1. ~apart /\ loaded BY <1>2, <1>15
  <2>2. CASE k = "save"
    <3>1. shown = stored BY <1>1, <1>3, <2>1, <2>2 DEF ListInv, Explained
    <3>2. at = "done" => stored' = Upsert(shown, c.id, c.row) BY <1>8, <1>10, <2>2, <3>1 DEF Effect
    <3>3. QED BY <1>2, <1>10, <1>11, <1>15, <2>2, <3>1, <3>2 DEF Explains
  <2>3. CASE k = "remove"
    <3>1. shown = stored BY <1>1, <1>3, <2>1, <2>3 DEF ListInv, Explained
    <3>2. at = "done" => stored' = Without(shown, c.id) BY <1>8, <1>10, <2>3, <3>1 DEF Effect
    <3>3. QED BY <1>2, <1>10, <1>11, <1>15, <2>3, <3>1, <3>2 DEF Explains
  <2>4. CASE k = "order"
    <3>1. Owed(call["order"].todo, 1) BY <1>1, <1>3, <2>1, <2>4 DEF ListInv, Explained
    <3>2. call'["order"].at = at /\ call'["order"].todo = call["order"].todo BY <1>10, <1>11, <2>4
    <3>3. ASSUME at = "done" PROVE Owed(call["order"].todo, 2)'
      <4> DEFINE todo == call["order"].todo
      <4>1. stored' = Upsert(stored, todo[1].id, todo[1].row) BY <1>5, <1>8, <2>4, <3>3 DEF Effect
      <4>2. DOMAIN stored = DOMAIN shown /\ todo[1].id \in DOMAIN shown /\ todo[1].row = shown[todo[1].id]
        BY <1>5, <2>4, <3>1 DEF Owed
      <4>3. DOMAIN stored' = DOMAIN shown BY <4>1, <4>2 DEF Upsert
      <4>4. stored'[todo[1].id] = shown[todo[1].id] /\ \A i \in DOMAIN stored \ {todo[1].id} : stored'[i] = stored[i]
        BY <4>1, <4>2 DEF Upsert
      <4>5. Len(todo) \in Nat BY <1>5, <2>4
      <4>6. \A i \in DOMAIN shown : stored'[i] = shown[i] \/ \E m \in 2..Len(todo) : todo[m].id = i
        BY <4>2, <4>4, <3>1, <4>5 DEF Owed
      <4>7. QED BY <1>2, <3>1, <3>2, <4>3, <4>6 DEF Owed
    <3>4. QED BY <1>8, <2>4, <3>2, <3>3 DEF Explains
  <2>5. CASE k = "load"
    <3>1. shown = stored BY <1>1, <1>3, <2>1, <2>5 DEF ListInv, Explained
    <3>2. c.id # Nobody BY <1>4, <1>10, <2>5, PanelAssumption
    <3>3. QED BY <1>2, <1>8, <1>10, <1>11, <1>15, <2>5, <3>1, <3>2 DEF Explains
  <2>6. QED BY <2>2, <2>3, <2>4, <2>5 DEF TheCalls
<1>18. Explained'
  <2> SUFFICES ASSUME ~apart', loaded' PROVE ~Quiet' /\ \A j \in TheCalls : call'[j] # Idle => Explains(j)'
    BY <1>11, ExplainedNext
  <2>1. ~Quiet' BY <1>11, <1>12 DEF Quiet, InFlight, CallsTyped
  <2>2. \A j \in TheCalls \ {k} : call'[j] = Idle BY <1>1, <1>11, <1>15 DEF ListInv, OneAtATime, Lone
  <2>3. QED BY <1>17, <2>1, <2>2
<1>19. QED BY <1>13, <1>14, <1>16, <1>18 DEF ListInv

LEMMA ReadingKeepsList ==
    ASSUME ListInv, NEW k \in {"order", "load"}, InFlight(k), ReadStore(k) PROVE ListInv'
<1>1. CallsTyped /\ stored \in Rows /\ shown \in Rows /\ call[k] \in CallOf(k) /\ call[k] # Idle
  BY CallsAre DEF ListInv, PanelTyped, InFlight, TheCalls
<1>2. UNCHANGED <<stored, shown, loaded, editing, pendingEditor, deleteTarget, apart>> BY DEF ReadStore, editorVars
<1>3. call[k].at = Reading(k) BY DEF ReadStore
<1>4. \/ call' = [call EXCEPT ![k] = [call[k] EXCEPT !.at = "read", !.got = stored]]
      \/ call' = [call EXCEPT ![k] = [call[k] EXCEPT !.at = "unread"]]
  BY <1>1 DEF ReadStore, CallsTyped, TheCalls, CallOf, OrderCall, LoadCall
<1>5. PICK c \in {[call[k] EXCEPT !.at = "read", !.got = stored], [call[k] EXCEPT !.at = "unread"]} :
         call' = [call EXCEPT ![k] = c]
  BY <1>4
<1>6. c \in CallOf(k) BY <1>1 DEF CallOf, OrderCall, LoadCall
<1>7. c.at \in {"read", "unread"} /\ (c.at = "read" => c.got = stored) /\ (k = "load" => c.id = call[k].id /\ c.alone = call[k].alone)
  BY <1>1 DEF CallOf, OrderCall, LoadCall
<1>8. CallsTyped' /\ call'[k] = c /\ \A j \in TheCalls \ {k} : call'[j] = call[j]
  BY <1>1, <1>5, <1>6, OneMoves DEF TheCalls
<1>9. c # Idle BY <1>6, Underway DEF CallOf, TheCalls
<1>10. PanelTyped' BY <1>2, <1>8 DEF ListInv, PanelTyped
<1>11. LoadsAlone'
  <2>1. CASE k = "load" BY <1>1, <1>8, <2>1, <1>2, <1>7 DEF ListInv, LoadsAlone, Lone
  <2>2. CASE k = "order" BY <1>8, <2>2, <1>1 DEF TheCalls, ListInv, LoadsAlone, Lone
  <2>3. QED BY <2>1, <2>2
<1>12. OneAtATime' BY <1>1, <1>2, <1>7, <1>8 DEF ListInv, OneAtATime, Lone
<1>13. Explained'
  <2> SUFFICES ASSUME ~apart', loaded' PROVE ~Quiet' /\ \A j \in TheCalls : call'[j] # Idle => Explains(j)'
    BY <1>8, ExplainedNext
  <2>1. ~Quiet' BY <1>8, <1>9 DEF Quiet, InFlight, CallsTyped, TheCalls
  <2>2. \A j \in TheCalls \ {k} : call'[j] = Idle BY <1>1, <1>2, <1>8 DEF ListInv, OneAtATime, Lone, TheCalls
  <2>3. k = "load" => (c.id = Nobody => shown = stored) BY <1>1, <1>2, <1>7 DEF ListInv, Explained
  <2>4. Explains(k)' BY <1>2, <1>7, <1>8, <2>3 DEF Explains
  <2>5. QED BY <2>1, <2>2, <2>4
<1>14. QED BY <1>10, <1>11, <1>12, <1>13 DEF ListInv

LEMMA ImportReplyKeepsList == ASSUME ListInv, ImportReply PROVE ListInv'
<1>1. CallsTyped /\ call["load"] \in LoadCall /\ call["load"] # Idle /\ call["load"].id # Nobody
      /\ call["load"].at \in {"done", "refused"}
  BY DEF ListInv, PanelTyped, CallsTyped, ImportReply, InFlight
<1>2. UNCHANGED <<stored, shown, loaded, editing, pendingEditor, deleteTarget, apart>> BY DEF ImportReply, editorVars
<1>3. CASE call["load"].at = "refused"
  <2>1. Returns("load") BY <1>3 DEF ImportReply
  <2>2. CallsTyped' /\ LoadsAlone' /\ OneAtATime' /\ (~apart => Quiet') BY <1>1, <1>2, <2>1, OneIsBack DEF TheCalls
  <2>3. PanelTyped' BY <1>2, <2>2 DEF ListInv, PanelTyped
  <2>4. ~apart /\ loaded => shown = stored BY <1>1, <1>3 DEF ListInv, Explained
  <2>5. Explained' BY <1>2, <2>2, <2>4, ExplainedNext DEF Quiet, InFlight, CallsTyped
  <2>6. QED BY <2>2, <2>3, <2>5 DEF ListInv
<1>4. CASE call["load"].at = "done"
  <2> DEFINE c == [call["load"] EXCEPT !.at = "out"]
  <2>1. call' = [call EXCEPT !["load"] = c] BY <1>4 DEF ImportReply
  <2>2. c \in LoadCall /\ c.at = "out" /\ c.id = call["load"].id /\ c.alone = call["load"].alone BY <1>1 DEF LoadCall
  <2> HIDE DEF c
  <2>3. CallsTyped' /\ call'["load"] = c /\ \A j \in TheCalls \ {"load"} : call'[j] = call[j]
    BY <1>1, <2>1, <2>2, OneMoves DEF CallOf, TheCalls
  <2>4. PanelTyped' BY <1>2, <2>3 DEF ListInv, PanelTyped
  <2>5. call["load"].alone => Lone("load")' BY <1>1, <2>3 DEF ListInv, LoadsAlone, Lone
  <2>6. LoadsAlone' BY <2>2, <2>3, <2>5 DEF LoadsAlone
  <2>7. OneAtATime' BY <1>1, <1>2, <2>2, <2>3 DEF ListInv, OneAtATime, Lone
  <2>8. c # Idle BY <2>2, Underway
  <2>9. ~Quiet' BY <2>3, <2>8 DEF Quiet, InFlight, CallsTyped, TheCalls
  <2>10. ~apart => \A j \in TheCalls \ {"load"} : call'[j] = Idle BY <1>1, <2>3 DEF ListInv, OneAtATime, Lone, TheCalls
  <2>11. Explains("load")' BY <1>1, <2>2, <2>3 DEF Explains
  <2>12. Explained' BY <1>2, <2>3, <2>9, <2>10, <2>11, ExplainedNext
  <2>13. QED BY <2>4, <2>6, <2>7, <2>12 DEF ListInv
<1>5. QED BY <1>1, <1>3, <1>4

\* A reply that ends its request, and what is shown then.
LEMMA EndKeepsList ==
    ASSUME ListInv, NEW k \in TheCalls, Returns(k), call[k] # Idle,
           stored' = stored, shown' \in Rows, loaded' \in BOOLEAN, apart' \in BOOLEAN,
           editing' \in Form, pendingEditor' \in Form, deleteTarget' \in PanelIds \union {Nobody},
           ~apart' => ~apart \/ (k = "load" /\ call["load"].alone),
           ~apart' /\ loaded' => shown' = stored
    PROVE  ListInv'
BY OneIsBack, ExplainedNext DEF ListInv, PanelTyped, OneAtATime, LoadsAlone, Lone

LEMMA ReplyKeepsList ==
    ASSUME ListInv, ApplyLoad \/ OrderFailed \/ SaveReply \/ RemoveReply PROVE ListInv'
<1>1. /\ stored \in Rows /\ shown \in Rows /\ apart \in BOOLEAN /\ loaded \in BOOLEAN /\ Closed \in Form
      /\ editing \in Form /\ pendingEditor \in Form /\ deleteTarget \in PanelIds \union {Nobody}
      /\ CallsTyped
  BY DEF ListInv, PanelTyped, Form
<1>2. ASSUME ApplyLoad PROVE ListInv'
  <2>1. call["load"] # Idle /\ call["load"] \in LoadCall BY <1>1, <1>2 DEF ApplyLoad, CallsTyped, Idle
  <2>2. Returns("load") /\ UNCHANGED <<stored, editing, pendingEditor, deleteTarget>> BY <1>2 DEF ApplyLoad, editorVars
  <2>3. CASE call["load"].at = "read"
    <3>1. shown' = call["load"].got /\ loaded' = TRUE /\ apart' = (apart /\ ~call["load"].alone)
      BY <1>2, <2>3 DEF ApplyLoad
    <3>2. shown' \in Rows /\ call["load"].alone \in BOOLEAN BY <2>1, <3>1 DEF LoadCall
    <3>3. ~apart' => call["load"].alone
      BY <1>1, <2>1, <3>1, <3>2 DEF ListInv, OneAtATime, TheCalls
    <3>4. ~apart' => shown' = stored BY <2>1, <2>3, <3>1, <3>3 DEF ListInv, LoadsAlone
    <3>5. QED BY <1>1, <2>1, <2>2, <3>1, <3>2, <3>3, <3>4, EndKeepsList DEF TheCalls
  <2>4. CASE call["load"].at = "unread"
    BY <1>2, <2>4, <2>1, <1>1, <2>2, EndKeepsList DEF ApplyLoad, ListInv, Explained, TheCalls
  <2>5. QED BY <1>2, <2>3, <2>4 DEF ApplyLoad
<1>3. ASSUME OrderFailed PROVE ListInv'
  <2>1. call["order"] # Idle /\ call["order"] \in OrderCall BY <1>1, <1>3 DEF OrderFailed, InFlight, CallsTyped
  <2>2. Returns("order") /\ UNCHANGED <<stored, loaded, editing, pendingEditor, deleteTarget>>
        /\ shown' = AfterFailure(call["order"]) /\ apart' = (apart \/ call["order"].at = "unread")
        /\ call["order"].at \in {"read", "unread"}
    BY <1>3 DEF OrderFailed, editorVars
  <2>3. shown' \in Rows BY <2>1, <2>2 DEF AfterFailure, OrderCall
  <2>4. ~apart' => ~apart /\ call["order"].at = "read" BY <2>2
  <2>5. ~apart' /\ loaded' => shown' = stored BY <2>1, <2>2, <2>4 DEF ListInv, Explained, AfterFailure
  <2>6. apart' \in BOOLEAN BY <1>1, <2>2
  <2>7. QED BY <1>1, <2>1, <2>2, <2>3, <2>4, <2>5, <2>6, EndKeepsList DEF TheCalls
<1>4. ASSUME SaveReply PROVE ListInv'
  <2>1. call["save"] # Idle /\ call["save"] \in SaveCall BY <1>1, <1>4 DEF SaveReply, InFlight, CallsTyped
  <2>2. Returns("save") /\ UNCHANGED <<stored, loaded, pendingEditor, deleteTarget, apart>> /\ editing' \in {editing, Closed}
    BY <1>4 DEF SaveReply
  <2>3. shown' = IF call["save"].at = "done" THEN Upsert(shown, call["save"].id, call["save"].row) ELSE shown
    BY <1>4 DEF SaveReply
  <2>4. shown' \in Rows BY <1>1, <2>1, <2>3, RowsChange DEF SaveCall
  <2>5. ~apart' /\ loaded' => shown' = stored BY <2>1, <2>2, <2>3 DEF ListInv, Explained
  <2>6. QED BY <1>1, <2>1, <2>2, <2>4, <2>5, EndKeepsList DEF TheCalls
<1>5. ASSUME RemoveReply PROVE ListInv'
  <2>1. call["remove"] # Idle /\ call["remove"] \in RemoveCall BY <1>1, <1>5 DEF RemoveReply, InFlight, CallsTyped
  <2>2. Returns("remove") /\ UNCHANGED <<stored, loaded, pendingEditor, apart>> /\ editing' \in {editing, Closed}
        /\ deleteTarget' \in {deleteTarget, Nobody}
    BY <1>5 DEF RemoveReply
  <2>3. shown' = IF call["remove"].at = "done" THEN Without(shown, call["remove"].id) ELSE shown
    BY <1>5 DEF RemoveReply
  <2>4. shown' \in Rows BY <1>1, <2>1, <2>3, RowsChange DEF RemoveCall
  <2>5. ~apart' /\ loaded' => shown' = stored BY <2>1, <2>2, <2>3 DEF ListInv, Explained
  <2>6. QED BY <1>1, <2>1, <2>2, <2>4, <2>5, EndKeepsList DEF TheCalls
<1>6. QED BY <1>2, <1>3, <1>4, <1>5

LEMMA OrderReplyKeepsList == ASSUME ListInv, OrderReply PROVE ListInv'
<1> DEFINE order == call["order"]
           todo == order.todo
<1>1. CallsTyped /\ order \in OrderCall /\ order # Idle /\ order.at \in {"done", "refused"}
      /\ stored \in Rows /\ shown \in Rows /\ apart \in BOOLEAN /\ loaded \in BOOLEAN
  BY DEF ListInv, PanelTyped, CallsTyped, OrderReply, InFlight
<1>2. UNCHANGED <<stored, shown, loaded, editing, pendingEditor, deleteTarget, apart>> BY DEF OrderReply, editorVars
<1>3. todo \in Seq(Sent) /\ todo # <<>> /\ Len(todo) \in Nat BY <1>1 DEF OrderCall
<1>4. ASSUME NEW c \in OrderCall, call' = [call EXCEPT !["order"] = c], c.at \in {"out", "reread"},
             ~apart /\ loaded /\ c.at = "out" => Owed(c.todo, 1)
      PROVE  ListInv'
  <2>1. CallsTyped' /\ call'["order"] = c /\ \A j \in TheCalls \ {"order"} : call'[j] = call[j]
    BY <1>1, <1>4, OneMoves DEF CallOf, TheCalls
  <2>2. PanelTyped' BY <1>2, <2>1 DEF ListInv, PanelTyped
  <2>3. call'["load"] = call["load"] BY <2>1 DEF TheCalls
  <2>4. call["load"] # Idle => ~call["load"].alone BY <1>1 DEF ListInv, LoadsAlone, Lone, TheCalls
  <2>5. LoadsAlone' BY <2>3, <2>4 DEF ListInv, LoadsAlone
  <2>6. OneAtATime' BY <1>1, <1>2, <2>1 DEF ListInv, OneAtATime, Lone, TheCalls
  <2>7. c # Idle BY <1>4, Underway
  <2>8. ~Quiet' BY <2>1, <2>7 DEF Quiet, InFlight, CallsTyped, TheCalls
  <2>9. ~apart => \A j \in TheCalls \ {"order"} : call'[j] = Idle BY <1>1, <2>1 DEF ListInv, OneAtATime, Lone, TheCalls
  <2>10. ~apart' /\ loaded' => Explains("order")' BY <1>2, <1>4, <2>1 DEF Owed, Explains
  <2>11. Explained' BY <1>2, <2>1, <2>8, <2>9, <2>10, ExplainedNext
  <2>12. QED BY <2>2, <2>5, <2>6, <2>11 DEF ListInv
<1>5. CASE order.at = "refused" BY <1>5, <1>1, <1>4 DEF OrderReply, OrderCall
<1>6. CASE order.at = "done" /\ Len(todo) > 1
  <2> DEFINE c == [order EXCEPT !.at = "out", !.todo = Tail(todo)]
  <2>1. call' = [call EXCEPT !["order"] = c] BY <1>1, <1>6 DEF OrderReply, OrderCall, CallsTyped, TheCalls
  <2>2. Tail(todo) \in Seq(Sent) /\ Len(Tail(todo)) = Len(todo) - 1
        /\ \A m \in 1..Len(todo) - 1 : Tail(todo)[m] = todo[m + 1]
    BY <1>3
  <2>3. Tail(todo) # <<>> BY <1>3, <1>6, <2>2
  <2>4. c \in OrderCall /\ c.at = "out" /\ c.todo = Tail(todo) BY <1>1, <2>2, <2>3 DEF OrderCall
  <2>5. ASSUME ~apart, loaded PROVE Owed(Tail(todo), 1)
    <3>1. Owed(todo, 2) BY <1>1, <1>6, <2>5 DEF ListInv, Explained
    <3> DEFINE rest == Tail(todo)
    <3> HIDE DEF todo, rest
    <3>2. Len(rest) = Len(todo) - 1 /\ \A m \in 1..Len(todo) - 1 : rest[m] = todo[m + 1] BY <2>2 DEF rest
    <3>3. \A m \in 1..Len(rest) : m + 1 \in 1..Len(todo) /\ rest[m] = todo[m + 1] BY <1>3, <3>2
    <3>4. \A m \in 2..Len(todo) : m - 1 \in 1..Len(rest) /\ m - 1 + 1 = m BY <1>3, <3>2
    <3>5. \A m \in 2..Len(todo) : m - 1 \in 1..Len(rest) /\ rest[m - 1] = todo[m] BY <3>3, <3>4
    <3>6. Owed(rest, 1)
      <4>1. DOMAIN stored = DOMAIN shown BY <3>1 DEF Owed
      <4>2. \A m \in 1..Len(rest) : rest[m].id \in DOMAIN shown /\ rest[m].row = shown[rest[m].id]
        BY <3>1, <3>3 DEF Owed
      <4>3. ASSUME NEW i \in DOMAIN shown PROVE stored[i] = shown[i] \/ \E m \in 1..Len(rest) : rest[m].id = i
        BY <3>1, <3>5 DEF Owed
      <4>4. QED BY <4>1, <4>2, <4>3 DEF Owed
    <3>7. QED BY <3>6 DEF rest
  <2> HIDE DEF c
  <2>6. QED BY <1>4, <2>1, <2>4, <2>5
<1>7. CASE order.at = "done" /\ ~(Len(todo) > 1)
  <2>1. Returns("order") BY <1>7 DEF OrderReply, Returns
  <2>2. ASSUME ~apart', loaded' PROVE shown' = stored'
    BY <1>1, <1>2, <1>7, <2>2, <1>3, RowsAre DEF ListInv, Explained, Owed, AreRows
  <2>3. QED BY <1>1, <1>2, <2>1, <2>2, EndKeepsList DEF TheCalls, ListInv, PanelTyped
<1>8. QED BY <1>1, <1>5, <1>6, <1>7

LEMMA OthersKeepList == ASSUME ListInv, OtherWrites PROVE ListInv'
<1>1. /\ call' = Beside("save") /\ apart' = TRUE /\ UNCHANGED <<shown, loaded, editing, pendingEditor, deleteTarget>>
  BY DEF OtherWrites, editorVars
<1>2. stored' \in Rows
  <2>1. stored \in Rows BY DEF ListInv, PanelTyped
  <2>2. PICK i \in DOMAIN stored :
          \/ \E text \in Texts \ {stored[i].text} : stored' = Upsert(stored, i, [stored[i] EXCEPT !.text = text])
          \/ stored' = Without(stored, i)
    BY DEF OtherWrites
  <2>3. i \in PanelIds /\ stored[i] \in Row BY <2>1, RowsAre DEF AreRows
  <2>4. \A text \in Texts : [stored[i] EXCEPT !.text = text] \in Row BY <2>3 DEF Row
  <2>5. QED BY <2>1, <2>2, <2>3, <2>4, RowsChange
<1>3. /\ Beside("save") = [j \in TheCalls |-> Beside("save")[j]]
      /\ \A j \in TheCalls : Beside("save")[j] = IF j # "save" /\ j = "load" THEN Demoted(call[j]) ELSE call[j]
      /\ \A j \in TheCalls : Beside("save")[j] \in CallOf(j) \union {Idle}
  BY BesideIs DEF ListInv, PanelTyped, TheCalls
<1>4. CallsTyped' BY <1>1, <1>3 DEF CallsTyped, TheCalls, CallOf
<1>5. PanelTyped' BY <1>1, <1>2, <1>4 DEF ListInv, PanelTyped
<1>6. call'["load"] = Demoted(call["load"]) BY <1>1, <1>3 DEF TheCalls
<1>7. LoadsAlone' BY <1>6 DEF LoadsAlone, Demoted, ListInv, PanelTyped, CallsTyped, LoadCall
<1>8. OneAtATime' /\ Explained' BY <1>1 DEF OneAtATime, Explained
<1>9. QED BY <1>5, <1>7, <1>8 DEF ListInv

LEMMA ListKept == ListInv /\ [PanelNext]_panelVars => ListInv'
<1> SUFFICES ASSUME ListInv, [PanelNext]_panelVars PROVE ListInv' OBVIOUS
<1>1. CASE \E k \in TheCalls : InFlight(k) /\ Land(k) BY <1>1, LandingKeepsList
<1>2. CASE \E k \in {"order", "load"} : InFlight(k) /\ ReadStore(k) BY <1>2, ReadingKeepsList
<1>3. CASE ApplyLoad \/ OrderFailed \/ SaveReply \/ RemoveReply BY <1>3, ReplyKeepsList
<1>4. CASE Reload \/ \E i \in PanelIds, text \in Texts : Import(i, text) BY <1>4, LoadingKeepsList
<1>5. CASE ImportReply BY <1>5, ImportReplyKeepsList
<1>6. CASE OrderReply BY <1>6, OrderReplyKeepsList
<1>7. CASE \E from, to \in 1..Len(IdOrder) : Move(from, to) BY <1>7, MoveKeepsList
<1>8. CASE \E i \in PanelIds : SubmitEditor(i) BY <1>8, SubmitKeepsList
<1>9. CASE \/ \E i \in PanelIds : Edit(i) \/ RequestDelete(i)
           \/ Add \/ \E text \in Texts : Type(text)
           \/ ConfirmDraftSwitch \/ CancelDraftSwitch \/ CancelEditor \/ CancelDelete
  BY <1>9, EditingKeepsList
<1>10. CASE Removal BY <1>10, RemovalKeepsList
<1>11. CASE OtherWrites BY <1>11, OthersKeepList
<1>12. CASE UNCHANGED panelVars BY <1>12, ListStands DEF panelVars, ListInv, PanelTyped
<1>13. QED BY <1>1, <1>2, <1>3, <1>4, <1>5, <1>6, <1>7, <1>8, <1>9, <1>10, <1>11, <1>12 DEF PanelNext, TheCalls

\* However its requests are refused, half done or interrupted, a quiet panel shows what is
\* stored, unless another organizer wrote, two requests overlapped, or a reply or the second
\* read was lost (use-admin-resource.ts).
THEOREM PanelShowsStore == PanelSpec => []PanelInv
<1>1. ListInv => PanelInv
  <2> SUFFICES ASSUME ListInv PROVE PanelInv OBVIOUS
  <2>1. AreRows(shown) /\ AreRows(stored) BY RowsAre DEF ListInv, PanelTyped
  <2>2. PanelTypeOK BY <2>1 DEF PanelTypeOK, ListInv, PanelTyped, AreRows, Row, Form, Closed
  <2>3. ShowsStore BY DEF ShowsStore, ListInv, Explained
  <2>4. QED BY <2>2, <2>3 DEF PanelInv
<1>2. QED BY ListInit, ListKept, <1>1, PTL DEF PanelSpec

(***************************************************************************)
(* DemoSeed: the commands of a request, and what each leaves behind.         *)
(***************************************************************************)
SeedSet ==
    {<<"team", DemoTeam>>, <<"join", DemoTeam>>, <<"categories", Fixture>>, <<"raise", DemoTeam>>}
    \union ({"point", "solve", "total"} \X Demo)
ClearSet ==
    {<<"no team", DemoTeam>>, <<"no crew", DemoTeam>>} \union ({"no pointer", "no solves", "no total"} \X Demo)
ResetSet == {"wipe"} \X {"teams", "users", "solves", "totals", "counts"}
CommandSet(kind) == IF kind = "seed" THEN SeedSet ELSE IF kind = "clear" THEN ClearSet ELSE ResetSet
Kinds3 == {"seed", "clear", "reset"}
AnyCommand == SeedSet \union ClearSet \union ResetSet

\* The fixture's contestants, each of them at a place of their own.
LEMMA DemoListed ==
    /\ Cardinality(Demo) \in Nat
    /\ SetToSeq(Demo) \in [1..Cardinality(Demo) -> Demo]
    /\ \A l \in Demo : \E k \in 1..Cardinality(Demo) : SetToSeq(Demo)[k] = l
<1> DEFINE n == Cardinality(Demo)
<1>1. n \in Nat /\ ExistsBijection(1..n, Demo) BY DemoAssumption, FS_CardinalityType
<1>2. PICK b : b \in Bijection(1..n, Demo) BY <1>1 DEF ExistsBijection
<1>3. \E f \in [1..n -> Demo] : IsInjective(f) BY <1>2 DEF Bijection, Injection
<1>4. SetToSeq(Demo) \in [1..n -> Demo] /\ IsInjective(SetToSeq(Demo)) BY <1>3 DEF SetToSeq
<1>5. SetToSeq(Demo) \in Injection(1..n, Demo) BY <1>4 DEF Injection
<1>6. IsFiniteSet(1..n) /\ Cardinality(1..n) = n BY <1>1, FS_Interval
<1>7. SetToSeq(Demo) \in Surjection(1..n, Demo) BY <1>5, <1>6, FS_Injection, DemoAssumption
<1>8. QED BY <1>1, <1>4, <1>7 DEF Surjection

LEMMA PerDemoRange ==
    ASSUME NEW command
    PROVE  PerDemo(command) \in Seq({command} \X Demo) /\ ToSet(PerDemo(command)) = {command} \X Demo
<1> DEFINE n == Cardinality(Demo)
<1>1. /\ n \in Nat /\ SetToSeq(Demo) \in [1..n -> Demo]
      /\ \A l \in Demo : \E k \in 1..n : SetToSeq(Demo)[k] = l
  BY DemoListed
<1>2. PerDemo(command) \in [1..n -> {command} \X Demo] BY <1>1 DEF PerDemo
<1>3. ASSUME NEW c \in {command} \X Demo PROVE \E k \in 1..n : PerDemo(command)[k] = c BY <1>1 DEF PerDemo
<1>4. DOMAIN PerDemo(command) = 1..n BY DEF PerDemo
<1>5. PerDemo(command) \in Seq({command} \X Demo) BY <1>1, <1>2
<1>6. QED BY <1>2, <1>3, <1>4, <1>5 DEF ToSet

LEMMA RangeOfBoth ==
    ASSUME NEW S, NEW s \in Seq(S), NEW t \in Seq(S)
    PROVE  s \o t \in Seq(S) /\ ToSet(s \o t) = ToSet(s) \union ToSet(t)
<1>1. s \o t \in Seq(S) OBVIOUS
<1>2. /\ DOMAIN s = 1..Len(s) /\ DOMAIN t = 1..Len(t) /\ DOMAIN (s \o t) = 1..(Len(s) + Len(t))
      /\ Len(s) \in Nat /\ Len(t) \in Nat
  OBVIOUS
<1>3. \A k \in 1..(Len(s) + Len(t)) : (s \o t)[k] = IF k <= Len(s) THEN s[k] ELSE t[k - Len(s)]
  OBVIOUS
<1> DEFINE u == s \o t
<1>4. \A k \in 1..Len(s) : k \in DOMAIN u /\ u[k] = s[k] BY <1>2, <1>3
<1>5. \A k \in 1..Len(t) : k + Len(s) \in DOMAIN u /\ u[k + Len(s)] = t[k] BY <1>2, <1>3
<1>6. \A k \in DOMAIN u : u[k] \in ToSet(s) \union ToSet(t) BY <1>2, <1>3 DEF ToSet
<1> HIDE DEF u
<1>7. ToSet(s) \subseteq ToSet(u) BY <1>2, <1>4 DEF ToSet
<1>8. ToSet(t) \subseteq ToSet(u) BY <1>2, <1>5 DEF ToSet
<1>9. ToSet(u) \subseteq ToSet(s) \union ToSet(t) BY <1>6 DEF ToSet
<1>10. QED BY <1>1, <1>7, <1>8, <1>9 DEF u

LEMMA SeqOfMore ==
    ASSUME NEW S, NEW T, T \subseteq S, NEW s \in Seq(T)
    PROVE  s \in Seq(S)
OBVIOUS

LEMMA TwoOfEach ==
    ASSUME NEW n \in Nat, NEW k \in 1..n
    PROVE  /\ 2 * k - 1 \in 1..(2 * n) /\ (2 * k - 1) % 2 = 1 /\ ((2 * k - 1) + 1) \div 2 = k
           /\ 2 * k \in 1..(2 * n) /\ (2 * k) % 2 # 1 /\ (2 * k + 1) \div 2 = k
OBVIOUS

LEMMA OneOfTwo ==
    ASSUME NEW n \in Nat, NEW i \in 1..(2 * n)
    PROVE  (i + 1) \div 2 \in 1..n
OBVIOUS

LEMMA PairPerDemoRange ==
    ASSUME NEW odd, NEW even
    PROVE  /\ PairPerDemo(odd, even) \in Seq({odd, even} \X Demo)
           /\ ToSet(PairPerDemo(odd, even)) = {odd, even} \X Demo
<1> DEFINE n == Cardinality(Demo)
           pairs == PairPerDemo(odd, even)
<1>1. /\ n \in Nat /\ SetToSeq(Demo) \in [1..n -> Demo]
      /\ \A l \in Demo : \E k \in 1..n : SetToSeq(Demo)[k] = l
  BY DemoListed
<1>2. /\ DOMAIN pairs = 1..(2 * n) /\ pairs = [i \in 1..(2 * n) |-> pairs[i]]
      /\ \A i \in 1..(2 * n) : i % 2 = 1 => pairs[i] = <<odd, SetToSeq(Demo)[(i + 1) \div 2]>>
      /\ \A i \in 1..(2 * n) : i % 2 # 1 => pairs[i] = <<even, SetToSeq(Demo)[(i + 1) \div 2]>>
  BY Zenon DEF PairPerDemo
<1> HIDE DEF n, pairs
<1>3. ASSUME NEW i \in 1..(2 * n) PROVE pairs[i] \in {odd, even} \X Demo
  <2>1. (i + 1) \div 2 \in 1..n BY <1>1, OneOfTwo
  <2>2. PICK l \in Demo : SetToSeq(Demo)[(i + 1) \div 2] = l BY <1>1, <2>1
  <2>3. pairs[i] = <<odd, l>> \/ pairs[i] = <<even, l>> BY <1>2, <2>2
  <2>4. QED BY <2>3
<1>4. ASSUME NEW l \in Demo PROVE <<odd, l>> \in ToSet(pairs) /\ <<even, l>> \in ToSet(pairs)
  <2>1. PICK k \in 1..n : SetToSeq(Demo)[k] = l BY <1>1
  <2>2. /\ 2 * k - 1 \in 1..(2 * n) /\ (2 * k - 1) % 2 = 1 /\ ((2 * k - 1) + 1) \div 2 = k
        /\ 2 * k \in 1..(2 * n) /\ (2 * k) % 2 # 1 /\ (2 * k + 1) \div 2 = k
    BY <1>1, TwoOfEach
  <2>3. pairs[2 * k - 1] = <<odd, l>> BY <1>2, <2>1, <2>2
  <2>4. pairs[2 * k] = <<even, l>> BY <1>2, <2>1, <2>2
  <2>5. QED BY <1>2, <2>2, <2>3, <2>4 DEF ToSet
<1>5. ToSet(pairs) \subseteq {odd, even} \X Demo BY <1>2, <1>3 DEF ToSet
<1>6. ASSUME NEW c \in {odd, even} \X Demo PROVE c \in ToSet(pairs)
  <2>1. c = <<odd, c[2]>> \/ c = <<even, c[2]>> OBVIOUS
  <2>2. c[2] \in Demo OBVIOUS
  <2>3. QED BY <1>4, <2>1, <2>2
<1>7. 2 * n \in Nat BY <1>1
<1>8. pairs \in [1..(2 * n) -> {odd, even} \X Demo] BY <1>2, <1>3
<1>9. pairs \in Seq({odd, even} \X Demo) BY <1>7, <1>8
<1>10. QED BY <1>5, <1>6, <1>9 DEF pairs

\* What each request sends, in whatever order.
LEMMA Vocabulary ==
    ASSUME NEW kind \in Kinds3
    PROVE  CommandsOf(kind) \in Seq(CommandSet(kind)) /\ ToSet(CommandsOf(kind)) = CommandSet(kind)
<1>1. ASSUME kind = "seed" PROVE CommandsOf(kind) \in Seq(SeedSet) /\ ToSet(CommandsOf(kind)) = SeedSet
  <2> DEFINE a == <<<<"team", DemoTeam>>, <<"join", DemoTeam>>>>
             b == <<<<"categories", Fixture>>>>
             c == <<<<"raise", DemoTeam>>>>
  <2>1. a \in Seq(SeedSet) /\ ToSet(a) = {<<"team", DemoTeam>>, <<"join", DemoTeam>>} BY DEF SeedSet, ToSet
  <2>2. b \in Seq(SeedSet) /\ ToSet(b) = {<<"categories", Fixture>>} BY DEF SeedSet, ToSet
  <2>3. c \in Seq(SeedSet) /\ ToSet(c) = {<<"raise", DemoTeam>>} BY DEF SeedSet, ToSet
  <2>4. ASSUME NEW command \in {"point", "solve", "total"}
        PROVE  PerDemo(command) \in Seq(SeedSet) /\ ToSet(PerDemo(command)) = {command} \X Demo
    BY PerDemoRange, SeqOfMore DEF SeedSet
  <2> HIDE DEF a, b, c
  <2> DEFINE ab == a \o PerDemo("point")
             ac == ab \o b
             ad == ac \o PerDemo("solve")
             ae == ad \o PerDemo("total")
  <2>5. ab \in Seq(SeedSet) /\ ToSet(ab) = ToSet(a) \union ToSet(PerDemo("point")) BY <2>1, <2>4, RangeOfBoth
  <2> HIDE DEF ab
  <2>6. ac \in Seq(SeedSet) /\ ToSet(ac) = ToSet(ab) \union ToSet(b) BY <2>2, <2>5, RangeOfBoth
  <2> HIDE DEF ac
  <2>7. ad \in Seq(SeedSet) /\ ToSet(ad) = ToSet(ac) \union ToSet(PerDemo("solve")) BY <2>4, <2>6, RangeOfBoth
  <2> HIDE DEF ad
  <2>8. ae \in Seq(SeedSet) /\ ToSet(ae) = ToSet(ad) \union ToSet(PerDemo("total")) BY <2>4, <2>7, RangeOfBoth
  <2> HIDE DEF ae
  <2>9. ae \o c \in Seq(SeedSet) /\ ToSet(ae \o c) = ToSet(ae) \union ToSet(c) BY <2>3, <2>8, RangeOfBoth
  <2>10. CommandsOf(kind) = ae \o c BY <1>1 DEF CommandsOf, SeedCommands, a, b, c, ab, ac, ad, ae
  <2>11. ToSet(ae \o c) = SeedSet BY <2>1, <2>2, <2>3, <2>4, <2>5, <2>6, <2>7, <2>8, <2>9 DEF SeedSet
  <2>12. QED BY <2>9, <2>10, <2>11
<1>2. ASSUME kind = "clear" PROVE CommandsOf(kind) \in Seq(ClearSet) /\ ToSet(CommandsOf(kind)) = ClearSet
  <2> DEFINE a == <<<<"no team", DemoTeam>>, <<"no crew", DemoTeam>>>>
             pairs == PairPerDemo("no solves", "no total")
  <2>1. a \in Seq(ClearSet) /\ ToSet(a) = {<<"no team", DemoTeam>>, <<"no crew", DemoTeam>>}
    <3>1. a \in Seq(ClearSet) BY DEF ClearSet
    <3>2. DOMAIN a = {1, 2} OBVIOUS
    <3>4. ToSet(a) = {a[1], a[2]} BY <3>2, Zenon DEF ToSet
    <3>3. QED BY <3>1, <3>4
  <2>2. PerDemo("no pointer") \in Seq(ClearSet) /\ ToSet(PerDemo("no pointer")) = {"no pointer"} \X Demo
    BY PerDemoRange, SeqOfMore DEF ClearSet
  <2>3. pairs \in Seq(ClearSet) /\ ToSet(pairs) = {"no solves", "no total"} \X Demo
    BY PairPerDemoRange, SeqOfMore DEF ClearSet
  <2>4. CommandsOf(kind) = (a \o PerDemo("no pointer")) \o pairs BY <1>2 DEF CommandsOf, ClearCommands
  <2> HIDE DEF a, pairs
  <2> DEFINE ab == a \o PerDemo("no pointer")
  <2>5. ab \in Seq(ClearSet) /\ ToSet(ab) = ToSet(a) \union ToSet(PerDemo("no pointer")) BY <2>1, <2>2, RangeOfBoth, ZenonT(60)
  <2>6. CommandsOf(kind) = ab \o pairs BY <2>4
  <2> HIDE DEF ab
  <2>7. ab \o pairs \in Seq(ClearSet) /\ ToSet(ab \o pairs) = ToSet(ab) \union ToSet(pairs)
    <3>1. ab \in Seq(ClearSet) /\ pairs \in Seq(ClearSet) BY <2>3, <2>5
    <3>2. QED BY <3>1, RangeOfBoth
  <2>8. ClearSet = {<<"no team", DemoTeam>>, <<"no crew", DemoTeam>>} \union ({"no pointer"} \X Demo)
                   \union ({"no solves", "no total"} \X Demo)
    BY DEF ClearSet
  <2>9. ToSet(ab \o pairs) = ClearSet BY <2>1, <2>2, <2>3, <2>5, <2>7, <2>8
  <2>10. QED BY <2>6, <2>7, <2>9
<1>3. ASSUME kind = "reset" PROVE CommandsOf(kind) \in Seq(ResetSet) /\ ToSet(CommandsOf(kind)) = ResetSet
  BY <1>3 DEF ResetCommands, ToSet, ResetSet, CommandsOf
<1>4. QED BY <1>1, <1>2, <1>3 DEF CommandSet, Kinds3
(***************************************************************************)
(* The inductive invariants: what a request has sent and is still to send,   *)
(* and for each command of a request that ran alone so far, that it is still *)
(* to come or that what it does stands.                                      *)
(***************************************************************************)
\* What the reset has left to do: the counts last.
ResetRests ==
    {<<<<"wipe", "teams">>, <<"wipe", "users">>, <<"wipe", "solves">>, <<"wipe", "totals">>, <<"wipe", "counts">>>>,
     <<<<"wipe", "users">>, <<"wipe", "solves">>, <<"wipe", "totals">>, <<"wipe", "counts">>>>,
     <<<<"wipe", "solves">>, <<"wipe", "totals">>, <<"wipe", "counts">>>>,
     <<<<"wipe", "totals">>, <<"wipe", "counts">>>>, <<<<"wipe", "counts">>>>, <<>>}

Requests == [kind : {"seed", "clear", "reset"}, todo : Seq(AnyCommand), failed : BOOLEAN, alone : BOOLEAN]
DesksInOrder ==
    /\ desk \in [Desks -> Requests \union {NoRequest}]
    /\ \A d \in Desks : desk[d] # NoRequest =>
          /\ ToSet(desk[d].todo) \subseteq CommandSet(desk[d].kind)
          /\ desk[d].kind = "reset" => wiped /\ desk[d].todo \in ResetRests

\* No solves of the fixture's contestants but the fixture's.
FixtureSolves == \A l \in Demo : rows[l] \subseteq DemoSolves[l]

Solved(i) == {l \in Players : i \in rows[l]}
Stands(c) ==
    /\ c[1] = "team" => DemoTeam \in captained
    /\ c[1] = "join" => Demo \subseteq crew[DemoTeam]
    /\ c[1] = "point" => pointer[c[2]] = DemoTeam
    /\ c[1] = "categories" => \A i \in FixtureItems : record[i] # NoRecord
    /\ c[1] = "solve" => rows[c[2]] = DemoSolves[c[2]]
    /\ c[1] = "total" => totals[c[2]] = Cardinality(DemoSolves[c[2]])
    /\ c[1] = "raise" => \A i \in FixtureItems : count[i] >= Cardinality(Solvers(i))
    /\ c[1] = "no team" => DemoTeam \notin captained
    /\ c[1] = "no crew" => crew[DemoTeam] = {}
    /\ c[1] = "no pointer" => pointer[c[2]] = NoTeam
    /\ c[1] = "no solves" => rows[c[2]] = {}
    /\ c[1] = "no total" => totals[c[2]] = 0
    /\ c = <<"wipe", "teams">> => captained = {} /\ crew[DemoTeam] = {}
    /\ c = <<"wipe", "users">> => \A l \in Demo : pointer[l] = NoTeam
    /\ c = <<"wipe", "solves">> => \A l \in Demo : rows[l] = {}
    /\ c = <<"wipe", "totals">> => \A l \in Demo : totals[l] = 0
    /\ c = <<"wipe", "counts">> => \A i \in Challenges : count[i] <= Cardinality(Solved(i))

OnTrack(d) ==
    desk[d] # NoRequest /\ desk[d].alone /\ ~desk[d].failed =>
        \A c \in CommandSet(desk[d].kind) : c \in ToSet(desk[d].todo) \/ Stands(c)
AnsweredTrue == answer # "none" =>
    /\ \A d \in Desks : desk[d] = NoRequest
    /\ answer \in {"seed", "clear", "reset"} /\ \A c \in CommandSet(answer) : Stands(c)
RequestsOnTrack == AnsweredTrue /\ \A d \in Desks : OnTrack(d)

\* Types, beyond those the run checks: what is in a list is the name of a category.
Listed == list \in Seq(Names \union {Fixture}) /\ draft \in Seq(Names \union {Fixture}) /\ Len(list) <= CategoriesMax

\* The first command of those left, and the rest.
LEMMA FirstAndRest ==
    ASSUME NEW S, NEW s \in Seq(S), s # <<>>
    PROVE  /\ Head(s) \in S /\ Tail(s) \in Seq(S)
           /\ ToSet(s) = {Head(s)} \union ToSet(Tail(s))
<1>1. Len(s) \in Nat \ {0} /\ DOMAIN s = 1..Len(s) OBVIOUS
<1>2. Head(s) = s[1] /\ Head(s) \in S /\ Tail(s) \in Seq(S) OBVIOUS
<1>3. /\ DOMAIN Tail(s) = 1..(Len(s) - 1) /\ \A k \in 1..(Len(s) - 1) : Tail(s)[k] = s[k + 1]
  OBVIOUS
<1>4. ToSet(Tail(s)) \subseteq ToSet(s) BY <1>1, <1>3 DEF ToSet
<1>5. Head(s) \in ToSet(s) BY <1>1, <1>2 DEF ToSet
<1>6. ASSUME NEW k \in 1..Len(s) PROVE s[k] = Head(s) \/ s[k] \in ToSet(Tail(s))
  <2>1. CASE k = 1 BY <1>2, <2>1
  <2>2. CASE k # 1
    <3>1. k - 1 \in 1..(Len(s) - 1) /\ (k - 1) + 1 = k BY <1>1, <2>2
    <3>2. Tail(s)[k - 1] = s[k] BY <1>3, <3>1
    <3>3. QED BY <1>3, <3>1, <3>2 DEF ToSet
  <2>3. QED BY <2>1, <2>2
<1>7. ToSet(s) \subseteq {Head(s)} \union ToSet(Tail(s)) BY <1>1, <1>6 DEF ToSet
<1>8. QED BY <1>2, <1>4, <1>5, <1>7

LEMMA TailsOfTuples ==
    ASSUME NEW a, NEW b, NEW c, NEW d, NEW e
    PROVE  /\ Head(<<a, b, c, d, e>>) = a /\ Tail(<<a, b, c, d, e>>) = <<b, c, d, e>>
           /\ Head(<<b, c, d, e>>) = b /\ Tail(<<b, c, d, e>>) = <<c, d, e>>
           /\ Head(<<c, d, e>>) = c /\ Tail(<<c, d, e>>) = <<d, e>>
           /\ Head(<<d, e>>) = d /\ Tail(<<d, e>>) = <<e>>
           /\ Head(<<e>>) = e /\ Tail(<<e>>) = <<>>
           /\ e \in ToSet(<<d, e>>)
BY DEF ToSet

LEMMA ResetGoesOn ==
    ASSUME NEW s \in ResetRests, s # <<>>
    PROVE  /\ Tail(s) \in ResetRests
           /\ Head(s) = <<"wipe", "solves">> => <<"wipe", "counts">> \in ToSet(Tail(s))
<1> DEFINE a == <<"wipe", "teams">>
           b == <<"wipe", "users">>
           c == <<"wipe", "solves">>
           d == <<"wipe", "totals">>
           e == <<"wipe", "counts">>
<1>1. a # c /\ b # c /\ d # c /\ e # c OBVIOUS
<1>2. ResetRests = {<<a, b, c, d, e>>, <<b, c, d, e>>, <<c, d, e>>, <<d, e>>, <<e>>, <<>>} BY DEF ResetRests
<1> HIDE DEF a, b, c, d, e
<1>3. Tail(s) \in {<<b, c, d, e>>, <<c, d, e>>, <<d, e>>, <<e>>, <<>>} /\ (Head(s) = c => Tail(s) = <<d, e>>)
  <2>1. CASE s = <<a, b, c, d, e>> BY <1>1, <2>1, TailsOfTuples
  <2>2. CASE s = <<b, c, d, e>> BY <1>1, <2>2, TailsOfTuples
  <2>3. CASE s = <<c, d, e>> BY <1>1, <2>3, TailsOfTuples
  <2>4. CASE s = <<d, e>> BY <1>1, <2>4, TailsOfTuples
  <2>5. CASE s = <<e>> BY <1>1, <2>5, TailsOfTuples
  <2>6. QED BY <1>2, <2>1, <2>2, <2>3, <2>4, <2>5
<1>4. e \in ToSet(<<d, e>>) BY TailsOfTuples
<1>5. Tail(s) \in ResetRests BY <1>2, <1>3
<1>6. Head(s) = c => e \in ToSet(Tail(s)) BY <1>3, <1>4
<1>7. QED BY <1>5, <1>6 DEF c, e

\* A request is no request at all in no state.
LEMMA ARequestIsOne == \A r \in Requests : r # NoRequest
BY DEF Requests, NoRequest

\* What becomes of the requests when one of them does something.
LEMMA Apart ==
    ASSUME DesksInOrder, NEW d \in Desks, NEW r \in Requests \union {NoRequest},
           desk' = [Together(d) EXCEPT ![d] = r]
    PROVE  /\ desk' \in [Desks -> Requests \union {NoRequest}] /\ desk'[d] = r
           /\ \A e \in Desks \ {d} :
                 /\ desk[e] = NoRequest => desk'[e] = NoRequest
                 /\ desk[e] # NoRequest => /\ desk'[e] # NoRequest /\ desk'[e].kind = desk[e].kind
                                           /\ desk'[e].todo = desk[e].todo /\ ~desk'[e].alone
<1>1. desk \in [Desks -> Requests \union {NoRequest}] BY DEF DesksInOrder
<1>2. ASSUME NEW e \in Desks, desk[e] # NoRequest
      PROVE  LET other == [desk[e] EXCEPT !.alone = FALSE]
             IN  /\ other \in Requests /\ other.kind = desk[e].kind /\ other.todo = desk[e].todo /\ ~other.alone
  BY <1>1, <1>2 DEF Requests
<1>3. Together(d) \in [Desks -> Requests \union {NoRequest}]
  BY <1>1, <1>2 DEF Together
<1>4. desk' \in [Desks -> Requests \union {NoRequest}] /\ desk'[d] = r BY <1>3
<1>5. ASSUME NEW e \in Desks \ {d}
      PROVE  desk'[e] = IF desk[e] # NoRequest THEN [desk[e] EXCEPT !.alone = FALSE] ELSE desk[e]
  BY <1>3, <1>5 DEF Together
<1>6. QED BY <1>2, <1>4, <1>5, ARequestIsOne

\* What becomes of the request that does something.
BecomesOf(d, r) == r \in Requests \union {NoRequest} /\ desk' = [Together(d) EXCEPT ![d] = r]
Proceeds(d, failed) == [desk[d] EXCEPT !.todo = Tail(@), !.failed = @ \/ failed]

LEMMA RequestFacts ==
    ASSUME DesksInOrder, NEW d \in Desks, desk[d] # NoRequest
    PROVE  /\ desk[d] \in Requests /\ desk[d].kind \in Kinds3 /\ desk[d].todo \in Seq(AnyCommand)
           /\ ToSet(desk[d].todo) \subseteq CommandSet(desk[d].kind)
           /\ desk[d].kind = "reset" => wiped /\ desk[d].todo \in ResetRests
BY DEF DesksInOrder, Requests, Kinds3

LEMMA ProceedsFacts ==
    ASSUME DesksInOrder, NEW d \in Desks, desk[d] # NoRequest, desk[d].todo # <<>>, NEW failed \in BOOLEAN
    PROVE  /\ Proceeds(d, failed) \in Requests
           /\ Proceeds(d, failed).kind = desk[d].kind /\ Proceeds(d, failed).todo = Tail(desk[d].todo)
           /\ Proceeds(d, failed).alone = desk[d].alone
           /\ Proceeds(d, failed).failed = (desk[d].failed \/ failed)
           /\ Executed(d, failed) = [Together(d) EXCEPT ![d] = Proceeds(d, failed)]
BY RequestFacts, FirstAndRest DEF Proceeds, Requests, Together, Executed

\* A command that ran, or that Redis refused.
LEMMA CommandMoves ==
    ASSUME DesksInOrder, NEW d \in Desks, Command(d)
    PROVE  /\ desk[d] # NoRequest /\ desk[d].todo # <<>>
           /\ BecomesOf(d, Proceeds(d, Refused(Head(desk[d].todo))))
BY ProceedsFacts DEF Command, Refused, BecomesOf

\* A command that failed, an answer that was lost, and the answer.
Lagging(r, d) ==
    r # NoRequest => /\ r.failed /\ r.kind = desk[d].kind
                     /\ r.todo \in {<<>>, desk[d].todo} \/ (desk[d].todo # <<>> /\ r.todo = Tail(desk[d].todo))
LEMMA OtherMoves ==
    ASSUME DesksInOrder, NEW d \in Desks, CommandFails(d) \/ RequestLost(d) \/ Respond(d)
    PROVE  desk[d] # NoRequest /\ \E r : BecomesOf(d, r) /\ Lagging(r, d)
<1>1. CASE CommandFails(d)
  <2>1. desk[d] # NoRequest /\ desk[d].todo # <<>> BY <1>1 DEF CommandFails
  <2>2. CASE desk[d].kind = "reset" BY <1>1, <2>2, <2>1 DEF CommandFails, BecomesOf, Lagging
  <2>3. CASE desk[d].kind # "reset" BY <1>1, <2>3, <2>1, ProceedsFacts DEF CommandFails, BecomesOf, Lagging
  <2>4. QED BY <2>2, <2>3
<1>2. CASE RequestLost(d)
  <2>1. desk[d] # NoRequest BY <1>2 DEF RequestLost
  <2>2. PICK rest \in {<<>>, desk[d].todo} : desk' = [Together(d) EXCEPT ![d].todo = rest, ![d].failed = TRUE]
    BY <1>2 DEF RequestLost
  <2> DEFINE r == [desk[d] EXCEPT !.todo = rest, !.failed = TRUE]
  <2>3. desk[d] \in Requests /\ desk[d].todo \in Seq(AnyCommand) BY <2>1, RequestFacts
  <2>4. rest \in Seq(AnyCommand)
    <3>1. <<>> \in Seq(AnyCommand) OBVIOUS
    <3>2. QED BY <2>3, <3>1
  <2>5. r \in Requests /\ r.kind = desk[d].kind /\ r.todo = rest /\ r.failed BY <2>3, <2>4 DEF Requests
  <2>6. Together(d)[d] = desk[d] BY DEF Together
  <2>7. desk' = [Together(d) EXCEPT ![d] = r] BY <2>2, <2>6
  <2> HIDE DEF r
  <2>8. QED BY <2>1, <2>5, <2>7 DEF BecomesOf, Lagging
<1>3. CASE Respond(d) BY <1>3 DEF Respond, BecomesOf, Lagging
<1>4. QED BY <1>1, <1>2, <1>3

LEMMA DesksKept ==
    ASSUME DesksInOrder, NEW d \in Desks, NEW r, BecomesOf(d, r), wiped => wiped',
           r # NoRequest => /\ ToSet(r.todo) \subseteq CommandSet(r.kind)
                            /\ r.kind = "reset" => wiped' /\ r.todo \in ResetRests
    PROVE  DesksInOrder'
<1>1. /\ desk' \in [Desks -> Requests \union {NoRequest}] /\ desk'[d] = r
      /\ \A e \in Desks \ {d} :
            /\ desk[e] = NoRequest => desk'[e] = NoRequest
            /\ desk[e] # NoRequest => desk'[e].kind = desk[e].kind /\ desk'[e].todo = desk[e].todo
  BY Apart DEF BecomesOf
<1>2. ASSUME NEW e \in Desks, desk'[e] # NoRequest
      PROVE  /\ ToSet(desk'[e].todo) \subseteq CommandSet(desk'[e].kind)
             /\ desk'[e].kind = "reset" => wiped' /\ desk'[e].todo \in ResetRests
  <2>1. CASE e = d BY <1>1, <1>2, <2>1
  <2>2. CASE e # d BY <1>1, <1>2, <2>2, RequestFacts
  <2>3. QED BY <2>1, <2>2
<1>3. QED BY <1>1, <1>2 DEF DesksInOrder

LEMMA DesksStep == DesksInOrder /\ [DemoNext]_demoVars => DesksInOrder'
<1> SUFFICES ASSUME DesksInOrder, [DemoNext]_demoVars PROVE DesksInOrder'
  OBVIOUS
<1>1. ASSUME NEW d \in Desks, Command(d) PROVE DesksInOrder'
  <2> DEFINE f == Refused(Head(desk[d].todo))
             r == Proceeds(d, f)
  <2>1. desk[d] # NoRequest /\ desk[d].todo # <<>> /\ BecomesOf(d, r) BY <1>1, CommandMoves
  <2>2. f \in BOOLEAN BY DEF Refused
  <2>3. r.kind = desk[d].kind /\ r.todo = Tail(desk[d].todo) BY <2>1, <2>2, ProceedsFacts
  <2>4. wiped' = wiped BY <1>1 DEF Command
  <2> HIDE DEF r
  <2>5. QED BY <2>1, <2>3, <2>4, RequestFacts, FirstAndRest, ResetGoesOn, DesksKept
<1>2. ASSUME NEW d \in Desks, CommandFails(d) \/ RequestLost(d) \/ Respond(d) PROVE DesksInOrder'
  <2>1. PICK r : desk[d] # NoRequest /\ BecomesOf(d, r) /\ Lagging(r, d) BY <1>2, OtherMoves
  <2>2. wiped' = wiped BY <1>2 DEF CommandFails, RequestLost, Respond
  <2>3. ASSUME r # NoRequest
        PROVE  /\ ToSet(r.todo) \subseteq CommandSet(r.kind)
               /\ r.kind = "reset" => wiped' /\ r.todo \in ResetRests
    <3>1. CASE r.todo = <<>> BY <2>1, <2>2, <2>3, <3>1, RequestFacts DEF ToSet, ResetRests, Lagging
    <3>2. CASE r.todo = desk[d].todo BY <2>1, <2>2, <2>3, <3>2, RequestFacts DEF Lagging
    <3>3. CASE desk[d].todo # <<>> /\ r.todo = Tail(desk[d].todo)
      BY <2>1, <2>2, <2>3, <3>3, RequestFacts, FirstAndRest, ResetGoesOn DEF Lagging
    <3>4. QED BY <2>1, <2>3, <3>1, <3>2, <3>3 DEF Lagging
  <2>4. QED BY <2>1, <2>2, <2>3, DesksKept
<1>3. ASSUME NEW d \in Desks, NEW kind \in Kinds3, Request(d, kind) PROVE DesksInOrder'
  <2> DEFINE r == [kind |-> kind, todo |-> CommandsOf(kind), failed |-> FALSE,
                   alone |-> \A e \in Desks : desk[e] = NoRequest]
  <2>1. /\ desk' = [desk EXCEPT ![d] = r] /\ (wiped => wiped') /\ (kind = "reset" => wiped')
    BY <1>3 DEF Request
  <2>2. CommandsOf(kind) \in Seq(CommandSet(kind)) /\ ToSet(CommandsOf(kind)) = CommandSet(kind) BY Vocabulary
  <2>3. CommandSet(kind) \subseteq AnyCommand BY DEF CommandSet, AnyCommand
  <2>4. CommandsOf(kind) \in Seq(AnyCommand) BY <2>2, <2>3, SeqOfMore
  <2>5. r \in Requests /\ r.kind = kind /\ r.todo = CommandsOf(kind) BY <2>4 DEF Requests, Kinds3
  <2>6. kind = "reset" => r.todo \in ResetRests BY <2>5 DEF CommandsOf, ResetCommands, ResetRests
  <2> HIDE DEF r
  <2>7. desk' \in [Desks -> Requests \union {NoRequest}] BY <2>1, <2>5 DEF DesksInOrder
  <2>8. ASSUME NEW e \in Desks, desk'[e] # NoRequest
        PROVE  /\ ToSet(desk'[e].todo) \subseteq CommandSet(desk'[e].kind)
               /\ desk'[e].kind = "reset" => wiped' /\ desk'[e].todo \in ResetRests
    <3>1. CASE e = d BY <2>1, <3>1, <2>2, <2>5, <2>6 DEF DesksInOrder
    <3>2. CASE e # d BY <2>1, <3>2, <2>8, RequestFacts DEF DesksInOrder
    <3>3. QED BY <3>1, <3>2
  <2>9. QED BY <2>7, <2>8 DEF DesksInOrder
<1>4. ASSUME UNCHANGED <<desk, wiped>> PROVE DesksInOrder' BY <1>4 DEF DesksInOrder
<1>5. QED
  BY <1>1, <1>2, <1>3, <1>4 DEF DemoNext, demoVars, Submit, ShowList, PutList, ForceMove, Kinds3

(***************************************************************************)
(* Types, and what each command leaves as it was.                            *)
(***************************************************************************)
CrewTyped == crew \in [{DemoTeam, OtherTeam} -> SUBSET Contestants]
BoardTyped == DemoTypeOK /\ Listed /\ CrewTyped /\ FixtureSolves

LEMMA Tags ==
    ASSUME NEW h \in AnyCommand
    PROVE  /\ h[1] \in {"point", "solve", "total", "no pointer", "no solves", "no total"} => h[2] \in Demo
           /\ h[1] \in {"team", "join", "raise", "no team", "no crew"} => h[2] = DemoTeam
<1>1. CASE h \in {"point", "solve", "total", "no pointer", "no solves", "no total"} \X Demo BY <1>1
<1>2. CASE \E name \in {"team", "join", "raise", "no team", "no crew"} : h = <<name, DemoTeam>>
  <2>1. PICK name \in {"team", "join", "raise", "no team", "no crew"} : h = <<name, DemoTeam>> BY <1>2
  <2>2. h[1] = name /\ h[2] = DemoTeam BY <2>1
  <2>3. h[1] \notin {"point", "solve", "total", "no pointer", "no solves", "no total"} BY <2>2
  <2>4. QED BY <2>2, <2>3
<1>3. CASE h = <<"categories", Fixture>> BY <1>3
<1>4. CASE h \in ResetSet BY <1>4 DEF ResetSet
<1>5. \/ h \in {"point", "solve", "total", "no pointer", "no solves", "no total"} \X Demo
      \/ \E name \in {"team", "join", "raise", "no team", "no crew"} : h = <<name, DemoTeam>>
      \/ h = <<"categories", Fixture>> \/ h \in ResetSet
  BY DEF AnyCommand, SeedSet, ClearSet
<1>6. QED BY <1>1, <1>2, <1>3, <1>4, <1>5

LEMMA SolverCounts ==
    /\ \A i : Solvers(i) \subseteq Demo /\ Cardinality(Solvers(i)) \in Nat
    /\ \A l \in Demo : /\ DemoSolves[l] \subseteq FixtureItems
                       /\ IsFiniteSet(DemoSolves[l]) /\ Cardinality(DemoSolves[l]) \in Nat
    /\ IsFiniteSet(Challenges)
<1>1. ASSUME NEW i PROVE Solvers(i) \subseteq Demo /\ Cardinality(Solvers(i)) \in Nat
  BY DemoAssumption, FS_Subset, FS_CardinalityType DEF Solvers
<1>2. ASSUME NEW l \in Demo
      PROVE  DemoSolves[l] \subseteq FixtureItems /\ IsFiniteSet(DemoSolves[l]) /\ Cardinality(DemoSolves[l]) \in Nat
  BY DemoAssumption, FS_Subset, FS_CardinalityType
<1>3. IsFiniteSet(Challenges) BY DemoAssumption, FS_Union DEF Challenges
<1>4. QED BY <1>1, <1>2, <1>3

LEMMA TeamsDone ==
    ASSUME BoardTyped, NEW h \in AnyCommand, TeamCommand(h)
    PROVE  /\ captained' \subseteq {DemoTeam, OtherTeam}
           /\ pointer' \in [Contestants -> {DemoTeam, OtherTeam, NoTeam}] /\ CrewTyped'
BY Tags DEF Contestants, BoardTyped, DemoTypeOK, CrewTyped, TeamCommand

LEMMA ScoresDone ==
    ASSUME BoardTyped, NEW h \in AnyCommand, ScoreCommand(h)
    PROVE  /\ rows' \in [Contestants -> SUBSET Challenges] /\ totals' \in [Contestants -> Nat]
           /\ count' \in [Challenges -> Nat] /\ FixtureSolves'
<1>1. Demo \subseteq Contestants /\ FixtureItems \subseteq Challenges BY DEF Contestants, Challenges
<1>2. /\ rows \in [Contestants -> SUBSET Challenges] /\ totals \in [Contestants -> Nat]
      /\ count \in [Challenges -> Nat] /\ FixtureSolves
  BY DEF BoardTyped, DemoTypeOK
<1>3. rows' \in [Contestants -> SUBSET Challenges]
  BY <1>1, <1>2, Tags, SolverCounts DEF ScoreCommand
<1>4. FixtureSolves'
  BY <1>1, <1>2, Tags, SolverCounts DEF ScoreCommand, FixtureSolves
<1>5. totals' \in [Contestants -> Nat]
  BY <1>1, <1>2, Tags, SolverCounts DEF ScoreCommand
<1>6. count' \in [Challenges -> Nat] BY <1>2, SolverCounts DEF Raised, ScoreCommand
<1>7. QED BY <1>3, <1>4, <1>5, <1>6

\* The list with the fixture's category, under whichever spelling it has there.
LEMMA UnitedHasIt ==
    ASSUME list \in Seq(Names \union {Fixture})
    PROVE  /\ United \in Seq(Names \union {Fixture}) /\ Spelling \in Range(United)
           /\ Spelling \in Names \union {Fixture} /\ Range(list) \subseteq Range(United)
<1>1. DOMAIN list = 1..Len(list) /\ Len(list) \in Nat /\ \A k \in DOMAIN list : list[k] \in Names \union {Fixture}
  OBVIOUS
<1>2. CASE \E k \in DOMAIN list : FoldOf[list[k]] = FoldOf[Fixture] BY <1>2, <1>1 DEF Spelling, Range, United
<1>3. CASE ~\E k \in DOMAIN list : FoldOf[list[k]] = FoldOf[Fixture]
  <2>1. Spelling = Fixture BY <1>3 DEF Spelling
  <2>2. \A k \in DOMAIN list : list[k] # Fixture BY <1>3
  <2>3. Spelling \notin Range(list) BY <2>1, <2>2 DEF Range
  <2>4. United = Append(list, Fixture) BY <2>3 DEF United
  <2>5. Append(list, Fixture) \in Seq(Names \union {Fixture}) OBVIOUS
  <2>6. /\ DOMAIN Append(list, Fixture) = 1..(Len(list) + 1)
        /\ Append(list, Fixture)[Len(list) + 1] = Fixture
        /\ \A k \in 1..Len(list) : Append(list, Fixture)[k] = list[k]
    BY <1>1
  <2>7. Len(list) + 1 \in 1..(Len(list) + 1) /\ 1..Len(list) \subseteq 1..(Len(list) + 1) BY <1>1
  <2>8. Fixture \in Range(Append(list, Fixture)) /\ Range(list) \subseteq Range(Append(list, Fixture))
    BY <1>1, <2>6, <2>7 DEF Range
  <2>9. QED BY <2>1, <2>4, <2>5, <2>8
<1>4. QED BY <1>2, <1>3

LEMMA ContentDone ==
    ASSUME BoardTyped, NEW h \in AnyCommand, ContentCommand(h), ~Refused(h)
    PROVE  /\ record' \in [Challenges -> Names \union {Fixture, NoRecord}]
           /\ list' \in Seq(Names \union {Fixture}) /\ Len(list') <= CategoriesMax
           /\ h[1] = "categories" => \A i \in FixtureItems : record'[i] # NoRecord
           /\ \A i \in Challenges : record[i] # NoRecord => record'[i] # NoRecord
           /\ OnTheBoard => OnTheBoard'
<1>1. /\ record \in [Challenges -> Names \union {Fixture, NoRecord}]
      /\ list \in Seq(Names \union {Fixture}) /\ Len(list) <= CategoriesMax
  BY DEF BoardTyped, DemoTypeOK, Listed
<1>2. CASE h[1] = "categories"
  BY <1>2, <1>1, UnitedHasIt, DemoAssumption DEF ContentCommand, Refused, Challenges, OnTheBoard
<1>3. CASE h[1] # "categories" BY <1>3, <1>1 DEF ContentCommand, OnTheBoard
<1>4. QED BY <1>2, <1>3

(***************************************************************************)
(* What each command does stands while the rest of its request runs.         *)
(***************************************************************************)
\* The tags of each request.
LEMMA SeedTags ==
    ASSUME NEW h \in SeedSet
    PROVE  /\ h \in AnyCommand
           /\ h[1] \in {"team", "join", "point", "categories", "solve", "total", "raise"}
           /\ \A other : h # <<"wipe", other>>
<1>1. h[1] \in {"team", "join", "point", "categories", "solve", "total", "raise"}
  <2>1. CASE h \in {"point", "solve", "total"} \X Demo BY <2>1
  <2>2. CASE h \notin {"point", "solve", "total"} \X Demo BY <2>2 DEF SeedSet
  <2>3. QED BY <2>1, <2>2
<1>2. \A other : h # <<"wipe", other>> BY <1>1
<1>3. QED BY <1>1, <1>2 DEF AnyCommand

LEMMA ClearTags ==
    ASSUME NEW h \in ClearSet
    PROVE  /\ h \in AnyCommand
           /\ h[1] \in {"no team", "no crew", "no pointer", "no solves", "no total"}
           /\ \A other : h # <<"wipe", other>>
<1>1. h[1] \in {"no team", "no crew", "no pointer", "no solves", "no total"}
  <2>1. CASE h \in {"no pointer", "no solves", "no total"} \X Demo BY <2>1
  <2>2. CASE \E name \in {"no team", "no crew"} : h = <<name, DemoTeam>>
    <3>1. PICK name \in {"no team", "no crew"} : h = <<name, DemoTeam>> BY <2>2
    <3>2. h[1] = name BY <3>1
    <3>3. QED BY <3>2
  <2>3. QED BY <2>1, <2>2 DEF ClearSet
<1>2. ASSUME NEW other PROVE h # <<"wipe", other>>
  <2>1. <<"wipe", other>>[1] = "wipe" OBVIOUS
  <2>2. QED BY <1>1, <2>1
<1>3. QED BY <1>1, <1>2 DEF AnyCommand

LEMMA SeedKeeps ==
    ASSUME BoardTyped, NEW h \in SeedSet, Does(h), ~Refused(h), NEW c \in SeedSet, Stands(c) \/ c = h
    PROVE  Stands(c)'
<1>1. /\ h \in AnyCommand /\ h[1] \in {"team", "join", "point", "categories", "solve", "total", "raise"}
      /\ \A other : h # <<"wipe", other>>
  BY SeedTags
<1>2. /\ c \in AnyCommand /\ c[1] \in {"team", "join", "point", "categories", "solve", "total", "raise"}
      /\ \A other : c # <<"wipe", other>>
  BY SeedTags
<1>3. TeamCommand(h) /\ ScoreCommand(h) /\ ContentCommand(h) BY DEF Does
<1>4. Demo \subseteq Contestants /\ FixtureItems \subseteq Challenges BY DEF Contestants, Challenges
<1>5. c[1] \in {"point", "solve", "total"} => c[2] \in Demo BY <1>2, Tags
<1>6. /\ captained \subseteq {DemoTeam, OtherTeam} /\ pointer \in [Contestants -> {DemoTeam, OtherTeam, NoTeam}]
      /\ crew \in [{DemoTeam, OtherTeam} -> SUBSET Contestants]
      /\ rows \in [Contestants -> SUBSET Challenges] /\ totals \in [Contestants -> Nat]
      /\ count \in [Challenges -> Nat] /\ FixtureSolves
  BY DEF BoardTyped, DemoTypeOK, CrewTyped
<1>7. CASE c[1] = "team"
  <2>1. DemoTeam \in captained' BY <1>2, <1>3, <1>7, Tags, <1>1 DEF TeamCommand, Stands
  <2>2. QED BY <1>2, <1>7, <2>1 DEF Stands
<1>8. CASE c[1] = "join"
  <2>1. Demo \subseteq crew'[DemoTeam] BY <1>2, <1>3, <1>6, <1>8, Tags, <1>1 DEF TeamCommand, Stands
  <2>2. QED BY <1>2, <1>8, <2>1 DEF Stands
<1>9. CASE c[1] = "point"
  <2>1. pointer'[c[2]] = DemoTeam BY <1>2, <1>3, <1>4, <1>5, <1>6, <1>9, <1>1, Tags DEF TeamCommand, Stands
  <2>2. QED BY <1>2, <1>9, <2>1 DEF Stands
<1>10. CASE c[1] = "categories"
  <2>1. \A i \in FixtureItems : record'[i] # NoRecord BY <1>1, <1>3, <1>10, ContentDone, <1>4 DEF Stands
  <2>2. QED BY <1>2, <1>10, <2>1 DEF Stands
<1>11. CASE c[1] = "solve"
  <2>1. rows'[c[2]] = DemoSolves[c[2]]
    <3>1. CASE c = h BY <1>2, <1>3, <1>4, <1>5, <1>6, <1>11, <3>1 DEF ScoreCommand, FixtureSolves
    <3>2. CASE Stands(c) BY <1>1, <1>3, <1>4, <1>5, <1>6, <1>11, <3>2, Tags DEF ScoreCommand, Stands
    <3>3. QED BY <3>1, <3>2
  <2>2. QED BY <1>2, <1>11, <2>1 DEF Stands
<1>12. CASE c[1] = "total"
  <2>1. totals'[c[2]] = Cardinality(DemoSolves[c[2]])
    BY <1>2, <1>3, <1>4, <1>5, <1>6, <1>12, <1>1, Tags DEF ScoreCommand, Stands
  <2>2. QED BY <1>2, <1>12, <2>1 DEF Stands
<1>13. CASE c[1] = "raise"
  <2>1. ASSUME NEW i \in FixtureItems PROVE count'[i] >= Cardinality(Solvers(i))
    <3>1. i \in Challenges /\ count[i] \in Nat /\ Cardinality(Solvers(i)) \in Nat BY <1>4, <1>6, SolverCounts
    <3>2. CASE c = h
      <4>1. count'[i] = Raised(i, Cardinality(Solvers(i))) BY <1>2, <1>3, <1>13, <3>1, <3>2 DEF ScoreCommand
      <4>2. QED BY <3>1, <4>1 DEF Raised
    <3>3. CASE Stands(c)
      <4>1. count[i] >= Cardinality(Solvers(i)) BY <1>13, <3>3 DEF Stands
      <4>2. count'[i] \in {count[i], Raised(i, Cardinality(Solvers(i)))} BY <1>1, <1>3, <3>1 DEF ScoreCommand
      <4>3. QED BY <3>1, <4>1, <4>2 DEF Raised
    <3>4. QED BY <3>2, <3>3
  <2>2. QED BY <1>2, <1>13, <2>1 DEF Stands
<1>14. QED BY <1>2, <1>7, <1>8, <1>9, <1>10, <1>11, <1>12, <1>13

LEMMA ClearKeeps ==
    ASSUME BoardTyped, NEW h \in ClearSet, Does(h), NEW c \in ClearSet, Stands(c) \/ c = h
    PROVE  Stands(c)'
<1>1. /\ h \in AnyCommand /\ h[1] \in {"no team", "no crew", "no pointer", "no solves", "no total"}
      /\ \A other : h # <<"wipe", other>>
  BY ClearTags
<1>2. /\ c \in AnyCommand /\ c[1] \in {"no team", "no crew", "no pointer", "no solves", "no total"}
      /\ \A other : c # <<"wipe", other>>
  BY ClearTags
<1>3. TeamCommand(h) /\ ScoreCommand(h) BY DEF Does
<1>4. Demo \subseteq Contestants BY DEF Contestants
<1>5. /\ c[1] \in {"no pointer", "no solves", "no total"} => c[2] \in Demo
      /\ c[1] \in {"no team", "no crew"} => c[2] = DemoTeam
  BY <1>2, Tags
<1>6. /\ captained \subseteq {DemoTeam, OtherTeam} /\ pointer \in [Contestants -> {DemoTeam, OtherTeam, NoTeam}]
      /\ crew \in [{DemoTeam, OtherTeam} -> SUBSET Contestants]
      /\ rows \in [Contestants -> SUBSET Challenges] /\ totals \in [Contestants -> Nat]
  BY DEF BoardTyped, DemoTypeOK, CrewTyped
<1>7. CASE c[1] = "no team"
  <2>1. DemoTeam \notin captained' BY <1>3, <1>5, <1>7, <1>1 DEF TeamCommand, Stands
  <2>2. QED BY <1>2, <1>7, <2>1 DEF Stands
<1>8. CASE c[1] = "no crew"
  <2>1. crew'[DemoTeam] = {} BY <1>3, <1>5, <1>6, <1>8, <1>1, Tags DEF TeamCommand, Stands
  <2>2. QED BY <1>2, <1>8, <2>1 DEF Stands
<1>9. CASE c[1] = "no pointer"
  <2>1. pointer'[c[2]] = NoTeam BY <1>3, <1>4, <1>5, <1>6, <1>9, <1>1, Tags DEF TeamCommand, Stands
  <2>2. QED BY <1>2, <1>9, <2>1 DEF Stands
<1>10. CASE c[1] = "no solves"
  <2>1. rows'[c[2]] = {} BY <1>3, <1>4, <1>5, <1>6, <1>10, <1>1, Tags DEF ScoreCommand, Stands
  <2>2. QED BY <1>2, <1>10, <2>1 DEF Stands
<1>11. CASE c[1] = "no total"
  <2>1. totals'[c[2]] = 0 BY <1>3, <1>4, <1>5, <1>6, <1>11, <1>1, Tags DEF ScoreCommand, Stands
  <2>2. QED BY <1>2, <1>11, <2>1 DEF Stands
<1>12. QED BY <1>2, <1>7, <1>8, <1>9, <1>10, <1>11

LEMMA ResetKeeps ==
    ASSUME BoardTyped, NEW h \in ResetSet, Does(h), NEW c \in ResetSet, Stands(c) \/ c = h,
           ~(c = <<"wipe", "counts">> /\ h = <<"wipe", "solves">>)
    PROVE  Stands(c)'
<1>1. PICK x \in {"teams", "users", "solves", "totals", "counts"} : h = <<"wipe", x>> BY DEF ResetSet
<1>2. PICK y \in {"teams", "users", "solves", "totals", "counts"} : c = <<"wipe", y>> BY DEF ResetSet
<1>3. TeamCommand(h) /\ ScoreCommand(h) BY DEF Does
<1>4. Demo \subseteq Contestants BY DEF Contestants
<1>5. h[1] = "wipe" /\ c[1] = "wipe" BY <1>1, <1>2
<1>6. /\ crew \in [{DemoTeam, OtherTeam} -> SUBSET Contestants]
      /\ count \in [Challenges -> Nat]
  BY DEF BoardTyped, DemoTypeOK, CrewTyped
<1>7. CASE y = "teams"
  <2>1. captained' = {} /\ crew'[DemoTeam] = {}
    <3>1. CASE x = "teams" BY <1>1, <1>3, <1>5, <1>6, <3>1 DEF TeamCommand
    <3>2. CASE x # "teams" BY <1>1, <1>3, <1>5, <3>2, <1>2, <1>7 DEF TeamCommand, Stands
    <3>3. QED BY <3>1, <3>2
  <2>2. QED BY <1>2, <1>5, <1>7, <2>1 DEF Stands
<1>8. CASE y = "users"
  <2>1. \A l \in Demo : pointer'[l] = NoTeam
    <3>1. CASE x = "users" BY <1>1, <1>3, <1>4, <1>5, <3>1 DEF TeamCommand
    <3>2. CASE x # "users" BY <1>1, <1>3, <1>5, <3>2, <1>2, <1>8 DEF TeamCommand, Stands
    <3>3. QED BY <3>1, <3>2
  <2>2. QED BY <1>2, <1>5, <1>8, <2>1 DEF Stands
<1>9. CASE y = "solves"
  <2>1. \A l \in Demo : rows'[l] = {}
    <3>1. CASE x = "solves" BY <1>1, <1>3, <1>4, <1>5, <3>1 DEF ScoreCommand
    <3>2. CASE x # "solves" BY <1>1, <1>3, <1>5, <3>2, <1>2, <1>9 DEF ScoreCommand, Stands
    <3>3. QED BY <3>1, <3>2
  <2>2. QED BY <1>2, <1>5, <1>9, <2>1 DEF Stands
<1>10. CASE y = "totals"
  <2>1. \A l \in Demo : totals'[l] = 0
    <3>1. CASE x = "totals" BY <1>1, <1>3, <1>4, <1>5, <3>1 DEF ScoreCommand
    <3>2. CASE x # "totals" BY <1>1, <1>3, <1>5, <3>2, <1>2, <1>10 DEF ScoreCommand, Stands
    <3>3. QED BY <3>1, <3>2
  <2>2. QED BY <1>2, <1>5, <1>10, <2>1 DEF Stands
<1>11. CASE y = "counts"
  <2>1. ASSUME NEW i \in Challenges PROVE count'[i] <= Cardinality(Solved(i)')
    <3>1. CASE x = "counts"
      BY <1>1, <1>3, <1>5, <3>1, DemoAssumption, FS_Subset, FS_CardinalityType DEF ScoreCommand, Solved
    <3>2. CASE x # "counts" BY <1>1, <1>2, <1>11, <1>3, <1>5, <3>2 DEF ScoreCommand, Stands, Solved
    <3>3. QED BY <3>1, <3>2
  <2>2. QED BY <1>2, <1>5, <1>11, <2>1 DEF Stands
<1>12. QED BY <1>7, <1>8, <1>9, <1>10, <1>11

\* What the others do: a contestant's solve, the lists, and an organizer who leaves
\* the fixture's team and players alone.
Around ==
    \/ \E l \in Players, i \in Challenges : Submit(l, i)
    \/ ShowList \/ \E n \in Names : PutList(n)
    \/ \E l \in Contestants, s \in {DemoTeam, OtherTeam} : ForceMove(l, s)

LEMMA SubmitCounts ==
    ASSUME BoardTyped, NEW l \in Players, NEW i \in Challenges, Submit(l, i)
    PROVE  /\ \A m \in Demo : rows'[m] = rows[m] /\ totals'[m] = totals[m]
           /\ \A j \in Challenges : /\ count'[j] >= count[j]
                                    /\ count'[j] - count[j] = Cardinality(Solved(j)') - Cardinality(Solved(j))
                                    /\ Cardinality(Solved(j)') \in Nat /\ Cardinality(Solved(j)) \in Nat
           /\ totals'[l] = totals[l] + 1 /\ rows'[l] = rows[l] \union {i} /\ i \notin rows[l]
           /\ \A m \in Players \ {l} : totals'[m] = totals[m] /\ rows'[m] = rows[m]
<1>1. /\ rows \in [Contestants -> SUBSET Challenges] /\ totals \in [Contestants -> Nat]
      /\ count \in [Challenges -> Nat]
  BY DEF BoardTyped, DemoTypeOK
<1>2. Demo \subseteq Contestants /\ Players \subseteq Contestants /\ Demo \intersect Players = {}
  BY DemoAssumption DEF Contestants
<1>3. /\ rows' = [rows EXCEPT ![l] = @ \union {i}] /\ totals' = [totals EXCEPT ![l] = @ + 1]
      /\ count' = [count EXCEPT ![i] = @ + 1] /\ i \notin rows[l]
  BY DEF Submit
<1>4. /\ \A m \in Demo : rows'[m] = rows[m] /\ totals'[m] = totals[m]
      /\ totals'[l] = totals[l] + 1 /\ rows'[l] = rows[l] \union {i}
      /\ \A m \in Players \ {l} : totals'[m] = totals[m] /\ rows'[m] = rows[m]
  BY <1>1, <1>2, <1>3
<1>5. ASSUME NEW j \in Challenges
      PROVE  /\ count'[j] >= count[j]
             /\ count'[j] - count[j] = Cardinality(Solved(j)') - Cardinality(Solved(j))
             /\ Cardinality(Solved(j)') \in Nat /\ Cardinality(Solved(j)) \in Nat
  <2>1. IsFiniteSet(Solved(j)) /\ IsFiniteSet(Solved(j)') BY DemoAssumption, FS_Subset DEF Solved
  <2>2. Cardinality(Solved(j)') \in Nat /\ Cardinality(Solved(j)) \in Nat BY <2>1, FS_CardinalityType
  <2>3. count[j] \in Nat BY <1>1
  <2>4. CASE j = i
    <3>1. Solved(j)' = Solved(j) \union {l} /\ l \notin Solved(j) BY <1>2, <1>3, <1>4, <2>4 DEF Solved
    <3>2. Cardinality(Solved(j)') = Cardinality(Solved(j)) + 1 BY <2>1, <3>1, FS_AddElement
    <3>3. count'[j] = count[j] + 1 BY <1>1, <1>3, <2>4
    <3>4. QED BY <2>2, <2>3, <3>2, <3>3
  <2>5. CASE j # i
    <3>1. Solved(j)' = Solved(j) BY <1>2, <1>3, <1>4, <2>5 DEF Solved
    <3>2. count'[j] = count[j] BY <1>1, <1>3, <2>5
    <3>3. QED BY <2>2, <2>3, <3>1, <3>2
  <2>6. QED BY <2>4, <2>5
<1>6. QED BY <1>3, <1>4, <1>5

LEMMA StandsStays ==
    ASSUME NEW c \in AnyCommand, Stands(c), UNCHANGED <<captained, record>>,
           Demo \subseteq crew[DemoTeam] => Demo \subseteq crew'[DemoTeam],
           crew[DemoTeam] = {} => crew'[DemoTeam] = {},
           \A l \in Demo : pointer'[l] = pointer[l] /\ rows'[l] = rows[l] /\ totals'[l] = totals[l],
           \A i \in FixtureItems : count[i] >= Cardinality(Solvers(i)) => count'[i] >= Cardinality(Solvers(i)),
           \A i \in Challenges : count[i] <= Cardinality(Solved(i)) => count'[i] <= Cardinality(Solved(i)')
    PROVE  Stands(c)'
<1>1. c[1] \in {"point", "solve", "total", "no pointer", "no solves", "no total"} => c[2] \in Demo BY Tags
<1>2. c = <<"wipe", "counts">> => \A i \in Challenges : count'[i] <= Cardinality(Solved(i)') BY DEF Stands
<1>3. c[1] = "raise" => \A i \in FixtureItems : count'[i] >= Cardinality(Solvers(i)) BY DEF Stands
<1>4. /\ c[1] = "team" => DemoTeam \in captained'
      /\ c[1] = "join" => Demo \subseteq crew'[DemoTeam]
      /\ c[1] = "categories" => \A i \in FixtureItems : record'[i] # NoRecord
      /\ c[1] = "no team" => DemoTeam \notin captained'
      /\ c[1] = "no crew" => crew'[DemoTeam] = {}
      /\ c = <<"wipe", "teams">> => captained' = {} /\ crew'[DemoTeam] = {}
  BY DEF Stands
<1>5. /\ c[1] = "point" => pointer'[c[2]] = DemoTeam
      /\ c[1] = "no pointer" => pointer'[c[2]] = NoTeam
      /\ c = <<"wipe", "users">> => \A l \in Demo : pointer'[l] = NoTeam
  BY <1>1 DEF Stands
<1>6. /\ c[1] = "solve" => rows'[c[2]] = DemoSolves[c[2]]
      /\ c[1] = "total" => totals'[c[2]] = Cardinality(DemoSolves[c[2]])
      /\ c[1] = "no solves" => rows'[c[2]] = {}
      /\ c[1] = "no total" => totals'[c[2]] = 0
      /\ c = <<"wipe", "solves">> => \A l \in Demo : rows'[l] = {}
      /\ c = <<"wipe", "totals">> => \A l \in Demo : totals'[l] = 0
  BY <1>1 DEF Stands
<1>7. QED BY <1>2, <1>3, <1>4, <1>5, <1>6 DEF Stands

LEMMA AroundKeeps ==
    ASSUME BoardTyped, "move" \notin Careless, NEW c \in AnyCommand, Stands(c), Around
    PROVE  Stands(c)'
<1>1. /\ pointer \in [Contestants -> {DemoTeam, OtherTeam, NoTeam}]
      /\ crew \in [{DemoTeam, OtherTeam} -> SUBSET Contestants] /\ count \in [Challenges -> Nat]
  BY DEF BoardTyped, DemoTypeOK, CrewTyped
<1>2. Demo \subseteq Contestants /\ Players \subseteq Contestants /\ Demo \intersect Players = {}
      /\ FixtureItems \subseteq Challenges
  BY DemoAssumption DEF Contestants, Challenges
<1>3. ASSUME NEW l \in Players, NEW i \in Challenges, Submit(l, i) PROVE Stands(c)'
  <2>1. UNCHANGED <<captained, record, crew, pointer>> BY <1>3 DEF Submit
  <2>2. /\ \A m \in Demo : rows'[m] = rows[m] /\ totals'[m] = totals[m]
        /\ \A j \in Challenges : /\ count'[j] >= count[j]
                                 /\ count'[j] - count[j] = Cardinality(Solved(j)') - Cardinality(Solved(j))
                                 /\ Cardinality(Solved(j)') \in Nat /\ Cardinality(Solved(j)) \in Nat
    BY <1>3, SubmitCounts
  <2>3. \A j \in Challenges : count[j] \in Nat /\ count'[j] \in Nat BY <1>3, <1>1 DEF Submit
  <2>4. \A j \in Challenges : count[j] <= Cardinality(Solved(j)) => count'[j] <= Cardinality(Solved(j)')
    BY <2>2, <2>3
  <2>5. \A j \in FixtureItems : count[j] >= Cardinality(Solvers(j)) => count'[j] >= Cardinality(Solvers(j))
    BY SolverCounts, <1>2, <2>2, <2>3
  <2>6. QED BY <2>1, <2>2, <2>4, <2>5, StandsStays
<1>4. ASSUME ShowList \/ \E n \in Names : PutList(n) PROVE Stands(c)'
  BY <1>4, StandsStays DEF ShowList, PutList, board, Solved
<1>5. ASSUME NEW l \in Contestants, NEW s \in {DemoTeam, OtherTeam}, ForceMove(l, s) PROVE Stands(c)'
  BY <1>5, <1>1, <1>2, StandsStays DEF ForceMove, Solved
<1>6. QED BY <1>3, <1>4, <1>5 DEF Around

(***************************************************************************)
(* The invariants.                                                           *)
(***************************************************************************)
DemoShape == BoardTyped /\ DesksInOrder

LEMMA ListGrows ==
    ASSUME NEW S, NEW s \in Seq(S), NEW n \in S
    PROVE  /\ Append(s, n) \in Seq(S) /\ Len(Append(s, n)) = Len(s) + 1 /\ Len(s) \in Nat
           /\ Range(s) \subseteq Range(Append(s, n))
BY DEF Range

LEMMA ShapeInit == DemoInit => DemoShape
<1> SUFFICES ASSUME DemoInit PROVE DemoShape
  OBVIOUS
<1>1. PICK day \in Days :
        /\ list = day.list /\ draft = day.list
        /\ record = [i \in Challenges |-> IF i \in OwnItems THEN day.own ELSE NoRecord]
        /\ rows = [l \in Contestants |-> {}]
        /\ totals = [l \in Contestants |-> 0]
        /\ count = [i \in Challenges |-> 0]
        /\ crew = [s \in {DemoTeam, OtherTeam} |-> IF s = OtherTeam THEN day.on ELSE {}]
        /\ captained = {OtherTeam}
        /\ pointer = [l \in Contestants |-> IF l \in day.on THEN OtherTeam ELSE NoTeam]
        /\ desk = [d \in Desks |-> NoRequest]
  BY DEF DemoInit
<1>2. /\ day.list \in Seq(Names \union {Fixture}) /\ Len(day.list) <= CategoriesMax
      /\ day.own \in Range(day.list) /\ day.on \subseteq Players
  BY DemoAssumption
<1>3. day.own \in Names \union {Fixture} BY <1>2 DEF Range
<1>4. Listed BY <1>1, <1>2 DEF Listed
<1>5. CrewTyped BY <1>1, <1>2 DEF CrewTyped, Contestants
<1>6. FixtureSolves BY <1>1 DEF FixtureSolves, Contestants
<1>7. DesksInOrder BY <1>1 DEF DesksInOrder
<1>8. DemoTypeOK BY <1>1, <1>2, <1>3 DEF DemoTypeOK
<1>9. QED BY <1>4, <1>5, <1>6, <1>7, <1>8 DEF DemoShape, BoardTyped

\* What a command of a request is, and does.
LEMMA CommandDoes ==
    ASSUME DemoShape, NEW d \in Desks, Command(d)
    PROVE  LET h == Head(desk[d].todo)
           IN  /\ desk[d] \in Requests /\ desk[d].todo \in Seq(AnyCommand) /\ desk[d].todo # <<>>
               /\ h \in AnyCommand /\ h \in CommandSet(desk[d].kind)
               /\ Refused(h) => UNCHANGED board
               /\ ~Refused(h) => Does(h)
               /\ UNCHANGED <<draft, uses, answer, wiped>>
BY RequestFacts, FirstAndRest DEF Command, DemoShape

LEMMA ShapeStep == DemoShape /\ [DemoNext]_demoVars => DemoShape'
<1> SUFFICES ASSUME DemoShape, [DemoNext]_demoVars PROVE DemoShape'
  OBVIOUS
<1>1. DesksInOrder' BY DesksStep DEF DemoShape
<1>2. BoardTyped /\ DesksInOrder BY DEF DemoShape
<1>3. /\ pointer \in [Contestants -> {DemoTeam, OtherTeam, NoTeam}]
      /\ crew \in [{DemoTeam, OtherTeam} -> SUBSET Contestants]
      /\ rows \in [Contestants -> SUBSET Challenges] /\ totals \in [Contestants -> Nat]
      /\ count \in [Challenges -> Nat] /\ FixtureSolves
      /\ list \in Seq(Names \union {Fixture}) /\ draft \in Seq(Names \union {Fixture}) /\ Len(list) <= CategoriesMax
  BY <1>2 DEF BoardTyped, DemoTypeOK, CrewTyped, Listed
<1>4. ASSUME UNCHANGED <<board, draft>> PROVE BoardTyped'
  BY <1>2, <1>4 DEF board, BoardTyped, DemoTypeOK, Listed, CrewTyped, FixtureSolves
<1>5. ASSUME NEW d \in Desks, Command(d) PROVE BoardTyped'
  <2> DEFINE h == Head(desk[d].todo)
  <2>1. h \in AnyCommand /\ (Refused(h) => UNCHANGED board) /\ (~Refused(h) => Does(h)) /\ UNCHANGED draft
    BY <1>5, CommandDoes
  <2> HIDE DEF h
  <2>2. CASE Refused(h) BY <1>4, <2>1, <2>2
  <2>3. CASE ~Refused(h)
    <3>1. TeamCommand(h) /\ ScoreCommand(h) /\ ContentCommand(h) BY <2>1, <2>3 DEF Does
    <3>2. QED BY <1>2, <1>3, <2>1, <2>3, <3>1, TeamsDone, ScoresDone, ContentDone DEF BoardTyped, DemoTypeOK, Listed
  <2>4. QED BY <2>2, <2>3
<1>6. ASSUME NEW l \in Players, NEW i \in Challenges, Submit(l, i) PROVE BoardTyped'
  <2>1. /\ rows' = [rows EXCEPT ![l] = @ \union {i}] /\ totals' = [totals EXCEPT ![l] = @ + 1]
        /\ count' = [count EXCEPT ![i] = @ + 1]
        /\ UNCHANGED <<record, list, crew, captained, pointer, draft>>
    BY <1>6 DEF Submit
  <2>2. /\ rows' \in [Contestants -> SUBSET Challenges] /\ totals' \in [Contestants -> Nat]
        /\ count' \in [Challenges -> Nat] BY <1>3, <2>1 DEF Contestants
  <2>3. FixtureSolves' BY <1>2, <1>6, SubmitCounts, <1>3 DEF FixtureSolves
  <2>4. QED BY <1>2, <2>1, <2>2, <2>3 DEF BoardTyped, DemoTypeOK, Listed, CrewTyped
<1>7. ASSUME ShowList PROVE BoardTyped'
  BY <1>7, <1>2, <1>3 DEF ShowList, board, BoardTyped, DemoTypeOK, Listed, CrewTyped, FixtureSolves
<1>8. ASSUME NEW n \in Names, PutList(n) PROVE BoardTyped'
  <2>1. /\ list' = Append(draft, n) /\ draft' = list' /\ Len(draft) < CategoriesMax
        /\ UNCHANGED <<rows, totals, count, record, crew, captained, pointer>>
    BY <1>8 DEF PutList
  <2>2. list' \in Seq(Names \union {Fixture}) /\ Len(list') = Len(draft) + 1 /\ Len(draft) \in Nat
    BY <1>3, <2>1, ListGrows
  <2>3. Len(list') <= CategoriesMax BY <2>1, <2>2, DemoAssumption
  <2>4. QED BY <1>2, <1>3, <2>1, <2>2, <2>3 DEF BoardTyped, DemoTypeOK, Listed, CrewTyped, FixtureSolves
<1>9. ASSUME NEW l \in Contestants, NEW s \in {DemoTeam, OtherTeam}, ForceMove(l, s) PROVE BoardTyped'
  BY <1>9, <1>3, <1>2 DEF ForceMove, CrewTyped, BoardTyped, DemoTypeOK, Listed, FixtureSolves
<1>10. BoardTyped'
  BY <1>4, <1>5, <1>6, <1>7, <1>8, <1>9 DEF DemoNext, demoVars, Request, CommandFails, RequestLost, Respond
<1>11. QED BY <1>1, <1>10 DEF DemoShape

LEMMA SameBoardStands ==
    ASSUME UNCHANGED board
    PROVE  \A c \in AnyCommand : Stands(c) => Stands(c)'
BY StandsStays DEF board, Solved

LEMMA CommandsAreSome == \A kind : CommandSet(kind) \subseteq AnyCommand
BY DEF CommandSet, AnyCommand

\* A command that runs leaves its request on the way.
LEMMA CommandOnTrack ==
    ASSUME DemoShape, RequestsOnTrack, NEW d \in Desks, Command(d)
    PROVE  RequestsOnTrack'
<1> DEFINE h == Head(desk[d].todo)
           r == Proceeds(d, Refused(h))
<1>1. /\ desk[d] \in Requests /\ desk[d].todo \in Seq(AnyCommand) /\ desk[d].todo # <<>>
      /\ h \in AnyCommand /\ h \in CommandSet(desk[d].kind)
      /\ ~Refused(h) => Does(h)
      /\ answer' = answer
  BY CommandDoes
<1>2. desk[d] # NoRequest /\ BecomesOf(d, r) /\ DesksInOrder /\ BoardTyped BY CommandMoves DEF DemoShape
<1>3. Refused(h) \in BOOLEAN BY DEF Refused
<1>4. /\ r.kind = desk[d].kind /\ r.todo = Tail(desk[d].todo) /\ r.alone = desk[d].alone
      /\ r.failed = (desk[d].failed \/ Refused(h))
  BY <1>1, <1>2, <1>3, ProceedsFacts
<1>5. /\ ToSet(desk[d].todo) = {h} \union ToSet(Tail(desk[d].todo))
      /\ desk[d].kind = "reset" => desk[d].todo \in ResetRests
      /\ desk[d].kind \in Kinds3
  BY <1>1, <1>2, FirstAndRest, RequestFacts
<1> HIDE DEF h, r
<1>6. /\ desk'[d] = r
      /\ \A e \in Desks \ {d} : desk'[e] = NoRequest \/ ~desk'[e].alone
  BY <1>2, Apart DEF BecomesOf
<1>7. AnsweredTrue' BY <1>1, <1>2 DEF RequestsOnTrack, AnsweredTrue
<1>8. ASSUME desk'[d].alone, ~desk'[d].failed, NEW c \in CommandSet(desk'[d].kind)
      PROVE  c \in ToSet(desk'[d].todo) \/ Stands(c)'
  <2>1. desk[d].alone /\ ~desk[d].failed /\ ~Refused(h) /\ c \in CommandSet(desk[d].kind) BY <1>4, <1>6, <1>8
  <2>2. c \in ToSet(desk[d].todo) \/ Stands(c) BY <1>2, <2>1 DEF RequestsOnTrack, OnTrack
  <2>3. CASE c \in ToSet(Tail(desk[d].todo)) BY <1>4, <1>6, <2>3
  <2>4. CASE c \notin ToSet(Tail(desk[d].todo))
    <3>1. Stands(c) \/ c = h BY <1>5, <2>2, <2>4
    <3>2. Does(h) BY <1>1, <2>1
    <3>3. CASE desk[d].kind = "seed" BY <1>1, <2>1, <3>3, <1>2, <3>1, <3>2, SeedKeeps DEF CommandSet
    <3>4. CASE desk[d].kind = "clear" BY <1>1, <2>1, <3>4, <1>2, <3>1, <3>2, ClearKeeps DEF CommandSet
    <3>5. CASE desk[d].kind = "reset"
      <4>1. c \in ResetSet /\ h \in ResetSet BY <1>1, <2>1, <3>5 DEF CommandSet
      <4>2. ~(c = <<"wipe", "counts">> /\ h = <<"wipe", "solves">>)
        BY <1>1, <1>5, <2>4, <3>5, ResetGoesOn DEF h
      <4>3. QED BY <1>2, <3>1, <3>2, <4>1, <4>2, ResetKeeps
    <3>6. QED BY <1>5, <3>3, <3>4, <3>5 DEF Kinds3
  <2>5. QED BY <2>3, <2>4
<1>9. ASSUME NEW e \in Desks PROVE OnTrack(e)' BY <1>8, <1>6 DEF OnTrack
<1>10. QED BY <1>7, <1>9 DEF RequestsOnTrack

\* So does a failure, and the answer is that of a request that has nothing left.
LEMMA OthersOnTrack ==
    ASSUME DemoShape, RequestsOnTrack, NEW d \in Desks, CommandFails(d) \/ RequestLost(d) \/ Respond(d)
    PROVE  RequestsOnTrack'
<1>1. PICK r : desk[d] # NoRequest /\ BecomesOf(d, r) /\ Lagging(r, d) BY OtherMoves DEF DemoShape
<1>2. /\ (desk'[d] = r /\ r.failed) \/ desk'[d] = NoRequest
      /\ \A e \in Desks \ {d} : /\ desk'[e] = NoRequest \/ ~desk'[e].alone
                                /\ desk[e] = NoRequest => desk'[e] = NoRequest
  BY <1>1, Apart DEF BecomesOf, Lagging, DemoShape
<1>3. ASSUME NEW e \in Desks PROVE OnTrack(e)' BY <1>2 DEF OnTrack
<1>4. UNCHANGED board BY DEF CommandFails, RequestLost, Respond
<1>5. AnsweredTrue'
  <2>1. CASE CommandFails(d) \/ RequestLost(d)
    BY <2>1, <1>1 DEF CommandFails, RequestLost, RequestsOnTrack, AnsweredTrue
  <2>2. CASE Respond(d)
    <3> SUFFICES ASSUME answer' # "none"
                 PROVE  /\ \A e \in Desks : desk'[e] = NoRequest
                        /\ answer' \in {"seed", "clear", "reset"} /\ \A c \in CommandSet(answer') : Stands(c)'
      BY DEF AnsweredTrue
    <3>1. /\ desk[d].todo = <<>> /\ desk[d].alone /\ ~desk[d].failed /\ answer' = desk[d].kind
          /\ \A e \in Desks \ {d} : desk[e] = NoRequest
      BY <2>2 DEF Respond
    <3>2. desk' = [Together(d) EXCEPT ![d] = NoRequest] BY <2>2 DEF Respond
    <3>3. DesksInOrder BY DEF DemoShape
    <3>4. desk'[d] = NoRequest BY <3>2, <3>3, Apart
    <3>5. ASSUME NEW c \in CommandSet(desk[d].kind) PROVE Stands(c)'
      BY <1>1, <3>1, <1>4, CommandsAreSome, SameBoardStands DEF ToSet, RequestsOnTrack, OnTrack
    <3>6. desk[d].kind \in Kinds3 BY <1>1, <3>3, RequestFacts
    <3>7. QED BY <1>2, <3>1, <3>4, <3>5, <3>6 DEF Kinds3
  <2>3. QED BY <2>1, <2>2
<1>6. QED BY <1>3, <1>5 DEF RequestsOnTrack

LEMMA OnTrackStep ==
    ASSUME "move" \notin Careless, DemoShape, RequestsOnTrack, [DemoNext]_demoVars
    PROVE  RequestsOnTrack'
<1>1. DesksInOrder /\ BoardTyped BY DEF DemoShape
<1>2. ASSUME NEW d \in Desks, NEW kind \in Kinds3, Request(d, kind) PROVE RequestsOnTrack'
  <2> DEFINE r == [kind |-> kind, todo |-> CommandsOf(kind), failed |-> FALSE,
                   alone |-> \A e \in Desks : desk[e] = NoRequest]
  <2>1. desk' = [desk EXCEPT ![d] = r] /\ answer' = "none" /\ UNCHANGED board BY <1>2 DEF Request
  <2>2. r.kind = kind /\ r.todo = CommandsOf(kind) OBVIOUS
  <2> HIDE DEF r
  <2>3. ToSet(CommandsOf(kind)) = CommandSet(kind) BY Vocabulary
  <2>4. desk'[d] = r /\ \A e \in Desks \ {d} : desk'[e] = desk[e] BY <1>1, <2>1 DEF DesksInOrder
  <2>5. ASSUME NEW e \in Desks PROVE OnTrack(e)'
    <3>1. CASE e = d BY <2>2, <2>3, <2>4, <3>1 DEF OnTrack
    <3>2. CASE e # d BY <2>4, <3>2, <2>1, CommandsAreSome, SameBoardStands DEF RequestsOnTrack, OnTrack
    <3>3. QED BY <3>1, <3>2
  <2>6. QED BY <2>1, <2>5 DEF RequestsOnTrack, AnsweredTrue
<1>3. ASSUME UNCHANGED <<desk, answer>>, \A c \in AnyCommand : Stands(c) => Stands(c)' PROVE RequestsOnTrack'
  <2>1. \A kind : CommandSet(kind) \subseteq AnyCommand BY CommandsAreSome
  <2>2. AnsweredTrue' BY <1>3, <2>1 DEF RequestsOnTrack, AnsweredTrue
  <2>3. ASSUME NEW e \in Desks PROVE OnTrack(e)' BY <1>3, <2>1 DEF RequestsOnTrack, OnTrack
  <2>4. QED BY <2>2, <2>3 DEF RequestsOnTrack
<1>4. CASE Around BY <1>4, <1>1, <1>3, AroundKeeps DEF Around, Submit, ShowList, PutList, ForceMove
<1>5. CASE UNCHANGED demoVars BY <1>3, <1>5, SameBoardStands DEF demoVars
<1>6. QED BY <1>2, <1>4, <1>5, CommandOnTrack, OthersOnTrack DEF DemoNext, Kinds3, Around

LEMMA OnTrackIsTrue == BoardTyped /\ RequestsOnTrack => AnswersTrue
<1> SUFFICES ASSUME BoardTyped, RequestsOnTrack PROVE AnswersTrue
  OBVIOUS
<1>1. AnsweredTrue BY DEF RequestsOnTrack
<1>2. ASSUME answer = "seed"
      PROVE  /\ DemoTeam \in captained /\ Demo \subseteq crew[DemoTeam]
             /\ \A l \in Demo : /\ pointer[l] = DemoTeam
                                /\ rows[l] = DemoSolves[l] /\ totals[l] = Cardinality(rows[l])
             /\ \A i \in FixtureItems : record[i] # NoRecord /\ count[i] >= Cardinality(Solvers(i))
  <2>1. \A c \in SeedSet : Stands(c) BY <1>1, <1>2 DEF AnsweredTrue, CommandSet
  <2>2. /\ <<"team", DemoTeam>> \in SeedSet /\ <<"join", DemoTeam>> \in SeedSet
        /\ <<"categories", Fixture>> \in SeedSet /\ <<"raise", DemoTeam>> \in SeedSet
    BY DEF SeedSet
  <2>3. \A l \in Demo : <<"point", l>> \in SeedSet /\ <<"solve", l>> \in SeedSet /\ <<"total", l>> \in SeedSet
    BY DEF SeedSet
  <2>4. DemoTeam \in captained BY <2>1, <2>2 DEF Stands
  <2>5. Demo \subseteq crew[DemoTeam] BY <2>1, <2>2 DEF Stands
  <2>6. \A i \in FixtureItems : record[i] # NoRecord BY <2>1, <2>2 DEF Stands
  <2>7. \A i \in FixtureItems : count[i] >= Cardinality(Solvers(i)) BY <2>1, <2>2 DEF Stands
  <2>8. ASSUME NEW l \in Demo
        PROVE  pointer[l] = DemoTeam /\ rows[l] = DemoSolves[l] /\ totals[l] = Cardinality(rows[l])
    <3>1. Stands(<<"point", l>>) /\ Stands(<<"solve", l>>) /\ Stands(<<"total", l>>) BY <2>1, <2>3
    <3>2. pointer[l] = DemoTeam BY <3>1 DEF Stands
    <3>3. rows[l] = DemoSolves[l] BY <3>1 DEF Stands
    <3>4. totals[l] = Cardinality(DemoSolves[l]) BY <3>1 DEF Stands
    <3>5. QED BY <3>2, <3>3, <3>4
  <2>9. QED BY <2>4, <2>5, <2>6, <2>7, <2>8
<1>3. ASSUME answer = "clear"
      PROVE  /\ DemoTeam \notin captained /\ crew[DemoTeam] = {}
             /\ \A l \in Demo : pointer[l] = NoTeam /\ rows[l] = {} /\ totals[l] = 0
  <2>1. \A c \in ClearSet : Stands(c) BY <1>1, <1>3 DEF AnsweredTrue, CommandSet
  <2>2. <<"no team", DemoTeam>> \in ClearSet /\ <<"no crew", DemoTeam>> \in ClearSet BY DEF ClearSet
  <2>3. DemoTeam \notin captained BY <2>1, <2>2 DEF Stands
  <2>4. crew[DemoTeam] = {} BY <2>1, <2>2 DEF Stands
  <2>5. ASSUME NEW l \in Demo PROVE pointer[l] = NoTeam /\ rows[l] = {} /\ totals[l] = 0
    <3>1. /\ <<"no pointer", l>> \in ClearSet /\ <<"no solves", l>> \in ClearSet /\ <<"no total", l>> \in ClearSet
      BY DEF ClearSet
    <3>2. Stands(<<"no pointer", l>>) /\ Stands(<<"no solves", l>>) /\ Stands(<<"no total", l>>) BY <2>1, <3>1
    <3>3. pointer[l] = NoTeam BY <3>2 DEF Stands
    <3>4. rows[l] = {} BY <3>2 DEF Stands
    <3>5. totals[l] = 0 BY <3>2 DEF Stands
    <3>6. QED BY <3>3, <3>4, <3>5
  <2>6. QED BY <2>3, <2>4, <2>5
<1>4. ASSUME answer = "reset"
      PROVE  /\ captained = {} /\ crew[DemoTeam] = {}
             /\ \A l \in Demo : pointer[l] = NoTeam /\ rows[l] = {} /\ totals[l] = 0
             /\ \A i \in Challenges : count[i] <= Cardinality({l \in Players : i \in rows[l]})
  BY <1>1, <1>4 DEF AnsweredTrue, CommandSet, ResetSet, Stands, Solved
<1>5. QED BY <1>2, <1>3, <1>4 DEF AnswersTrue

\* A command that is not the reset's leaves the others' scores alone, and lowers no count.
LEMMA CommandSpares ==
    ASSUME BoardTyped, NEW h \in SeedSet \union ClearSet, ScoreCommand(h)
    PROVE  /\ \A l \in Players : rows'[l] = rows[l] /\ totals'[l] = totals[l]
           /\ \A i \in Challenges : count'[i] >= count[i]
<1>1. /\ h \in AnyCommand /\ \A other : h # <<"wipe", other>> BY SeedTags, ClearTags
<1>2. h[1] \in {"solve", "total", "no solves", "no total"} => h[2] \in Demo BY <1>1, Tags
<1>3. Players \subseteq Contestants /\ Demo \intersect Players = {} /\ Demo \subseteq Contestants
  BY DemoAssumption DEF Contestants
<1>4. /\ rows \in [Contestants -> SUBSET Challenges] /\ totals \in [Contestants -> Nat]
      /\ count \in [Challenges -> Nat]
  BY DEF BoardTyped, DemoTypeOK
<1>5. \A l \in Players : rows'[l] = rows[l] BY <1>1, <1>2, <1>3, <1>4 DEF ScoreCommand
<1>6. \A l \in Players : totals'[l] = totals[l] BY <1>1, <1>2, <1>3, <1>4 DEF ScoreCommand
<1>7. ASSUME NEW i \in Challenges PROVE count'[i] >= count[i]
  <2>1. count[i] \in Nat /\ Cardinality(Solvers(i)) \in Nat BY <1>4, SolverCounts
  <2>2. count'[i] \in {count[i], Raised(i, Cardinality(Solvers(i)))} BY <1>1 DEF ScoreCommand
  <2>3. QED BY <2>1, <2>2 DEF Raised
<1>8. QED BY <1>5, <1>6, <1>7

\* PlayersKept, of every challenge whether or not anybody solved it.
Kept ==
    ~wiped => /\ \A l \in Players : totals[l] = Cardinality(rows[l])
              /\ \A i \in Challenges : count[i] >= Cardinality(Solved(i))

LEMMA KeptStep == DemoShape /\ Kept /\ [DemoNext]_demoVars => Kept'
<1> SUFFICES ASSUME DemoShape, Kept, [DemoNext]_demoVars PROVE Kept'
  OBVIOUS
<1>1. DesksInOrder /\ BoardTyped BY DEF DemoShape
<1>2. ASSUME wiped => wiped', UNCHANGED <<rows, totals, count>> PROVE Kept' BY <1>2 DEF Solved, Kept
<1>3. ASSUME NEW d \in Desks, Command(d) PROVE Kept'
  <2> DEFINE h == Head(desk[d].todo)
  <2>1. /\ h \in CommandSet(desk[d].kind) /\ (Refused(h) => UNCHANGED board) /\ (~Refused(h) => Does(h))
        /\ wiped' = wiped
    BY <1>3, CommandDoes
  <2>2. desk[d] # NoRequest BY <1>3 DEF Command
  <2>3. desk[d].kind = "reset" => wiped BY <1>1, <2>2, RequestFacts
  <2>4. desk[d].kind \in Kinds3 BY <1>1, <2>2, RequestFacts
  <2> HIDE DEF h
  <2>5. CASE wiped BY <2>1, <2>5 DEF Kept
  <2>6. CASE Refused(h) BY <1>2, <2>1, <2>6 DEF board
  <2>7. CASE ~wiped /\ ~Refused(h)
    <3>1. h \in SeedSet \union ClearSet BY <2>1, <2>3, <2>4, <2>7 DEF CommandSet, Kinds3
    <3>2. ScoreCommand(h) BY <2>1, <2>7 DEF Does
    <3>3. /\ \A l \in Players : rows'[l] = rows[l] /\ totals'[l] = totals[l]
          /\ \A i \in Challenges : count'[i] >= count[i]
      BY <1>1, <3>1, <3>2, CommandSpares
    <3>4. ASSUME NEW i \in Challenges PROVE count'[i] >= Cardinality(Solved(i)')
      <4>1. Solved(i)' = Solved(i) BY <3>3 DEF Solved
      <4>2. IsFiniteSet(Solved(i)) BY DemoAssumption, FS_Subset DEF Solved
      <4>3. Cardinality(Solved(i)) \in Nat BY <4>2, FS_CardinalityType
      <4>4. count[i] \in Nat BY <1>1 DEF BoardTyped, DemoTypeOK
      <4>5. h \in AnyCommand BY <3>1 DEF AnyCommand
      <4>6. count'[i] \in Nat BY <1>1, <3>2, <4>5, ScoresDone
      <4>7. count[i] >= Cardinality(Solved(i)) BY <2>7 DEF Kept
      <4>8. QED BY <3>3, <4>1, <4>3, <4>4, <4>6, <4>7
    <3>5. QED BY <2>7, <3>3, <3>4 DEF Kept
  <2>8. QED BY <2>5, <2>6, <2>7
<1>4. ASSUME NEW l \in Players, NEW i \in Challenges, Submit(l, i) PROVE Kept'
  <2>1. /\ \A j \in Challenges : /\ count'[j] - count[j] = Cardinality(Solved(j)') - Cardinality(Solved(j))
                                 /\ Cardinality(Solved(j)') \in Nat /\ Cardinality(Solved(j)) \in Nat
        /\ totals'[l] = totals[l] + 1 /\ rows'[l] = rows[l] \union {i} /\ i \notin rows[l]
        /\ \A m \in Players \ {l} : totals'[m] = totals[m] /\ rows'[m] = rows[m]
    BY <1>1, <1>4, SubmitCounts
  <2>2. wiped' = wiped /\ count' = [count EXCEPT ![i] = @ + 1] BY <1>4 DEF Submit
  <2>3. count \in [Challenges -> Nat] BY <1>1 DEF BoardTyped, DemoTypeOK
  <2>4. ASSUME ~wiped, NEW j \in Challenges PROVE count'[j] >= Cardinality(Solved(j)')
    BY <2>4, <2>2, <2>3, <2>1 DEF Kept
  <2>5. ASSUME ~wiped, NEW m \in Players PROVE totals'[m] = Cardinality(rows'[m])
    <3>1. totals[m] = Cardinality(rows[m]) BY <2>5 DEF Kept
    <3>2. CASE m # l BY <2>1, <3>1, <3>2
    <3>3. CASE m = l
      <4>1. rows[l] \subseteq Challenges BY <1>1 DEF BoardTyped, DemoTypeOK, Contestants
      <4>2. IsFiniteSet(rows[l]) BY <4>1, SolverCounts, FS_Subset
      <4>3. Cardinality(rows[l] \union {i}) = Cardinality(rows[l]) + 1 BY <2>1, <4>2, FS_AddElement
      <4>4. QED BY <2>1, <3>1, <3>3, <4>3
    <3>4. QED BY <3>2, <3>3
  <2>6. QED BY <2>2, <2>4, <2>5 DEF Kept
<1>5. ASSUME NEW d \in Desks, NEW kind \in Kinds3, Request(d, kind) PROVE Kept' BY <1>5, <1>2 DEF Request, board
<1>6. ASSUME NEW d \in Desks, CommandFails(d) \/ RequestLost(d) \/ Respond(d) PROVE Kept'
  BY <1>2, <1>6 DEF CommandFails, RequestLost, Respond, board
<1>7. ASSUME \/ ShowList \/ \E n \in Names : PutList(n)
             \/ \E l \in Contestants, s \in {DemoTeam, OtherTeam} : ForceMove(l, s)
             \/ UNCHANGED demoVars
      PROVE  Kept'
  BY <1>2, <1>7 DEF ShowList, PutList, ForceMove, demoVars, board
<1>8. QED BY <1>3, <1>4, <1>5, <1>6, <1>7 DEF DemoNext, Kinds3

LEMMA KeptInit == DemoInit => Kept
<1> SUFFICES ASSUME DemoInit PROVE Kept
  OBVIOUS
<1>1. /\ rows = [l \in Contestants |-> {}] /\ totals = [l \in Contestants |-> 0]
      /\ count = [i \in Challenges |-> 0]
  BY DEF DemoInit
<1>2. \A l \in Players : totals[l] = Cardinality(rows[l]) BY <1>1, FS_EmptySet DEF Contestants
<1>3. ASSUME NEW i \in Challenges PROVE count[i] >= Cardinality(Solved(i))
  BY <1>1, FS_EmptySet DEF Solved, Contestants
<1>4. QED BY <1>2, <1>3 DEF Kept

LEMMA KeptIsKept == DemoShape /\ Kept => PlayersKept
BY DEF DemoShape, BoardTyped, DemoTypeOK, Contestants, Kept, PlayersKept, Solved

\* A category stays in the list, and an organizer who looks puts back no less than is there.
LEMMA OnTheBoardStep ==
    ASSUME "list" \notin Careless, DemoShape, OnTheBoard, [DemoNext]_demoVars
    PROVE  OnTheBoard'
<1>1. BoardTyped BY DEF DemoShape
<1>2. ASSUME UNCHANGED <<list, record>> PROVE OnTheBoard' BY <1>2 DEF OnTheBoard
<1>3. ASSUME NEW d \in Desks, Command(d) PROVE OnTheBoard'
  BY <1>3, CommandDoes, <1>2, <1>1, ContentDone DEF board, Does
<1>4. ASSUME NEW n \in Names, PutList(n) PROVE OnTheBoard'
  BY <1>4, <1>1, ListGrows DEF PutList, BoardTyped, Listed, OnTheBoard
<1>5. QED
  BY <1>2, <1>3, <1>4
  DEF DemoNext, demoVars, board, Request, CommandFails, RequestLost, Respond, Submit, ShowList, ForceMove

LEMMA OnTheBoardInit == DemoInit => OnTheBoard
BY DemoAssumption DEF DemoInit, OnTheBoard

LEMMA OnTrackInit == DemoInit => RequestsOnTrack
BY DEF DemoInit, RequestsOnTrack, AnsweredTrue, OnTrack

(***************************************************************************)
(* The theorems.                                                             *)
(***************************************************************************)
\* Whatever runs together and fails, the state has its shape: solves of the fixture's
\* contestants are the fixture's, and a request holds what it has still to do.
THEOREM DemoKeepsShape == DemoSpec => []DemoShape
<1>1. QED BY ShapeInit, ShapeStep, PTL DEF DemoSpec

\* No seed and no clear touches a contestant who is not the fixture's, and their solves
\* stay in the public count until an organizer resets the event, however requests
\* overlap, fail, and are asked again.
THEOREM PlayersAreKept == DemoSpec => []PlayersKept
<1>1. DemoInit => DemoShape /\ Kept BY ShapeInit, KeptInit
<1>2. DemoShape /\ Kept /\ [DemoNext]_demoVars => (DemoShape /\ Kept)' BY ShapeStep, KeptStep
<1>3. QED BY <1>1, <1>2, KeptIsKept, PTL DEF DemoSpec

\* A challenge's category is in the list, whoever edits the list amid a seed, as long as
\* organizers edit the list that is there.
THEOREM CategoriesListed ==
    ASSUME "list" \notin Careless
    PROVE  DemoSpec => []OnTheBoard
<1>1. DemoInit => DemoShape /\ OnTheBoard BY ShapeInit, OnTheBoardInit
<1>2. DemoShape /\ OnTheBoard /\ [DemoNext]_demoVars => (DemoShape /\ OnTheBoard)' BY ShapeStep, OnTheBoardStep
<1>3. QED BY <1>1, <1>2, PTL DEF DemoSpec

\* What an answered request says is so, as long as organizers leave the fixture's team and
\* contestants alone while they move players.
THEOREM DemoAnswersTrue ==
    ASSUME "move" \notin Careless
    PROVE  DemoSpec => []AnswersTrue
<1>1. DemoInit => DemoShape /\ RequestsOnTrack BY ShapeInit, OnTrackInit
<1>2. DemoShape /\ RequestsOnTrack /\ [DemoNext]_demoVars => (DemoShape /\ RequestsOnTrack)'
  BY ShapeStep, OnTrackStep
<1>3. DemoShape /\ RequestsOnTrack => AnswersTrue BY OnTrackIsTrue DEF DemoShape
<1>4. QED BY <1>1, <1>2, <1>3, PTL DEF DemoSpec

\* The fixture's invariant, of organizers who look before they edit and move.
THEOREM DemoHolds ==
    ASSUME "list" \notin Careless, "move" \notin Careless
    PROVE  DemoSpec => []DemoInv
<1>1. DemoSpec => []OnTheBoard BY CategoriesListed
<1>2. DemoSpec => []AnswersTrue BY DemoAnswersTrue
<1>3. DemoShape => DemoTypeOK BY DEF DemoShape, BoardTyped
<1>4. QED BY <1>1, <1>2, <1>3, DemoKeepsShape, PlayersAreKept, PTL DEF DemoInv

(***************************************************************************)
(* Provision: what a command has ahead of it, and what it has done.          *)
(***************************************************************************)
AllSteps == {"fork", "ctf-branch", "drop-old", "protect", "workflow", "disable-inherited", "pr-template", "vapp-dockerfile"}
OnFork == {"eligible", "hide", "preflight", "visible", "flip", "grant"}
Once == {"mirror", "package", "refuse", "wait"}
Instr == ({"check", "apply", "cell", "verify"} \X AllSteps \X Forks)
         \union (OnFork \X {"none"} \X Forks)
         \union (Once \X {"none"} \X {"none"}) \union ({"box"} \X {"private", "doctor"} \X {"none"})
Versions == Checkouts \union {Absent}
ForkType == {k \in [made : BOOLEAN, attached : BOOLEAN, public : BOOLEAN, done : SUBSET (AllSteps \union {"branch"}),
                    version : Versions, indexed : BOOLEAN, active : BOOLEAN, visited : BOOLEAN, refused : BOOLEAN,
                    newest : Versions, shut : BOOLEAN] : k.version <= k.newest}
SawType == [visited : BOOLEAN, version : Versions]
TermType == [cmd : Commands, v : Checkouts, todo : Seq(Instr), box : {"unknown", "launched", "not-launched"},
             pending : SUBSET Forks, clean : BOOLEAN, early : BOOLEAN, saw : SawType]
SaidType == [cmd : Commands, v : Checkouts, pending : SUBSET Forks, clean : BOOLEAN, early : BOOLEAN]

ProvTyped ==
    /\ fork \in [Forks -> ForkType] /\ package \in {"none", "private"} /\ launched \in BOOLEAN
    /\ term \in [Terminals -> TermType \union {NoCommand}]
    /\ told \in [Commands -> SaidType \union {Silent}] /\ weakened \subseteq Forks

\* What a list of instructions promises of its order.
ReadOf(op) == CASE op = "apply" -> "check" [] op = "hide" -> "eligible" [] op = "flip" -> "visible"
WriteOf(op) == CASE op = "check" -> "apply" [] op = "eligible" -> "hide" [] op = "visible" -> "flip"
Paired(todo) ==
    /\ \A p \in 1..Len(todo) : todo[p][1] \in {"check", "eligible", "visible"} =>
          p + 1 \in 1..Len(todo) /\ todo[p + 1] = <<WriteOf(todo[p][1]), todo[p][2], todo[p][3]>>
    /\ \A p \in 2..Len(todo) : todo[p][1] \in {"apply", "hide", "flip"} =>
          todo[p - 1] = <<ReadOf(todo[p][1]), todo[p][2], todo[p][3]>>
Coming(todo, i) == \E p \in 1..Len(todo) : todo[p] = i
Earlier(todo, q, i) == \E p \in 1..Len(todo) : p < q /\ todo[p] = i

\* Nothing but hiding follows the question whether the event is launched, nothing but cells
\* and grants doctor's.
Following(step) == IF step = "private" THEN {"eligible", "hide"} ELSE {"cell", "grant"}
BoxLeads(todo) == \A q, p \in 1..Len(todo) :
    todo[q][1] = "box" /\ q < p => todo[p][1] \in Following(todo[q][2])

\* A step that is done, and stays it, of a fork as it is; a fork that was opened; and a
\* protection that is put off.
HoldsOn(k, f, s, v) ==
    CASE ~AppliesTo(f, s) -> TRUE
      [] s = "fork" -> k.made
      [] s = "workflow" -> k.version >= v
      [] s = "disable-inherited" -> k.made /\ ~k.active
      [] OTHER -> s \in k.done
KeptOn(k, W, f, s, v) == \/ HoldsOn(k, f, s, v) /\ (s = "disable-inherited" => k.indexed)
                         \/ s = "workflow" /\ k.newest >= v
                         \/ s = "protect" /\ f \in W
OpenOn(k, L) == L /\ (k.public \/ k.shut)
PutOffOn(k, L, f, s, pending) == s = "protect" /\ f \in pending /\ (L \/ ~k.public)

(* T is a running command; K, W, P and L the forks, the weakened ones, the package and whether
   the event is launched. *)

\* The box is asked before anything is hidden, the wait is over before anything is opened,
\* and a fork is there before its inherited workflows are looked at.
BoxFirst(T) == \A q \in 1..Len(T.todo) : T.todo[q][1] = "hide" =>
    T.box = "not-launched" \/ Earlier(T.todo, q, <<"box", "private", "none">>)
WaitFirst(T, L) == \A q \in 1..Len(T.todo) : T.todo[q][1] \in {"visible", "flip"} =>
    L \/ Earlier(T.todo, q, <<"wait", "none", "none">>)
ForkFirst(T, K) == T.cmd = "org" => \A f \in Forks, q \in 1..Len(T.todo) :
    T.todo[q] \in {<<"check", "disable-inherited", f>>, <<"apply", "disable-inherited", f>>} =>
        K[f].made \/ Earlier(T.todo, q, <<"check", "fork", f>>) \/ Earlier(T.todo, q, <<"apply", "fork", f>>)

\* What was read before a write that hides a fork, or puts another workflow on it.
NextIs(T, i) == T.todo # <<>> /\ T.todo[1] = i
SeenFirst(T) == \A f \in Forks :
    /\ NextIs(T, <<"hide", "none", f>>) => ~T.saw.visited
    /\ NextIs(T, <<"apply", "workflow", f>>) => T.saw.version < T.v
Indexed(T, K) == T.cmd = "org" /\ ~T.early => \A f \in Forks :
    NextIs(T, <<"apply", "disable-inherited", f>>) => K[f].made /\ K[f].indexed

\* What a command is to do is ahead of it, or done.
OrgMirrors(T, P) == T.cmd = "org" => P # "none" \/ Coming(T.todo, <<"mirror", "none", "none">>)
OrgCovers(T, K, W, L) == T.cmd = "org" /\ T.clean /\ ~T.early => \A f \in Forks, s \in AllSteps :
    \/ Coming(T.todo, <<"check", s, f>>) \/ NextIs(T, <<"apply", s, f>>)
    \/ KeptOn(K[f], W, f, s, T.v) \/ PutOffOn(K[f], L, f, s, T.pending)
LaunchCovers(T, K, W, L) == T.cmd = "launch" =>
    /\ L \/ Coming(T.todo, <<"wait", "none", "none">>)
    /\ \A f \in Forks :
          /\ Coming(T.todo, <<"visible", "none", f>>) \/ NextIs(T, <<"flip", "none", f>>) \/ OpenOn(K[f], L)
          /\ Coming(T.todo, <<"verify", "protect", f>>) \/ KeptOn(K[f], W, f, "protect", T.v)
DoctorCovers(T, K, W) == T.cmd = "doctor" /\ T.clean /\ ~T.early => \A f \in Forks, s \in AllSteps :
    Coming(T.todo, <<"cell", s, f>>) \/ KeptOn(K[f], W, f, s, T.v) \/ (s = "protect" /\ f \in T.pending)

TermInv(T, K, W, P, L) ==
    /\ Paired(T.todo) /\ BoxLeads(T.todo) /\ BoxFirst(T) /\ WaitFirst(T, L) /\ ForkFirst(T, K)
    /\ SeenFirst(T) /\ Indexed(T, K)
    /\ OrgMirrors(T, P) /\ OrgCovers(T, K, W, L) /\ LaunchCovers(T, K, W, L) /\ DoctorCovers(T, K, W)
ToldTrue ==
    /\ Sure("org") => package # "none" /\ \A f \in Forks, s \in AllSteps :
          KeptOn(fork[f], weakened, f, s, told["org"].v) \/ PutOffOn(fork[f], launched, f, s, told["org"].pending)
    /\ Sure("doctor") => \A f \in Forks, s \in AllSteps :
          KeptOn(fork[f], weakened, f, s, told["doctor"].v) \/ (s = "protect" /\ f \in told["doctor"].pending)
    /\ told["launch"] # Silent => \A f \in Forks :
          OpenOn(fork[f], launched) /\ KeptOn(fork[f], weakened, f, "protect", told["launch"].v)
RunInv ==
    /\ ToldTrue
    /\ \A t \in Terminals : Running(t) => TermInv(term[t], fork, weakened, package, launched)

LEMMA Blocks ==
    ASSUME NEW L \in Nat, NEW n \in {1, 2, 4, 8, 16}
    PROVE  /\ \A k \in 1..n * L : ((k - 1) % n) + 1 \in 1..n /\ ((k - 1) \div n) + 1 \in 1..L
                                  /\ k = ((k - 1) \div n) * n + ((k - 1) % n) + 1
           /\ \A j \in 1..L, i \in 1..n : (j - 1) * n + i \in 1..n * L
                                          /\ (((j - 1) * n + i - 1) % n) + 1 = i
                                          /\ (((j - 1) * n + i - 1) \div n) + 1 = j
OBVIOUS

\* On each fork, all of it, in its order.
EachShape(E, N, kinds, n) ==
    /\ N \in Nat /\ E = [k \in 1..N |-> E[k]]
    /\ \A k \in 1..N : \E i \in 1..n, f \in Forks :
          /\ E[k] = <<kinds[i][1], kinds[i][2], f>>
          /\ \A m \in 1..n : k - i + m \in 1..N /\ E[k - i + m] = <<kinds[m][1], kinds[m][2], f>>
    /\ \A f \in Forks, i \in 1..n : \E k \in 1..N : E[k] = <<kinds[i][1], kinds[i][2], f>>

LEMMA EachIs ==
    ASSUME NEW kinds, NEW n \in {1, 2, 4, 8, 16}, Len(kinds) = n
    PROVE  EachShape(OnEach(kinds), n * Len(Targets), kinds, n)
<1> DEFINE L == Len(Targets)
           at(k) == ((k - 1) % n) + 1
           of(k) == ((k - 1) \div n) + 1
           E == OnEach(kinds)
<1>1. L \in Nat /\ DOMAIN Targets = 1..L /\ \A j \in 1..L : Targets[j] \in Forks BY ProvAssumption
<1>2. \A f \in Forks : \E j \in 1..L : Targets[j] = f BY <1>1 DEF Forks, ToSet
<1>3. /\ \A k \in 1..n * L : at(k) \in 1..n /\ of(k) \in 1..L /\ k = (of(k) - 1) * n + at(k)
      /\ \A j \in 1..L, i \in 1..n : (j - 1) * n + i \in 1..n * L /\ at((j - 1) * n + i) = i /\ of((j - 1) * n + i) = j
  BY <1>1, Blocks
<1>4. E = [k \in 1..n * L |-> <<kinds[at(k)][1], kinds[at(k)][2], Targets[of(k)]>>] BY DEF OnEach
<1> HIDE DEF at, of
<1>5. \A k \in 1..n * L : E[k] = <<kinds[at(k)][1], kinds[at(k)][2], Targets[of(k)]>> BY <1>4
<1>6. E = [k \in 1..n * L |-> E[k]] BY <1>4
<1> HIDE DEF E
<1>7. n * L \in Nat BY <1>1
<1>8. \A j \in 1..L, m \in 1..n : E[(j - 1) * n + m] = <<kinds[m][1], kinds[m][2], Targets[j]>> BY <1>3, <1>5
<1>9. ASSUME NEW k \in 1..n * L
      PROVE  \E i \in 1..n, f \in Forks :
                 /\ E[k] = <<kinds[i][1], kinds[i][2], f>>
                 /\ \A m \in 1..n : k - i + m \in 1..n * L /\ E[k - i + m] = <<kinds[m][1], kinds[m][2], f>>
  <2> DEFINE i == at(k)
             j == of(k)
             base == (j - 1) * n
  <2>1. i \in 1..n /\ j \in 1..L /\ k = base + i BY <1>3
  <2>2. base \in Int BY <1>1, <2>1
  <2>3. \A m \in 1..n : base + m \in 1..n * L /\ E[base + m] = <<kinds[m][1], kinds[m][2], Targets[j]>>
    BY <1>3, <1>8, <2>1
  <2> HIDE DEF i, base
  <2>4. \A m \in 1..n : k - i + m = base + m BY <2>1, <2>2
  <2> DEFINE f == Targets[j]
  <2>5. f \in Forks BY <1>1, <2>1
  <2>6. E[k] = <<kinds[i][1], kinds[i][2], f>> BY <2>1, <2>3
  <2>7. \A m \in 1..n : k - i + m \in 1..n * L /\ E[k - i + m] = <<kinds[m][1], kinds[m][2], f>> BY <2>3, <2>4
  <2> HIDE DEF f
  <2>8. i \in 1..n BY <2>1
  <2>9. QED BY <2>5, <2>6, <2>7, <2>8, ZenonT(40)
<1>10. ASSUME NEW f \in Forks, NEW i \in 1..n PROVE \E k \in 1..n * L : E[k] = <<kinds[i][1], kinds[i][2], f>>
  <2>1. PICK j \in 1..L : Targets[j] = f BY <1>2
  <2>2. QED BY <1>3, <1>8, <2>1
<1> DEFINE N == n * L
<1> HIDE DEF N
<1>11. EachShape(E, N, kinds, n) BY <1>6, <1>7, <1>9, <1>10 DEF EachShape, N
<1>12. QED BY <1>11 DEF E, N

\* A list that starts with no write, and whose writes follow their reads.
Writes == {"apply", "hide", "flip"}
Reads == {"check", "eligible", "visible"}
Plan(todo) ==
    /\ todo \in Seq(Instr) /\ Paired(todo)
    /\ todo # <<>> => todo[1][1] \notin Writes
OrderIn(todo, ops, i) == \A q \in 1..Len(todo) : todo[q][1] \in ops => Earlier(todo, q, i)
Within(todo, ops) == \A q \in 1..Len(todo) : todo[q][1] \in ops
ForksFirst(todo) == \A f \in Forks, q \in 1..Len(todo) :
    todo[q] \in {<<"check", "disable-inherited", f>>, <<"apply", "disable-inherited", f>>} =>
        Earlier(todo, q, <<"check", "fork", f>>)

LEMMA EachPlans ==
    ASSUME NEW kinds, NEW n \in {1, 2, 4, 8, 16}, Len(kinds) = n,
           \A i \in 1..n, f \in Forks : <<kinds[i][1], kinds[i][2], f>> \in Instr,
           \A i \in 1..n : kinds[i][1] \in Reads =>
               i + 1 \in 1..n /\ kinds[i + 1][1] = WriteOf(kinds[i][1]) /\ kinds[i + 1][2] = kinds[i][2],
           \A i \in 1..n : kinds[i][1] \in Writes =>
               i - 1 \in 1..n /\ kinds[i - 1][1] = ReadOf(kinds[i][1]) /\ kinds[i - 1][2] = kinds[i][2]
    PROVE  /\ Plan(OnEach(kinds))
           /\ \A i \in 1..n, f \in Forks : Coming(OnEach(kinds), <<kinds[i][1], kinds[i][2], f>>)
           /\ \A ops, i : (\A m \in 1..n : kinds[m][1] \notin ops) => OrderIn(OnEach(kinds), ops, i)
           /\ \A ops : (\A m \in 1..n : kinds[m][1] \in ops) => Within(OnEach(kinds), ops)
           /\ (\A m \in 1..n : kinds[m][2] = "disable-inherited" => m > 1 /\ kinds[1][1] = "check" /\ kinds[1][2] = "fork") =>
                 ForksFirst(OnEach(kinds))
<1> DEFINE E == OnEach(kinds)
           N == n * Len(Targets)
<1>0. EachShape(E, N, kinds, n) BY EachIs
<1> HIDE DEF E, N
<1>1. N \in Nat /\ E = [k \in 1..N |-> E[k]] BY <1>0 DEF EachShape
<1>2. \A k \in 1..N : \E i \in 1..n, f \in Forks :
         /\ E[k] = <<kinds[i][1], kinds[i][2], f>>
         /\ \A m \in 1..n : k - i + m \in 1..N /\ E[k - i + m] = <<kinds[m][1], kinds[m][2], f>>
  BY <1>0 DEF EachShape
<1>3. \A f \in Forks, i \in 1..n : \E k \in 1..N : E[k] = <<kinds[i][1], kinds[i][2], f>> BY <1>0 DEF EachShape
<1>4. ASSUME NEW k \in 1..N PROVE E[k] \in Instr
  <2>1. PICK i \in 1..n, f \in Forks : E[k] = <<kinds[i][1], kinds[i][2], f>> BY <1>2
  <2>2. QED BY <2>1
<1>5. E \in Seq(Instr) /\ Len(E) = N BY <1>1, <1>4
<1>6. ASSUME NEW k \in 1..N, E[k][1] \in Reads
      PROVE  k + 1 \in 1..N /\ E[k + 1] = <<WriteOf(E[k][1]), E[k][2], E[k][3]>>
  <2>1. PICK i \in 1..n, f \in Forks :
         /\ E[k] = <<kinds[i][1], kinds[i][2], f>>
         /\ \A m \in 1..n : k - i + m \in 1..N /\ E[k - i + m] = <<kinds[m][1], kinds[m][2], f>>
    BY <1>2
  <2>2. E[k][1] = kinds[i][1] /\ E[k][2] = kinds[i][2] /\ E[k][3] = f BY <2>1
  <2>3. i + 1 \in 1..n /\ kinds[i + 1][1] = WriteOf(kinds[i][1]) /\ kinds[i + 1][2] = kinds[i][2] BY <1>6, <2>2
  <2>4. k - i + (i + 1) = k + 1 BY <1>1
  <2>5. QED BY <2>1, <2>2, <2>3, <2>4
<1>7. ASSUME NEW k \in 1..N, E[k][1] \in Writes
      PROVE  k - 1 \in 1..N /\ E[k - 1] = <<ReadOf(E[k][1]), E[k][2], E[k][3]>>
  <2>1. PICK i \in 1..n, f \in Forks :
         /\ E[k] = <<kinds[i][1], kinds[i][2], f>>
         /\ \A m \in 1..n : k - i + m \in 1..N /\ E[k - i + m] = <<kinds[m][1], kinds[m][2], f>>
    BY <1>2
  <2>2. E[k][1] = kinds[i][1] /\ E[k][2] = kinds[i][2] /\ E[k][3] = f BY <2>1
  <2>3. i - 1 \in 1..n /\ kinds[i - 1][1] = ReadOf(kinds[i][1]) /\ kinds[i - 1][2] = kinds[i][2] BY <1>7, <2>2
  <2>4. k - i + (i - 1) = k - 1 BY <1>1
  <2>5. QED BY <2>1, <2>2, <2>3, <2>4
<1>8. Plan(E)
  <2>1. Paired(E) BY <1>5, <1>6, <1>7 DEF Paired, Reads, Writes
  <2>2. ASSUME E # <<>>, E[1][1] \in Writes PROVE FALSE
    <3>1. 1 \in 1..N BY <1>1, <1>5, <2>2
    <3>2. QED BY <1>7, <2>2, <3>1
  <2>3. QED BY <1>5, <2>1, <2>2 DEF Plan
<1>9. \A i \in 1..n, f \in Forks : Coming(E, <<kinds[i][1], kinds[i][2], f>>) BY <1>3, <1>5 DEF Coming
<1>10. ASSUME NEW ops, NEW i, \A m \in 1..n : kinds[m][1] \notin ops PROVE OrderIn(E, ops, i)
  BY <1>5, <1>2, <1>10 DEF OrderIn
<1>11. ASSUME \A m \in 1..n : kinds[m][2] = "disable-inherited" => m > 1 /\ kinds[1][1] = "check" /\ kinds[1][2] = "fork"
       PROVE  ForksFirst(E)
  <2> SUFFICES ASSUME NEW f \in Forks, NEW q \in 1..N,
                      E[q] \in {<<"check", "disable-inherited", f>>, <<"apply", "disable-inherited", f>>}
               PROVE  Earlier(E, q, <<"check", "fork", f>>)
    BY <1>5 DEF ForksFirst
  <2>1. PICK i \in 1..n, g \in Forks :
         /\ E[q] = <<kinds[i][1], kinds[i][2], g>>
         /\ \A m \in 1..n : q - i + m \in 1..N /\ E[q - i + m] = <<kinds[m][1], kinds[m][2], g>>
    BY <1>2
  <2>2. g = f /\ kinds[i][2] = "disable-inherited" BY <2>1
  <2>3. i > 1 /\ kinds[1][1] = "check" /\ kinds[1][2] = "fork" BY <1>11, <2>2
  <2>4. 1 \in 1..n /\ q - i + 1 < q BY <1>1, <2>3
  <2>5. q - i + 1 \in 1..N /\ E[q - i + 1] = <<"check", "fork", f>> BY <2>1, <2>2, <2>3, <2>4
  <2>6. QED BY <1>5, <2>4, <2>5 DEF Earlier
<1>13. ASSUME NEW ops, \A m \in 1..n : kinds[m][1] \in ops PROVE Within(E, ops)
  <2> SUFFICES ASSUME NEW q \in 1..N PROVE E[q][1] \in ops BY <1>5 DEF Within
  <2>1. PICK m \in 1..n, f \in Forks : E[q] = <<kinds[m][1], kinds[m][2], f>> BY <1>2
  <2>2. QED BY <1>13, <2>1
<1>12. QED BY <1>8, <1>9, <1>10, <1>11, <1>13 DEF E

LEMMA JoinPlans ==
    ASSUME NEW a, NEW b, Plan(a), Plan(b)
    PROVE  /\ Plan(a \o b)
           /\ \A i : Coming(a, i) \/ Coming(b, i) => Coming(a \o b, i)
           /\ \A ops, i : OrderIn(a, ops, i) /\ (OrderIn(b, ops, i) \/ Coming(a, i)) => OrderIn(a \o b, ops, i)
           /\ ForksFirst(a) /\ ForksFirst(b) => ForksFirst(a \o b)
           /\ \A ops : Within(a, ops) /\ Within(b, ops) => Within(a \o b, ops)
           /\ \A ops : Within(a, ops) /\ "box" \notin ops /\ BoxLeads(b) => BoxLeads(a \o b)
<1> DEFINE s == a \o b
           m == Len(a)
           n == Len(b)
<1>1. a \in Seq(Instr) /\ b \in Seq(Instr) /\ m \in Nat /\ n \in Nat BY DEF Plan
<1>2. s \in Seq(Instr) /\ Len(s) = m + n
      /\ \A q \in 1..m + n : s[q] = IF q <= m THEN a[q] ELSE b[q - m]
  BY <1>1, ConcatProperties
<1> HIDE DEF s
<1>3. \A q \in 1..m : q \in 1..m + n /\ s[q] = a[q] BY <1>1, <1>2
<1>4. \A q \in 1..n : q + m \in 1..m + n /\ s[q + m] = b[q] BY <1>1, <1>2
<1>5. \A q \in 1..m + n : q \in 1..m \/ (q - m \in 1..n /\ q - m + m = q) BY <1>1
<1>6. m > 0 => m \in 1..m BY <1>1
<1>7. n > 0 => b[1][1] \notin Writes BY <1>1 DEF Plan
<1>8. m > 0 => a[1][1] \notin Writes BY <1>1 DEF Plan
<1> DEFINE after(p, t) == t[p][1] \in Reads => p + 1 \in 1..Len(t) /\ t[p + 1] = <<WriteOf(t[p][1]), t[p][2], t[p][3]>>
           ahead(p, t) == t[p][1] \in Writes => t[p - 1] = <<ReadOf(t[p][1]), t[p][2], t[p][3]>>
<1>9. /\ \A p \in 1..m : after(p, a)
      /\ \A p \in 2..m : ahead(p, a)
      /\ \A p \in 1..n : after(p, b)
      /\ \A p \in 2..n : ahead(p, b)
  BY DEF Plan, Paired, Reads, Writes
<1>10. ASSUME NEW p \in 1..m + n PROVE after(p, s)
  <2>1. CASE p \in 1..m BY <1>9, <2>1, <1>3, <1>1, <1>2
  <2>2. CASE p - m \in 1..n /\ p - m + m = p
    <3> DEFINE r == p - m
    <3>1. after(r, b) BY <1>9, <2>2
    <3>2. s[p] = b[r] BY <1>4, <2>2
    <3>3. r + 1 \in 1..n => s[r + 1 + m] = b[r + 1] /\ r + 1 + m \in 1..m + n BY <1>4
    <3>4. r + 1 + m = p + 1 BY <1>1
    <3> HIDE DEF r
    <3>5. QED BY <1>2, <3>1, <3>2, <3>3, <3>4
  <2>3. QED BY <1>5, <2>1, <2>2
<1>11. ASSUME NEW p \in 2..m + n PROVE ahead(p, s)
  <2>1. CASE p \in 1..m
    <3>1. ahead(p, a) /\ p - 1 \in 1..m BY <1>1, <1>9, <2>1
    <3>2. QED BY <1>3, <2>1, <3>1
  <2>2. CASE p - m \in 2..n /\ p - m + m = p
    <3> DEFINE r == p - m
    <3>0. r \in 1..n /\ r - 1 \in 1..n BY <1>1, <2>2
    <3>1. ahead(r, b) BY <1>9, <2>2
    <3>2. s[p] = b[r] BY <1>4, <2>2
    <3>3. s[r - 1 + m] = b[r - 1] BY <1>4, <3>0
    <3>4. r - 1 + m = p - 1 BY <1>1
    <3> HIDE DEF r
    <3>5. QED BY <3>1, <3>2, <3>3, <3>4
  <2>3. CASE p - m = 1 /\ n > 0 BY <1>1, <1>4, <2>3, <1>7
  <2>4. QED BY <1>1, <1>5, <2>1, <2>2, <2>3
<1>12. Paired(s) BY <1>1, <1>2, <1>10, <1>11 DEF Paired, Reads, Writes
<1>13. s # <<>> => s[1][1] \notin Writes BY <1>1, <1>3, <1>8, <1>4, <1>7, <1>2
<1>14. Plan(s) BY <1>2, <1>12, <1>13 DEF Plan
<1>15. \A i : Coming(a, i) \/ Coming(b, i) => Coming(s, i) BY <1>2, <1>3, <1>4 DEF Coming
<1>16. \A q \in 1..m : \A i : Earlier(a, q, i) => Earlier(s, q, i) BY <1>2, <1>3 DEF Earlier
<1>17. \A q \in 1..n : \A i : Earlier(b, q, i) => Earlier(s, q + m, i)
  <2> SUFFICES ASSUME NEW q \in 1..n, NEW i, Earlier(b, q, i) PROVE Earlier(s, q + m, i) OBVIOUS
  <2>1. PICK p \in 1..n : p < q /\ b[p] = i BY DEF Earlier
  <2>2. p + m < q + m /\ s[p + m] = i /\ p + m \in 1..m + n BY <1>1, <1>4, <2>1
  <2>3. QED BY <1>2, <2>2 DEF Earlier
<1>18. \A q \in 1..n : \A i : Coming(a, i) => Earlier(s, q + m, i) BY <1>1, <1>3, <1>2 DEF Coming, Earlier
<1>19. ASSUME NEW ops, NEW i, OrderIn(a, ops, i), OrderIn(b, ops, i) \/ Coming(a, i) PROVE OrderIn(s, ops, i)
  <2> SUFFICES ASSUME NEW q \in 1..m + n, s[q][1] \in ops PROVE Earlier(s, q, i) BY <1>2 DEF OrderIn
  <2>1. CASE q \in 1..m BY <1>3, <1>16, <1>19, <2>1 DEF OrderIn
  <2>2. CASE q - m \in 1..n /\ q - m + m = q BY <1>4, <2>2, <1>19, <1>17, <1>18 DEF OrderIn
  <2>3. QED BY <1>5, <2>1, <2>2
<1>20. ASSUME ForksFirst(a), ForksFirst(b) PROVE ForksFirst(s)
  <2> SUFFICES ASSUME NEW f \in Forks, NEW q \in 1..m + n,
                      s[q] \in {<<"check", "disable-inherited", f>>, <<"apply", "disable-inherited", f>>}
               PROVE  Earlier(s, q, <<"check", "fork", f>>)
    BY <1>2 DEF ForksFirst
  <2>1. CASE q \in 1..m BY <1>3, <1>16, <1>20, <2>1 DEF ForksFirst
  <2>2. CASE q - m \in 1..n /\ q - m + m = q BY <1>4, <2>2, <1>20, <1>17 DEF ForksFirst
  <2>3. QED BY <1>5, <2>1, <2>2
<1>22. ASSUME NEW ops, Within(a, ops), Within(b, ops) PROVE Within(s, ops)
  <2> SUFFICES ASSUME NEW q \in 1..m + n PROVE s[q][1] \in ops BY <1>2 DEF Within
  <2>1. CASE q \in 1..m BY <1>3, <1>22, <2>1 DEF Within
  <2>2. CASE q - m \in 1..n /\ q - m + m = q BY <1>4, <2>2, <1>22 DEF Within
  <2>3. QED BY <1>5, <2>1, <2>2
<1>23. ASSUME NEW ops, Within(a, ops), "box" \notin ops, BoxLeads(b) PROVE BoxLeads(s)
  <2> SUFFICES ASSUME NEW q \in 1..m + n, NEW p \in 1..m + n, s[q][1] = "box", q < p
               PROVE  s[p][1] \in Following(s[q][2])
    BY <1>2 DEF BoxLeads
  <2>1. q \notin 1..m BY <1>3, <1>23 DEF Within
  <2>2. q - m \in 1..n /\ q - m + m = q BY <1>5, <2>1
  <2>3. p \notin 1..m /\ q - m < p - m BY <1>1, <2>1
  <2>4. p - m \in 1..n /\ p - m + m = p BY <1>5, <2>3
  <2>5. s[q] = b[q - m] /\ s[p] = b[p - m] BY <1>4, <2>2, <2>4
  <2>6. QED BY <1>23, <2>2, <2>3, <2>4, <2>5 DEF BoxLeads
<1>21. QED BY <1>14, <1>15, <1>19, <1>20, <1>22, <1>23 DEF s

\* One instruction that is neither read nor write.
LEMMA OnePlans ==
    ASSUME NEW i \in Instr, i[1] \notin Reads \union Writes
    PROVE  /\ Plan(<<i>>) /\ Coming(<<i>>, i)
           /\ \A ops, j : i[1] \notin ops => OrderIn(<<i>>, ops, j)
           /\ i[2] # "disable-inherited" => ForksFirst(<<i>>)
           /\ \A ops : i[1] \in ops => Within(<<i>>, ops)
<1>1. <<i>> \in Seq(Instr) /\ Len(<<i>>) = 1 /\ <<i>>[1] = i OBVIOUS
<1>2. Paired(<<i>>) BY <1>1 DEF Paired, Reads, Writes
<1>3. Plan(<<i>>) BY <1>1, <1>2 DEF Plan
<1>4. Coming(<<i>>, i) BY <1>1 DEF Coming
<1>5. \A ops, j : i[1] \notin ops => OrderIn(<<i>>, ops, j) BY <1>1 DEF OrderIn
<1>6. i[2] # "disable-inherited" => ForksFirst(<<i>>) BY <1>1 DEF ForksFirst
<1>7. \A ops : i[1] \in ops => Within(<<i>>, ops) BY <1>1 DEF Within
<1>8. QED BY <1>3, <1>4, <1>5, <1>6, <1>7

\* A question to the box, and what may follow it; and a list that asks nothing.
LEMMA BoxPlans ==
    ASSUME NEW i \in Instr, i[1] = "box", NEW b, Plan(b), Within(b, Following(i[2]))
    PROVE  BoxLeads(<<i>> \o b)
<1> DEFINE s == <<i>> \o b
           n == Len(b)
<1>1. <<i>> \in Seq(Instr) /\ Len(<<i>>) = 1 /\ <<i>>[1] = i OBVIOUS
<1>2. b \in Seq(Instr) /\ n \in Nat BY DEF Plan
<1>3. s \in Seq(Instr) /\ Len(s) = 1 + n /\ \A q \in 1..1 + n : s[q] = IF q <= 1 THEN <<i>>[q] ELSE b[q - 1]
  BY <1>1, <1>2, ConcatProperties
<1> HIDE DEF s
<1>4. s[1] = i BY <1>1, <1>2, <1>3
<1>5. \A q \in 1..1 + n : q > 1 => q - 1 \in 1..n /\ s[q] = b[q - 1] BY <1>2, <1>3
<1>6. \A q \in 1..1 + n : q > 1 => s[q][1] \in Following(i[2]) BY <1>5 DEF Within
<1>7. "box" \notin Following(i[2]) BY DEF Following
<1>8. \A q \in 1..1 + n : s[q][1] = "box" => q = 1 BY <1>2, <1>6, <1>7
<1>9. BoxLeads(s) BY <1>3, <1>2, <1>8, <1>4, <1>6 DEF BoxLeads
<1>10. QED BY <1>9 DEF s

LEMMA NoBoxPlans == ASSUME NEW a, NEW ops, Within(a, ops), "box" \notin ops PROVE BoxLeads(a)
BY DEF BoxLeads, Within

LEMMA StepsAre ==
    /\ Len(Steps) = 8 /\ DOMAIN Steps = 1..8 /\ Steps[1] = "fork"
    /\ \A j \in 1..8 : Steps[j] \in AllSteps /\ (Steps[j] = "disable-inherited" => j = 6)
    /\ \A s \in AllSteps : \E j \in 1..8 : Steps[j] = s
<1>1. Len(Steps) = 8 /\ DOMAIN Steps = 1..8 BY DEF Steps
<1>2. \A j \in 1..8 : j = 1 \/ j = 2 \/ j = 3 \/ j = 4 \/ j = 5 \/ j = 6 \/ j = 7 \/ j = 8 OBVIOUS
<1>3. /\ Steps[1] = "fork" /\ Steps[2] = "ctf-branch" /\ Steps[3] = "drop-old" /\ Steps[4] = "protect"
      /\ Steps[5] = "workflow" /\ Steps[6] = "disable-inherited" /\ Steps[7] = "pr-template"
      /\ Steps[8] = "vapp-dockerfile"
  BY DEF Steps
<1>4. \A j \in 1..8 : Steps[j] \in AllSteps /\ (Steps[j] = "disable-inherited" => j = 6) BY <1>2, <1>3 DEF AllSteps
<1>5. \A s \in AllSteps : \E j \in 1..8 : Steps[j] = s BY <1>3 DEF AllSteps
<1>6. QED BY <1>1, <1>3, <1>4, <1>5

LEMMA DoStepsAre ==
    /\ Len(DoSteps) = 16
    /\ \A k \in 1..16 : /\ DoSteps[k][1] \in {"check", "apply"} /\ DoSteps[k][2] \in AllSteps
                        /\ DoSteps[k][1] = "check" => k + 1 \in 1..16 /\ DoSteps[k + 1][1] = "apply" /\ DoSteps[k + 1][2] = DoSteps[k][2]
                        /\ DoSteps[k][1] = "apply" => k - 1 \in 1..16 /\ DoSteps[k - 1][1] = "check" /\ DoSteps[k - 1][2] = DoSteps[k][2]
                        /\ DoSteps[k][2] = "disable-inherited" => k > 1
    /\ DoSteps[1][1] = "check" /\ DoSteps[1][2] = "fork"
    /\ \A s \in AllSteps : \E k \in 1..16 : DoSteps[k][1] = "check" /\ DoSteps[k][2] = s
<1> DEFINE half(k) == (k + 1) \div 2
<1>1. DoSteps = [k \in 1..16 |-> DoStep(Steps[half(k)])[2 - (k % 2)]] BY StepsAre DEF DoSteps
<1>2. Len(DoSteps) = 16 BY <1>1
<1>3. \A k \in 1..16 : half(k) \in 1..8 /\ (2 - (k % 2) = 1 \/ 2 - (k % 2) = 2) OBVIOUS
<1>4. \A s : DoStep(s)[1] = <<"check", s>> /\ DoStep(s)[2] = <<"apply", s>> BY DEF DoStep
<1>5. \A k \in 1..16 : DoSteps[k] = IF 2 - (k % 2) = 1 THEN <<"check", Steps[half(k)]>> ELSE <<"apply", Steps[half(k)]>>
  BY <1>1, <1>3, <1>4
<1>6. \A k \in 1..16 : 2 - (k % 2) = 1 => k + 1 \in 1..16 /\ 2 - ((k + 1) % 2) = 2 /\ half(k + 1) = half(k) OBVIOUS
<1>7. \A k \in 1..16 : 2 - (k % 2) = 2 => k - 1 \in 1..16 /\ 2 - ((k - 1) % 2) = 1 /\ half(k - 1) = half(k) OBVIOUS
<1>8. \A j \in 1..8 : 2 * j - 1 \in 1..16 /\ 2 - ((2 * j - 1) % 2) = 1 /\ half(2 * j - 1) = j OBVIOUS
<1>9. half(1) = 1 /\ 2 - (1 % 2) = 1 OBVIOUS
<1> DEFINE side(k) == 2 - (k % 2)
<1>10. /\ \A k \in 1..16 : half(k) \in 1..8 /\ (side(k) = 1 \/ side(k) = 2)
       /\ \A k \in 1..16 : DoSteps[k] = IF side(k) = 1 THEN <<"check", Steps[half(k)]>> ELSE <<"apply", Steps[half(k)]>>
       /\ \A k \in 1..16 : side(k) = 1 => k + 1 \in 1..16 /\ side(k + 1) = 2 /\ half(k + 1) = half(k)
       /\ \A k \in 1..16 : side(k) = 2 => k - 1 \in 1..16 /\ side(k - 1) = 1 /\ half(k - 1) = half(k)
       /\ \A j \in 1..8 : 2 * j - 1 \in 1..16 /\ side(2 * j - 1) = 1 /\ half(2 * j - 1) = j
       /\ half(1) = 1 /\ side(1) = 1
  BY <1>3, <1>5, <1>6, <1>7, <1>8, <1>9
<1> HIDE DEF half, side
<1>11. \A k \in 1..16 : DoSteps[k][1] = (IF side(k) = 1 THEN "check" ELSE "apply") /\ DoSteps[k][2] = Steps[half(k)]
  BY <1>10
<1>12. ASSUME NEW k \in 1..16
       PROVE  /\ DoSteps[k][1] \in {"check", "apply"} /\ DoSteps[k][2] \in AllSteps
              /\ DoSteps[k][1] = "check" => k + 1 \in 1..16 /\ DoSteps[k + 1][1] = "apply" /\ DoSteps[k + 1][2] = DoSteps[k][2]
              /\ DoSteps[k][1] = "apply" => k - 1 \in 1..16 /\ DoSteps[k - 1][1] = "check" /\ DoSteps[k - 1][2] = DoSteps[k][2]
              /\ DoSteps[k][2] = "disable-inherited" => k > 1
  <2>1. half(k) \in 1..8 /\ (side(k) = 1 \/ side(k) = 2) BY <1>10
  <2>2. DoSteps[k][1] \in {"check", "apply"} /\ DoSteps[k][2] \in AllSteps BY <1>11, <2>1, StepsAre
  <2>3. DoSteps[k][1] = "check" => k + 1 \in 1..16 /\ DoSteps[k + 1][1] = "apply" /\ DoSteps[k + 1][2] = DoSteps[k][2]
    BY <1>10, <1>11
  <2>4. DoSteps[k][1] = "apply" => k - 1 \in 1..16 /\ DoSteps[k - 1][1] = "check" /\ DoSteps[k - 1][2] = DoSteps[k][2]
    BY <1>10, <1>11
  <2>5. DoSteps[k][2] = "disable-inherited" => half(k) = 6 BY <1>11, <2>1, StepsAre
  <2>6. half(k) = 6 => k # 1 BY <1>10
  <2>7. QED BY <2>2, <2>3, <2>4, <2>5, <2>6
<1>13. ASSUME NEW s \in AllSteps PROVE \E k \in 1..16 : DoSteps[k][1] = "check" /\ DoSteps[k][2] = s
  BY StepsAre, <1>10, <1>11
<1>14. DoSteps[1][1] = "check" /\ DoSteps[1][2] = "fork" BY <1>10, <1>11, StepsAre
<1>15. QED BY <1>2, <1>12, <1>13, <1>14

\* A program hides only after it asked the box, and opens only after it waited.
Cautious(todo) ==
    /\ Plan(todo) /\ OrderIn(todo, {"hide"}, <<"box", "private", "none">>)
    /\ OrderIn(todo, {"visible", "flip"}, <<"wait", "none", "none">>)
    /\ BoxLeads(todo)

LEMMA StepsProgram ==
    /\ Cautious(OnEach(DoSteps)) /\ Within(OnEach(DoSteps), {"check", "apply"}) /\ ForksFirst(OnEach(DoSteps))
    /\ \A f \in Forks, s \in AllSteps : Coming(OnEach(DoSteps), <<"check", s, f>>)
<1> DEFINE E == OnEach(DoSteps)
<1>1. \A i \in 1..16 : DoSteps[i][1] \in {"check", "apply"} BY DoStepsAre
<1>2. /\ Len(DoSteps) = 16 /\ \A i \in 1..16, f \in Forks : <<DoSteps[i][1], DoSteps[i][2], f>> \in Instr
      /\ \A i \in 1..16 : DoSteps[i][1] \in Reads =>
             i + 1 \in 1..16 /\ DoSteps[i + 1][1] = WriteOf(DoSteps[i][1]) /\ DoSteps[i + 1][2] = DoSteps[i][2]
      /\ \A i \in 1..16 : DoSteps[i][1] \in Writes =>
             i - 1 \in 1..16 /\ DoSteps[i - 1][1] = ReadOf(DoSteps[i][1]) /\ DoSteps[i - 1][2] = DoSteps[i][2]
  BY DoStepsAre DEF Instr, Reads, Writes, WriteOf, ReadOf
<1>3. /\ Plan(E)
      /\ \A i \in 1..16, f \in Forks : Coming(E, <<DoSteps[i][1], DoSteps[i][2], f>>)
      /\ \A ops, i : (\A m \in 1..16 : DoSteps[m][1] \notin ops) => OrderIn(E, ops, i)
      /\ \A ops : (\A m \in 1..16 : DoSteps[m][1] \in ops) => Within(E, ops)
      /\ (\A m \in 1..16 : DoSteps[m][2] = "disable-inherited" => m > 1 /\ DoSteps[1][1] = "check" /\ DoSteps[1][2] = "fork") =>
            ForksFirst(E)
  BY <1>2, EachPlans
<1> HIDE DEF E
<1>8. Within(E, {"check", "apply"}) BY <1>1, <1>3
<1>9. BoxLeads(E) BY <1>8, NoBoxPlans
<1>4. Cautious(E) BY <1>1, <1>3, <1>9 DEF Cautious
<1>5. ForksFirst(E) BY <1>3, DoStepsAre
<1>6. \A f \in Forks, s \in AllSteps : Coming(E, <<"check", s, f>>) BY <1>3, DoStepsAre
<1>7. QED BY <1>4, <1>5, <1>6, <1>8 DEF E

\* A read and its write, on each fork.
LEMMA PairProgram ==
    ASSUME NEW kinds, NEW r, NEW w, NEW s, Len(kinds) = 2,
           kinds[1][1] = r, kinds[1][2] = s, kinds[2][1] = w, kinds[2][2] = s,
           r \in Reads, w = WriteOf(r), r = ReadOf(w), w \notin Reads, r \notin Writes,
           \A f \in Forks : <<r, s, f>> \in Instr /\ <<w, s, f>> \in Instr
    PROVE  /\ Plan(OnEach(kinds))
           /\ \A f \in Forks : Coming(OnEach(kinds), <<r, s, f>>)
           /\ \A ops, j : r \notin ops /\ w \notin ops => OrderIn(OnEach(kinds), ops, j)
           /\ \A ops : r \in ops /\ w \in ops => Within(OnEach(kinds), ops)
           /\ s # "disable-inherited" => ForksFirst(OnEach(kinds))
<1>1. \A i \in 1..2 : i = 1 \/ i = 2 OBVIOUS
<1>2. \A i \in 1..2, f \in Forks : <<kinds[i][1], kinds[i][2], f>> \in Instr BY <1>1
<1>3. ASSUME NEW i \in 1..2, kinds[i][1] \in Reads
      PROVE  i + 1 \in 1..2 /\ kinds[i + 1][1] = WriteOf(kinds[i][1]) /\ kinds[i + 1][2] = kinds[i][2]
  BY <1>1, <1>3
<1>4. ASSUME NEW i \in 1..2, kinds[i][1] \in Writes
      PROVE  i - 1 \in 1..2 /\ kinds[i - 1][1] = ReadOf(kinds[i][1]) /\ kinds[i - 1][2] = kinds[i][2]
  BY <1>1, <1>4
<1> DEFINE E == OnEach(kinds)
<1>5. /\ Plan(E)
      /\ \A i \in 1..2, f \in Forks : Coming(E, <<kinds[i][1], kinds[i][2], f>>)
      /\ \A ops, i : (\A m \in 1..2 : kinds[m][1] \notin ops) => OrderIn(E, ops, i)
      /\ \A ops : (\A m \in 1..2 : kinds[m][1] \in ops) => Within(E, ops)
      /\ (\A m \in 1..2 : kinds[m][2] = "disable-inherited" => m > 1 /\ kinds[1][1] = "check" /\ kinds[1][2] = "fork") => ForksFirst(E)
  BY <1>2, <1>3, <1>4, EachPlans
<1> HIDE DEF E
<1>6. \A f \in Forks : Coming(E, <<r, s, f>>) BY <1>5
<1>7. \A ops, j : r \notin ops /\ w \notin ops => OrderIn(E, ops, j) BY <1>1, <1>5
<1>8. s # "disable-inherited" => ForksFirst(E) BY <1>1, <1>5
<1>10. \A ops : r \in ops /\ w \in ops => Within(E, ops) BY <1>1, <1>5
<1>9. QED BY <1>5, <1>6, <1>7, <1>8, <1>10 DEF E

LEMMA PrivateProgram == Cautious(Privatize) /\ ForksFirst(Privatize)
<1> DEFINE kinds == <<<<"eligible", "none">>, <<"hide", "none">>>>
           E == OnEach(kinds)
           box == <<"box", "private", "none">>
<1>1. Len(kinds) = 2 /\ kinds[1][1] = "eligible" /\ kinds[2][1] = "hide" /\ kinds[1][2] = "none" /\ kinds[2][2] = "none" OBVIOUS
<1> HIDE DEF kinds
<1>2. "eligible" \in Reads /\ "eligible" \notin Writes /\ "hide" \notin Reads BY DEF Reads, Writes
<1>3. "hide" = WriteOf("eligible") /\ "eligible" = ReadOf("hide") BY DEF WriteOf, ReadOf
<1>4. \A f \in Forks : <<"eligible", "none", f>> \in Instr /\ <<"hide", "none", f>> \in Instr BY DEF Instr, OnFork
<1>5. /\ Plan(E)
      /\ \A ops, j : "eligible" \notin ops /\ "hide" \notin ops => OrderIn(E, ops, j)
      /\ \A ops : "eligible" \in ops /\ "hide" \in ops => Within(E, ops)
      /\ "none" # "disable-inherited" => ForksFirst(E)
  BY <1>1, <1>2, <1>3, <1>4, PairProgram
<1> HIDE DEF E
<1>6. OrderIn(E, {"visible", "flip"}, <<"wait", "none", "none">>) BY <1>5
<1>7. box \in Instr /\ box[1] \notin Reads \union Writes /\ box[1] \notin {"hide"} /\ box[1] \notin {"visible", "flip"}
      /\ box[2] # "disable-inherited"
  BY DEF Instr, Reads, Writes
<1> HIDE DEF box
<1>8. /\ Plan(<<box>>) /\ Coming(<<box>>, box) /\ ForksFirst(<<box>>)
      /\ OrderIn(<<box>>, {"hide"}, box) /\ OrderIn(<<box>>, {"visible", "flip"}, <<"wait", "none", "none">>)
  BY <1>7, OnePlans
<1>9. /\ Plan(<<box>> \o E) /\ ForksFirst(<<box>> \o E) /\ OrderIn(<<box>> \o E, {"hide"}, box)
      /\ OrderIn(<<box>> \o E, {"visible", "flip"}, <<"wait", "none", "none">>)
  BY <1>5, <1>6, <1>8, JoinPlans
<1>12. Within(E, Following("private")) BY <1>5 DEF Following
<1>13. box[1] = "box" /\ box[2] = "private" BY DEF box
<1>14. BoxLeads(<<box>> \o E) BY <1>5, <1>7, <1>12, <1>13, BoxPlans
<1>10. Privatize = <<box>> \o E BY DEF Privatize, box, E, kinds
<1>11. QED BY <1>9, <1>10, <1>14 DEF Cautious, box

LEMMA UpgradeProgram == Cautious(OnEach(DoStep("workflow")))
<1> DEFINE kinds == DoStep("workflow")
           E == OnEach(kinds)
<1>1. Len(kinds) = 2 /\ kinds[1][1] = "check" /\ kinds[2][1] = "apply" /\ kinds[1][2] = "workflow" /\ kinds[2][2] = "workflow"
  BY DEF DoStep
<1> HIDE DEF kinds
<1>2. "check" \in Reads /\ "check" \notin Writes /\ "apply" \notin Reads BY DEF Reads, Writes
<1>3. "apply" = WriteOf("check") /\ "check" = ReadOf("apply") BY DEF WriteOf, ReadOf
<1>4. \A f \in Forks : <<"check", "workflow", f>> \in Instr /\ <<"apply", "workflow", f>> \in Instr BY DEF Instr, AllSteps
<1>5. /\ Plan(E)
      /\ \A ops, j : "check" \notin ops /\ "apply" \notin ops => OrderIn(E, ops, j)
      /\ \A ops : "check" \in ops /\ "apply" \in ops => Within(E, ops)
  BY <1>1, <1>2, <1>3, <1>4, PairProgram
<1> HIDE DEF E
<1>6. OrderIn(E, {"visible", "flip"}, <<"wait", "none", "none">>) /\ OrderIn(E, {"hide"}, <<"box", "private", "none">>) BY <1>5
<1>8. Within(E, {"check", "apply"}) BY <1>5
<1>9. BoxLeads(E) BY <1>8, NoBoxPlans
<1>7. QED BY <1>5, <1>6, <1>9 DEF Cautious, E, kinds

\* One instruction that is neither read nor write, on each fork.
LEMMA SoloProgram ==
    ASSUME NEW kinds, NEW o, NEW s, Len(kinds) = 1, kinds[1][1] = o, kinds[1][2] = s,
           o \notin Reads, o \notin Writes, \A f \in Forks : <<o, s, f>> \in Instr
    PROVE  /\ Plan(OnEach(kinds))
           /\ \A f \in Forks : Coming(OnEach(kinds), <<o, s, f>>)
           /\ \A ops, j : o \notin ops => OrderIn(OnEach(kinds), ops, j)
           /\ \A ops : o \in ops => Within(OnEach(kinds), ops)
<1>1. \A i \in 1..1 : i = 1 OBVIOUS
<1>2. \A i \in 1..1, f \in Forks : <<kinds[i][1], kinds[i][2], f>> \in Instr BY <1>1
<1>3. \A i \in 1..1 : kinds[i][1] \notin Reads /\ kinds[i][1] \notin Writes BY <1>1
<1> DEFINE E == OnEach(kinds)
<1>5. /\ Plan(E)
      /\ \A i \in 1..1, f \in Forks : Coming(E, <<kinds[i][1], kinds[i][2], f>>)
      /\ \A ops, i : (\A m \in 1..1 : kinds[m][1] \notin ops) => OrderIn(E, ops, i)
      /\ \A ops : (\A m \in 1..1 : kinds[m][1] \in ops) => Within(E, ops)
  BY <1>2, <1>3, EachPlans
<1> HIDE DEF E
<1>6. \A f \in Forks : Coming(E, <<o, s, f>>) BY <1>5
<1>7. \A ops, j : o \notin ops => OrderIn(E, ops, j) BY <1>1, <1>5
<1>8. \A ops : o \in ops => Within(E, ops) BY <1>1, <1>5
<1>9. QED BY <1>5, <1>6, <1>7, <1>8 DEF E

\* Two reads, each with its write, on each fork.
LEMMA TwoPairsProgram ==
    ASSUME NEW kinds, NEW r, NEW w, NEW s, NEW x, NEW y, NEW z, Len(kinds) = 4,
           kinds[1][1] = r, kinds[1][2] = s, kinds[2][1] = w, kinds[2][2] = s,
           kinds[3][1] = x, kinds[3][2] = z, kinds[4][1] = y, kinds[4][2] = z,
           r \in Reads, w = WriteOf(r), r = ReadOf(w), w \notin Reads, r \notin Writes,
           x \in Reads, y = WriteOf(x), x = ReadOf(y), y \notin Reads, x \notin Writes,
           \A f \in Forks : /\ <<r, s, f>> \in Instr /\ <<w, s, f>> \in Instr
                            /\ <<x, z, f>> \in Instr /\ <<y, z, f>> \in Instr
    PROVE  /\ Plan(OnEach(kinds))
           /\ \A f \in Forks : Coming(OnEach(kinds), <<r, s, f>>)
           /\ \A ops, j : r \notin ops /\ w \notin ops /\ x \notin ops /\ y \notin ops => OrderIn(OnEach(kinds), ops, j)
           /\ \A ops : r \in ops /\ w \in ops /\ x \in ops /\ y \in ops => Within(OnEach(kinds), ops)
<1>1. \A i \in 1..4 : i = 1 \/ i = 2 \/ i = 3 \/ i = 4 OBVIOUS
<1>2. \A i \in 1..4, f \in Forks : <<kinds[i][1], kinds[i][2], f>> \in Instr BY <1>1
<1>3. ASSUME NEW i \in 1..4, kinds[i][1] \in Reads
      PROVE  i + 1 \in 1..4 /\ kinds[i + 1][1] = WriteOf(kinds[i][1]) /\ kinds[i + 1][2] = kinds[i][2]
  BY <1>1, <1>3
<1>4. ASSUME NEW i \in 1..4, kinds[i][1] \in Writes
      PROVE  i - 1 \in 1..4 /\ kinds[i - 1][1] = ReadOf(kinds[i][1]) /\ kinds[i - 1][2] = kinds[i][2]
  BY <1>1, <1>4
<1> DEFINE E == OnEach(kinds)
<1>5. /\ Plan(E)
      /\ \A i \in 1..4, f \in Forks : Coming(E, <<kinds[i][1], kinds[i][2], f>>)
      /\ \A ops, i : (\A m \in 1..4 : kinds[m][1] \notin ops) => OrderIn(E, ops, i)
      /\ \A ops : (\A m \in 1..4 : kinds[m][1] \in ops) => Within(E, ops)
  BY <1>2, <1>3, <1>4, EachPlans
<1> HIDE DEF E
<1>6. \A f \in Forks : Coming(E, <<r, s, f>>) BY <1>5
<1>7. \A ops, j : r \notin ops /\ w \notin ops /\ x \notin ops /\ y \notin ops => OrderIn(E, ops, j) BY <1>1, <1>5
<1>8. \A ops : r \in ops /\ w \in ops /\ x \in ops /\ y \in ops => Within(E, ops) BY <1>1, <1>5
<1>9. QED BY <1>5, <1>6, <1>7, <1>8 DEF E

LEMMA ThreeAre ==
    ASSUME NEW a, NEW b, NEW c PROVE <<a, b, c>> = <<a>> \o <<b>> \o <<c>>
<1> DEFINE S == {a, b, c}
           s == <<a, b>>
           one == <<a>>
           two == <<b>>
           three == <<c>>
           w == <<a, b, c>>
           u == one \o two
           t == u \o three
<1>1. /\ one \in Seq(S) /\ two \in Seq(S) /\ three \in Seq(S) /\ w \in Seq(S)
      /\ Len(one) = 1 /\ Len(two) = 1 /\ Len(three) = 1 /\ Len(w) = 3
      /\ one[1] = a /\ two[1] = b /\ three[1] = c
  OBVIOUS
<1>2. w[1] = a /\ w[2] = b /\ w[3] = c OBVIOUS
<1> HIDE DEF S, one, two, three, w
<1>3. u \in Seq(S) /\ Len(u) = Len(one) + Len(two)
      /\ \A i \in 1..Len(one) + Len(two) : u[i] = IF i <= Len(one) THEN one[i] ELSE two[i - Len(one)]
  BY <1>1, ConcatProperties
<1>4. Len(u) = 2 /\ u[1] = a /\ u[2] = b BY <1>1, <1>3
<1>5. u \in Seq(S) BY <1>3
<1> HIDE DEF u
<1>6. t \in Seq(S) /\ Len(t) = Len(u) + Len(three)
      /\ \A i \in 1..Len(u) + Len(three) : t[i] = IF i <= Len(u) THEN u[i] ELSE three[i - Len(u)]
  BY <1>1, <1>5, ConcatProperties
<1>7. Len(t) = 3 /\ t[1] = a /\ t[2] = b /\ t[3] = c BY <1>1, <1>4, <1>6
<1> HIDE DEF t
<1>8. \A i \in 1..3 : i = 1 \/ i = 2 \/ i = 3 OBVIOUS
<1>9. \A i \in 1..3 : w[i] = t[i] BY <1>2, <1>7, <1>8
<1>10. w = t BY <1>1, <1>6, <1>7, <1>9, SeqEqual
<1>11. QED BY <1>10 DEF w, t, u, one, two, three

LEMMA FourAre ==
    ASSUME NEW a, NEW b, NEW c, NEW d, NEW s, s = <<a, b>> \o <<c, d>>
    PROVE  Len(s) = 4 /\ s[1] = a /\ s[2] = b /\ s[3] = c /\ s[4] = d
<1> DEFINE S == {a, b, c, d}
           l == <<a, b>>
           r == <<c, d>>
<1>1. l \in Seq(S) /\ r \in Seq(S) /\ Len(l) = 2 /\ Len(r) = 2 OBVIOUS
<1>2. l[1] = a /\ l[2] = b /\ r[1] = c /\ r[2] = d OBVIOUS
<1> DEFINE t == l \o r
<1>4. s = t OBVIOUS
<1> HIDE DEF S, l, r
<1>8. Len(t) = Len(l) + Len(r) /\ \A i \in 1..Len(l) + Len(r) : t[i] = IF i <= Len(l) THEN l[i] ELSE r[i - Len(l)]
  BY <1>1, ConcatProperties
<1> HIDE DEF t
<1>3. Len(s) = Len(l) + Len(r) /\ \A i \in 1..Len(l) + Len(r) : s[i] = IF i <= Len(l) THEN l[i] ELSE r[i - Len(l)]
  BY <1>4, <1>8
<1>5. Len(l) + Len(r) = 4 /\ 3 - Len(l) = 1 /\ 4 - Len(l) = 2 BY <1>1
<1>6. s[1] = l[1] /\ s[2] = l[2] /\ s[3] = r[1] /\ s[4] = r[2] BY <1>1, <1>3, <1>5
<1>7. QED BY <1>2, <1>3, <1>5, <1>6

LEMMA LaunchProgram ==
    /\ Cautious(Launch) /\ Coming(Launch, <<"wait", "none", "none">>)
    /\ \A f \in Forks : Coming(Launch, <<"visible", "none", f>>) /\ Coming(Launch, <<"verify", "protect", f>>)
<1> DEFINE first == <<<<"preflight", "none">>>>
           opens == <<<<"visible", "none">>, <<"flip", "none">>>> \o DoStep("protect")
           last == <<<<"verify", "protect">>>>
           A == OnEach(first)
           V == OnEach(opens)
           Z == OnEach(last)
           pkg == <<"package", "none", "none">>
           refuse == <<"refuse", "none", "none">>
           wait == <<"wait", "none", "none">>
           box == <<"box", "private", "none">>
<1>1. Len(first) = 1 /\ first[1][1] = "preflight" /\ first[1][2] = "none" OBVIOUS
<1>2. Len(last) = 1 /\ last[1][1] = "verify" /\ last[1][2] = "protect" OBVIOUS
<1>4. /\ Len(opens) = 4
      /\ opens[1][1] = "visible" /\ opens[2][1] = "flip" /\ opens[3][1] = "check" /\ opens[4][1] = "apply"
      /\ opens[1][2] = "none" /\ opens[2][2] = "none" /\ opens[3][2] = "protect" /\ opens[4][2] = "protect"
  <2> DEFINE a == <<"visible", "none">>
             b == <<"flip", "none">>
             c == <<"check", "protect">>
             d == <<"apply", "protect">>
  <2>1. opens = <<a, b>> \o <<c, d>> BY DEF DoStep
  <2>2. /\ a[1] = "visible" /\ a[2] = "none" /\ b[1] = "flip" /\ b[2] = "none"
        /\ c[1] = "check" /\ c[2] = "protect" /\ d[1] = "apply" /\ d[2] = "protect"
    OBVIOUS
  <2> HIDE DEF a, b, c, d, opens
  <2>3. Len(opens) = 4 /\ opens[1] = a /\ opens[2] = b /\ opens[3] = c /\ opens[4] = d BY <2>1, FourAre
  <2>4. QED BY <2>2, <2>3
<1>5. /\ pkg \in Instr /\ pkg[1] \notin Reads \union Writes /\ pkg[1] \notin {"hide"} /\ pkg[1] \notin {"visible", "flip"}
      /\ refuse \in Instr /\ refuse[1] \notin Reads \union Writes /\ refuse[1] \notin {"hide"} /\ refuse[1] \notin {"visible", "flip"}
      /\ wait \in Instr /\ wait[1] \notin Reads \union Writes /\ wait[1] \notin {"hide"} /\ wait[1] \notin {"visible", "flip"}
  BY DEF Instr, Once, Reads, Writes
<1>6. Launch = A \o <<pkg, refuse, wait>> \o V \o Z BY DEF Launch
<1> HIDE DEF first, opens, last, pkg, refuse, wait, box
<1>7. <<pkg, refuse, wait>> = <<pkg>> \o <<refuse>> \o <<wait>> BY ThreeAre
<1>8. /\ "preflight" \notin Reads /\ "preflight" \notin Writes /\ "verify" \notin Reads /\ "verify" \notin Writes
      /\ \A f \in Forks : <<"preflight", "none", f>> \in Instr /\ <<"verify", "protect", f>> \in Instr
  BY DEF Reads, Writes, Instr, OnFork, AllSteps
<1> HIDE DEF A, V, Z
<1>9. /\ Plan(A) /\ (\A ops, j : "preflight" \notin ops => OrderIn(A, ops, j))
      /\ \A ops : "preflight" \in ops => Within(A, ops)
  BY <1>1, <1>8, SoloProgram DEF A
<1>10. /\ Plan(Z) /\ (\A ops, j : "verify" \notin ops => OrderIn(Z, ops, j))
       /\ \A ops : "verify" \in ops => Within(Z, ops)
       /\ \A f \in Forks : Coming(Z, <<"verify", "protect", f>>)
  BY <1>2, <1>8, SoloProgram DEF Z
<1>12. \A f \in Forks : /\ <<"visible", "none", f>> \in Instr /\ <<"flip", "none", f>> \in Instr
                        /\ <<"check", "protect", f>> \in Instr /\ <<"apply", "protect", f>> \in Instr
  BY DEF Instr, OnFork, AllSteps
<1>14. /\ "visible" \in Reads /\ "visible" \notin Writes /\ "check" \in Reads /\ "check" \notin Writes
       /\ "flip" \notin Reads /\ "apply" \notin Reads
  BY DEF Reads, Writes
<1>15. "flip" = WriteOf("visible") /\ "apply" = WriteOf("check") /\ "visible" = ReadOf("flip") /\ "check" = ReadOf("apply")
  BY DEF WriteOf, ReadOf
<1>18. /\ Plan(V) /\ \A f \in Forks : Coming(V, <<"visible", "none", f>>)
       /\ \A ops, j : "visible" \notin ops /\ "flip" \notin ops /\ "check" \notin ops /\ "apply" \notin ops => OrderIn(V, ops, j)
       /\ \A ops : "visible" \in ops /\ "flip" \in ops /\ "check" \in ops /\ "apply" \in ops => Within(V, ops)
  BY <1>4, <1>12, <1>14, <1>15, TwoPairsProgram DEF V
<1> DEFINE H == {"hide"}
           O == {"visible", "flip"}
           Q == {"preflight", "package", "refuse", "wait", "visible", "flip", "check", "apply", "verify"}
<1>20. /\ "preflight" \notin H \union O /\ "verify" \notin H \union O
       /\ "visible" \notin H /\ "flip" \notin H /\ "check" \notin H /\ "apply" \notin H
  OBVIOUS
<1>31. /\ "preflight" \in Q /\ "verify" \in Q /\ "visible" \in Q /\ "flip" \in Q /\ "check" \in Q /\ "apply" \in Q
       /\ pkg[1] \in Q /\ refuse[1] \in Q /\ wait[1] \in Q /\ "box" \notin Q
  BY DEF pkg, refuse, wait
<1>21. pkg[1] \notin H /\ pkg[1] \notin O /\ refuse[1] \notin H /\ refuse[1] \notin O /\ wait[1] \notin H /\ wait[1] \notin O
  BY <1>5
<1> HIDE DEF H, O, Q
<1>22. OrderIn(A, H, box) /\ OrderIn(A, O, wait) /\ OrderIn(V, H, box) /\ OrderIn(Z, H, box) /\ OrderIn(Z, O, wait)
  BY <1>9, <1>10, <1>18, <1>20
<1>32. Within(A, Q) /\ Within(V, Q) /\ Within(Z, Q) BY <1>9, <1>10, <1>18, <1>31
<1>33. Within(<<pkg>>, Q) /\ Within(<<refuse>>, Q) /\ Within(<<wait>>, Q) BY <1>5, <1>31, OnePlans
<1>23. /\ Plan(<<pkg>>) /\ OrderIn(<<pkg>>, H, box) /\ OrderIn(<<pkg>>, O, wait)
       /\ Plan(<<refuse>>) /\ OrderIn(<<refuse>>, H, box) /\ OrderIn(<<refuse>>, O, wait)
       /\ Plan(<<wait>>) /\ OrderIn(<<wait>>, H, box) /\ OrderIn(<<wait>>, O, wait) /\ Coming(<<wait>>, wait)
  BY <1>5, <1>21, OnePlans
<1> DEFINE T1 == <<pkg>> \o <<refuse>>
           T == T1 \o <<wait>>
           B == A \o T
           C == B \o V
<1>24. Plan(T1) /\ OrderIn(T1, H, box) /\ OrderIn(T1, O, wait) /\ Within(T1, Q) BY <1>23, <1>33, JoinPlans
<1> HIDE DEF T1
<1>25. Plan(T) /\ OrderIn(T, H, box) /\ OrderIn(T, O, wait) /\ Coming(T, wait) /\ Within(T, Q) BY <1>23, <1>33, <1>24, JoinPlans
<1> HIDE DEF T
<1>26. Plan(B) /\ OrderIn(B, H, box) /\ OrderIn(B, O, wait) /\ Coming(B, wait) /\ Within(B, Q) BY <1>9, <1>32, <1>22, <1>25, JoinPlans
<1> HIDE DEF B
<1>27. /\ Plan(C) /\ OrderIn(C, H, box) /\ OrderIn(C, O, wait) /\ Coming(C, wait) /\ Within(C, Q)
       /\ \A f \in Forks : Coming(C, <<"visible", "none", f>>)
  BY <1>18, <1>22, <1>26, <1>32, JoinPlans
<1> HIDE DEF C
<1>28. /\ Plan(C \o Z) /\ OrderIn(C \o Z, H, box) /\ OrderIn(C \o Z, O, wait) /\ Coming(C \o Z, wait) /\ Within(C \o Z, Q)
       /\ \A f \in Forks : Coming(C \o Z, <<"visible", "none", f>>) /\ Coming(C \o Z, <<"verify", "protect", f>>)
  BY <1>10, <1>22, <1>27, <1>32, JoinPlans
<1>29. Launch = C \o Z BY <1>6, <1>7 DEF C, B, T, T1
<1>34. BoxLeads(C \o Z) BY <1>28, <1>31, NoBoxPlans
<1>30. QED BY <1>28, <1>29, <1>34 DEF Cautious, H, O, box, wait

LEMMA DoctorProgram ==
    /\ Cautious(Doctor) /\ \A f \in Forks, s \in AllSteps : Coming(Doctor, <<"cell", s, f>>)
<1> DEFINE cells == [i \in DOMAIN Steps |-> <<"cell", Steps[i]>>]
           grants == <<<<"grant", "none">>>>
           C == OnEach(cells)
           G == OnEach(grants)
           ask == <<"box", "doctor", "none">>
           box == <<"box", "private", "none">>
           wait == <<"wait", "none", "none">>
           H == {"hide"}
           O == {"visible", "flip"}
           Q == Following("doctor")
<1>1. Len(grants) = 1 /\ grants[1][1] = "grant" /\ grants[1][2] = "none" OBVIOUS
<1>2. cells = [i \in 1..8 |-> <<"cell", Steps[i]>>] BY StepsAre
<1>3. \A i \in 1..8 : cells[i][1] = "cell" /\ cells[i][2] = Steps[i] BY <1>2
<1>4. Len(cells) = 8 BY <1>2
<1>5. /\ ask \in Instr /\ ask[1] \notin Reads \union Writes /\ ask[1] \notin H /\ ask[1] \notin O
      /\ ask[1] = "box" /\ ask[2] = "doctor" /\ "cell" \in Q /\ "grant" \in Q
  BY DEF Instr, Reads, Writes, Following
<1>6. Doctor = <<ask>> \o C \o G BY DEF Doctor
<1>7. /\ "grant" \notin Reads /\ "grant" \notin Writes /\ "cell" \notin Reads /\ "cell" \notin Writes
      /\ "grant" \notin H /\ "grant" \notin O /\ "cell" \notin H /\ "cell" \notin O
      /\ \A f \in Forks : <<"grant", "none", f>> \in Instr /\ \A s \in AllSteps : <<"cell", s, f>> \in Instr
  BY DEF Reads, Writes, Instr, OnFork
<1> HIDE DEF cells, grants, ask, box, wait, H, O, Q, C, G
<1>8. Plan(G) /\ OrderIn(G, H, box) /\ OrderIn(G, O, wait) /\ Within(G, Q) BY <1>1, <1>5, <1>7, SoloProgram DEF G
<1>9. \A i \in 1..8, f \in Forks : <<cells[i][1], cells[i][2], f>> \in Instr BY <1>3, <1>7, StepsAre
<1>10. \A i \in 1..8 : cells[i][1] \notin Reads /\ cells[i][1] \notin Writes /\ cells[i][1] \notin H /\ cells[i][1] \notin O
  BY <1>3, <1>7
<1>11. /\ Plan(C)
       /\ \A i \in 1..8, f \in Forks : Coming(C, <<cells[i][1], cells[i][2], f>>)
       /\ \A ops, i : (\A m \in 1..8 : cells[m][1] \notin ops) => OrderIn(C, ops, i)
       /\ \A ops : (\A m \in 1..8 : cells[m][1] \in ops) => Within(C, ops)
  BY <1>4, <1>9, <1>10, EachPlans DEF C
<1>19. \A i \in 1..8 : cells[i][1] \in Q BY <1>3, <1>5
<1>20. Within(C, Q) BY <1>11, <1>19
<1>21. Plan(C \o G) /\ Within(C \o G, Q) BY <1>8, <1>11, <1>20, JoinPlans
<1>22. BoxLeads(<<ask>> \o (C \o G)) BY <1>5, <1>21, BoxPlans DEF Q
<1>12. OrderIn(C, H, box) /\ OrderIn(C, O, wait) BY <1>10, <1>11
<1>13. ASSUME NEW f \in Forks, NEW s \in AllSteps PROVE Coming(C, <<"cell", s, f>>) BY StepsAre, <1>3, <1>11
<1>14. Plan(<<ask>>) /\ OrderIn(<<ask>>, H, box) /\ OrderIn(<<ask>>, O, wait) BY <1>5, OnePlans
<1> DEFINE B == <<ask>> \o C
<1>15. /\ Plan(B) /\ OrderIn(B, H, box) /\ OrderIn(B, O, wait)
       /\ \A f \in Forks, s \in AllSteps : Coming(B, <<"cell", s, f>>)
  BY <1>11, <1>12, <1>13, <1>14, JoinPlans
<1> HIDE DEF B
<1>16. /\ Plan(B \o G) /\ OrderIn(B \o G, H, box) /\ OrderIn(B \o G, O, wait)
       /\ \A f \in Forks, s \in AllSteps : Coming(B \o G, <<"cell", s, f>>)
  BY <1>8, <1>15, JoinPlans
<1>17. Doctor = B \o G BY <1>6 DEF B
<1>23. Doctor = <<ask>> \o (C \o G) BY <1>8, <1>11, <1>14, <1>6, ConcatAssociative DEF Plan
<1>18. QED BY <1>16, <1>17, <1>22, <1>23 DEF Cautious, H, O, box, wait

\* What a command starts with.
LEMMA Programs ==
    /\ \A c \in Commands : Cautious(Program(c))
    /\ ForksFirst(Program("org")) /\ Coming(Program("org"), <<"mirror", "none", "none">>)
    /\ \A f \in Forks, s \in AllSteps : Coming(Program("org"), <<"check", s, f>>) /\ Coming(Program("doctor"), <<"cell", s, f>>)
    /\ Coming(Program("launch"), <<"wait", "none", "none">>)
    /\ \A f \in Forks : Coming(Program("launch"), <<"visible", "none", f>>) /\ Coming(Program("launch"), <<"verify", "protect", f>>)
<1> DEFINE E == OnEach(DoSteps)
           mirror == <<"mirror", "none", "none">>
           M == E \o <<mirror>>
           W == M \o Privatize
           box == <<"box", "private", "none">>
           wait == <<"wait", "none", "none">>
           H == {"hide"}
           O == {"visible", "flip"}
           Q == {"check", "apply", "mirror"}
<1>1. /\ Program("org") = W /\ Program("wizard") = W /\ Program("upgrade") = OnEach(DoStep("workflow"))
      /\ Program("private") = Privatize /\ Program("launch") = Launch /\ Program("doctor") = Doctor
  BY DEF Program
<1>2. /\ mirror \in Instr /\ mirror[1] \notin Reads \union Writes /\ mirror[1] \notin H /\ mirror[1] \notin O /\ mirror[2] # "disable-inherited"
      /\ mirror[1] \in Q /\ "check" \in Q /\ "apply" \in Q /\ "box" \notin Q
  BY DEF Instr, Once, Reads, Writes
<1>3. /\ Plan(E) /\ OrderIn(E, H, box) /\ OrderIn(E, O, wait) /\ ForksFirst(E) /\ Within(E, {"check", "apply"})
      /\ \A f \in Forks, s \in AllSteps : Coming(E, <<"check", s, f>>)
  BY StepsProgram DEF Cautious
<1>4. Plan(Privatize) /\ OrderIn(Privatize, H, box) /\ OrderIn(Privatize, O, wait) /\ ForksFirst(Privatize) /\ BoxLeads(Privatize)
  BY PrivateProgram DEF Cautious
<1> HIDE DEF E, mirror, box, wait, H, O, Q
<1>5. /\ Plan(<<mirror>>) /\ Coming(<<mirror>>, mirror) /\ OrderIn(<<mirror>>, H, box) /\ OrderIn(<<mirror>>, O, wait)
      /\ ForksFirst(<<mirror>>) /\ Within(<<mirror>>, Q)
  BY <1>2, OnePlans
<1>11. Within(E, Q) BY <1>2, <1>3 DEF Within
<1>6. /\ Within(M, Q) /\ Plan(M) /\ OrderIn(M, H, box) /\ OrderIn(M, O, wait) /\ ForksFirst(M) /\ Coming(M, mirror)
      /\ \A f \in Forks, s \in AllSteps : Coming(M, <<"check", s, f>>)
  BY <1>3, <1>5, <1>11, JoinPlans
<1> HIDE DEF M
<1>7. /\ BoxLeads(W) /\ Plan(W) /\ OrderIn(W, H, box) /\ OrderIn(W, O, wait) /\ ForksFirst(W) /\ Coming(W, mirror)
      /\ \A f \in Forks, s \in AllSteps : Coming(W, <<"check", s, f>>)
  BY <1>2, <1>4, <1>6, JoinPlans
<1> HIDE DEF W
<1>8. Cautious(W) BY <1>7 DEF Cautious, H, O, box, wait
<1>9. \A c \in Commands : Cautious(Program(c))
  BY <1>1, <1>8, PrivateProgram, UpgradeProgram, LaunchProgram, DoctorProgram DEF Commands
<1>10. QED BY <1>1, <1>7, <1>9, LaunchProgram, DoctorProgram DEF mirror

(***************************************************************************)
(* Provision: how a command goes past an instruction, and what it leaves.    *)
(***************************************************************************)
\* The rest of a list once its first one or two instructions are dealt with.
Drops(a, b, n) ==
    /\ b \in Seq(Instr) /\ Len(b) = Len(a) - n
    /\ \A p \in 1..Len(b) : p + n \in 1..Len(a) /\ b[p] = a[p + n]

LEMMA Dropped ==
    ASSUME NEW todo \in Seq(Instr), NEW n \in {1, 2}, n <= Len(todo)
    PROVE  Drops(todo, SubSeq(todo, n + 1, Len(todo)), n) /\ Drops(todo, Tail(todo), 1)
<1> DEFINE b == SubSeq(todo, n + 1, Len(todo))
<1>1. Len(todo) \in Nat /\ todo # <<>> BY LenProperties
<1>2. b = [p \in 1..Len(todo) - n |-> todo[p + n]] BY <1>1
<1>3. b \in Seq(Instr) /\ Len(b) = Len(todo) - n
  <2>1. \A p \in 1..Len(todo) - n : p + n \in 1..Len(todo) /\ todo[p + n] \in Instr BY <1>1
  <2>2. Len(todo) - n \in Nat BY <1>1
  <2> HIDE DEF b
  <2>3. QED BY <1>2, <2>1, <2>2
<1>4. \A p \in 1..Len(b) : p + n \in 1..Len(todo) /\ b[p] = todo[p + n]
  <2> HIDE DEF b
  <2>1. QED BY <1>1, <1>2, <1>3
<1>5. /\ Tail(todo) \in Seq(Instr) /\ Len(Tail(todo)) = Len(todo) - 1
      /\ \A p \in 1..Len(Tail(todo)) : Tail(todo)[p] = todo[p + 1]
  BY <1>1, HeadTailProperties
<1>6. \A p \in 1..Len(todo) - 1 : p + 1 \in 1..Len(todo) BY <1>1
<1>7. QED BY <1>3, <1>4, <1>5, <1>6 DEF Drops

LEMMA DropKeeps ==
    ASSUME NEW a \in Seq(Instr), Paired(a), BoxLeads(a), NEW b, NEW n \in {1, 2}, n <= Len(a),
           Drops(a, b, n), n = 2 => a[1][1] \in Reads
    PROVE  /\ Paired(b) /\ BoxLeads(b)
           /\ b # <<>> /\ b[1][1] \in Writes => n = 1 /\ a[1] = <<ReadOf(b[1][1]), b[1][2], b[1][3]>>
           /\ n = 2 => a[2] = <<WriteOf(a[1][1]), a[1][2], a[1][3]>>
           /\ n = 1 /\ a[1][1] \in Reads => b # <<>> /\ b[1] = <<WriteOf(a[1][1]), a[1][2], a[1][3]>>
           /\ \A i : Coming(a, i) => Coming(b, i) \/ i = a[1] \/ (n = 2 /\ i = a[2])
           /\ \A q \in 1..Len(b) : \A i : Earlier(a, q + n, i) => Earlier(b, q, i) \/ i = a[1] \/ (n = 2 /\ i = a[2])
<1> DEFINE m == Len(a)
           l == Len(b)
<1>1. m \in Nat /\ l \in Nat /\ l = m - n /\ b \in Seq(Instr) /\ \A p \in 1..l : p + n \in 1..m /\ b[p] = a[p + n]
  BY DEF Drops
<1>2. \A p \in 1..m : p \in 1..n \/ (p - n \in 1..l /\ p - n + n = p) BY <1>1
<1>3. 1 \in 1..m BY <1>1
<1>4. \A p \in 1..m : a[p][1] \in Reads => p + 1 \in 1..m /\ a[p + 1] = <<WriteOf(a[p][1]), a[p][2], a[p][3]>>
  BY DEF Paired, Reads
<1>5. \A p \in 2..m : a[p][1] \in Writes => a[p - 1] = <<ReadOf(a[p][1]), a[p][2], a[p][3]>>
  BY DEF Paired, Writes
<1>6. \A p \in 1..l : b[p][1] \in Reads => p + 1 \in 1..l /\ b[p + 1] = <<WriteOf(b[p][1]), b[p][2], b[p][3]>>
  <2> SUFFICES ASSUME NEW p \in 1..l, b[p][1] \in Reads
               PROVE  p + 1 \in 1..l /\ b[p + 1] = <<WriteOf(b[p][1]), b[p][2], b[p][3]>>
    OBVIOUS
  <2>1. p + n \in 1..m /\ b[p] = a[p + n] BY <1>1
  <2>2. p + n + 1 \in 1..m /\ a[p + n + 1] = <<WriteOf(b[p][1]), b[p][2], b[p][3]>> BY <1>4, <2>1
  <2>3. p + 1 \in 1..l /\ p + 1 + n = p + n + 1
    <3>1. m \in Nat /\ l \in Nat /\ l = m - n BY <1>1
    <3>2. p + n + 1 \in 1..m BY <2>2
    <3> HIDE DEF m, l
    <3>3. QED BY <3>1, <3>2
  <2>4. b[p + 1] = a[p + 1 + n] BY <1>1, <2>3
  <2>5. QED BY <2>2, <2>3, <2>4
<1>7. \A p \in 2..l : b[p][1] \in Writes => b[p - 1] = <<ReadOf(b[p][1]), b[p][2], b[p][3]>>
  <2> SUFFICES ASSUME NEW p \in 2..l, b[p][1] \in Writes PROVE b[p - 1] = <<ReadOf(b[p][1]), b[p][2], b[p][3]>>
    OBVIOUS
  <2>1. p + n \in 2..m /\ b[p] = a[p + n] BY <1>1
  <2>2. a[p + n - 1] = <<ReadOf(b[p][1]), b[p][2], b[p][3]>> BY <1>5, <2>1
  <2>3. p - 1 \in 1..l /\ p - 1 + n = p + n - 1 BY <1>1
  <2>4. b[p - 1] = a[p - 1 + n] BY <1>1, <2>3
  <2>5. QED BY <2>2, <2>3, <2>4
<1>8. Paired(b) BY <1>6, <1>7 DEF Paired, Reads, Writes
<1>9. BoxLeads(b)
  <2> SUFFICES ASSUME NEW q \in 1..l, NEW p \in 1..l, b[q][1] = "box", q < p PROVE b[p][1] \in Following(b[q][2])
    BY DEF BoxLeads
  <2>1. q + n \in 1..m /\ p + n \in 1..m /\ q + n < p + n /\ b[q] = a[q + n] /\ b[p] = a[p + n] BY <1>1
  <2>2. QED BY <2>1 DEF BoxLeads
<1>10. n = 2 => a[2] = <<WriteOf(a[1][1]), a[1][2], a[1][3]>> BY <1>3, <1>4
<1>11. ASSUME n = 1, a[1][1] \in Reads PROVE b # <<>> /\ b[1] = <<WriteOf(a[1][1]), a[1][2], a[1][3]>>
  BY <1>3, <1>4, <1>11, <1>1
<1>12. ASSUME b # <<>>, b[1][1] \in Writes
       PROVE  n = 1 /\ a[1] = <<ReadOf(b[1][1]), b[1][2], b[1][3]>>
  <2>1. 1 \in 1..l /\ 1 + n \in 2..m BY <1>1, <1>12
  <2>2. b[1] = a[1 + n] BY <1>1, <2>1
  <2>3. 1 + n - 1 = n OBVIOUS
  <2>4. a[n] = <<ReadOf(b[1][1]), b[1][2], b[1][3]>>
    <3>1. 1 + n \in 2..m /\ a[1 + n][1] \in Writes BY <1>12, <2>1, <2>2
    <3>2. a[1 + n - 1] = <<ReadOf(a[1 + n][1]), a[1 + n][2], a[1 + n][3]>> BY <1>5, <3>1
    <3>3. QED BY <2>2, <2>3, <3>2
  <2>5. n # 2
    <3> SUFFICES ASSUME n = 2 PROVE FALSE OBVIOUS
    <3>1. a[2][1] = ReadOf(b[1][1]) BY <2>4
    <3>2. a[2][1] = WriteOf(a[1][1]) BY <1>10
    <3>3. \A w \in Writes : ReadOf(w) \in Reads BY DEF Writes, Reads, ReadOf
    <3>4. \A r \in Reads : WriteOf(r) \notin Reads BY DEF Reads, WriteOf
    <3>5. QED BY <1>12, <3>1, <3>2, <3>3, <3>4
  <2>6. n = 1 BY <2>5
  <2>7. QED BY <2>4, <2>6
<1>13. ASSUME NEW i, Coming(a, i) PROVE Coming(b, i) \/ i = a[1] \/ (n = 2 /\ i = a[2])
  <2>1. PICK p \in 1..m : a[p] = i BY <1>13 DEF Coming
  <2>2. CASE p \in 1..n BY <2>1, <2>2
  <2>3. CASE p - n \in 1..l /\ p - n + n = p BY <1>1, <2>1, <2>3 DEF Coming
  <2>4. QED BY <1>2, <2>1, <2>2, <2>3
<1>14. ASSUME NEW q \in 1..l, NEW i, Earlier(a, q + n, i) PROVE Earlier(b, q, i) \/ i = a[1] \/ (n = 2 /\ i = a[2])
  <2>1. PICK p \in 1..m : p < q + n /\ a[p] = i BY <1>14 DEF Earlier
  <2>2. CASE p \in 1..n BY <2>1, <2>2
  <2>3. CASE p - n \in 1..l /\ p - n + n = p
    <3>1. b[p - n] = i BY <1>1, <2>1, <2>3
    <3>2. p - n < q BY <1>1, <2>1
    <3>3. QED BY <2>3, <3>1, <3>2 DEF Earlier
  <2>4. QED BY <1>2, <2>1, <2>2, <2>3
<1>15. QED BY <1>8, <1>9, <1>10, <1>11, <1>12, <1>13, <1>14

\* What is done on GitHub stays done, K being the forks before and K2 after, but for a protection
\* that is removed by hand.
Firmly(K, K2, W, W2) == \A f \in Forks :
    /\ K[f].made => K2[f].made
    /\ K[f].indexed => K2[f].indexed
    /\ K[f].indexed /\ ~K[f].active => ~K2[f].active
    /\ \A s \in K[f].done : s \in K2[f].done \/ (s = "protect" /\ f \in W2)
    /\ f \in W => f \in W2 \/ "protect" \in K2[f].done
    /\ K2[f].newest >= K[f].newest

\* Nothing is opened before the event is launched, and nothing hidden after without its being noted.
Softly(K, K2, P, P2, L, L2) ==
    /\ \A f \in Forks : /\ OpenOn(K[f], L) => OpenOn(K2[f], L2)
                        /\ ~K[f].public /\ K2[f].public => L
    /\ P # "none" => P2 # "none"
    /\ L => L2

LEMMA VersionsAre ==
    /\ \A v \in Checkouts : v \in Int
    /\ \A k \in ForkType : k.version \in Int /\ k.newest \in Int /\ k.version <= k.newest
    /\ \A T \in TermType : T.v \in Checkouts /\ T.v \in Int /\ T.cmd \in Commands
<1>1. Checkouts \subseteq Nat BY ProvAssumption
<1>2. \A v \in Checkouts : v \in Int BY <1>1
<1>3. \A k \in ForkType : k.version \in Versions /\ k.newest \in Versions /\ k.version <= k.newest BY DEF ForkType
<1>4. Absent \in Int BY DEF Absent
<1>5. \A T \in TermType : T.v \in Checkouts /\ T.cmd \in Commands BY DEF TermType
<1>6. QED BY <1>2, <1>3, <1>4, <1>5 DEF Versions

LEMMA KeptStays ==
    ASSUME NEW K, NEW K2, NEW W, NEW W2,
           K \in [Forks -> ForkType], K2 \in [Forks -> ForkType], Firmly(K, K2, W, W2)
    PROVE  \A f \in Forks, s \in AllSteps, v \in Checkouts : KeptOn(K[f], W, f, s, v) => KeptOn(K2[f], W2, f, s, v)
<1> SUFFICES ASSUME NEW f \in Forks, NEW s \in AllSteps, NEW v \in Checkouts, KeptOn(K[f], W, f, s, v)
             PROVE  KeptOn(K2[f], W2, f, s, v)
  OBVIOUS
<1>1. K[f] \in ForkType /\ K2[f] \in ForkType OBVIOUS
<1>2. v \in Int /\ K[f].version \in Int /\ K[f].newest \in Int /\ K2[f].newest \in Int /\ K[f].version <= K[f].newest
  BY <1>1, VersionsAre
<1>3. /\ K[f].made => K2[f].made
      /\ K[f].indexed => K2[f].indexed
      /\ K[f].indexed /\ ~K[f].active => ~K2[f].active
      /\ s \in K[f].done => s \in K2[f].done \/ (s = "protect" /\ f \in W2)
      /\ f \in W => f \in W2 \/ "protect" \in K2[f].done
      /\ K2[f].newest >= K[f].newest
  BY DEF Firmly
<1>4. CASE ~AppliesTo(f, s) BY <1>4 DEF AppliesTo, HoldsOn, KeptOn
<1>5. CASE AppliesTo(f, s) /\ s = "fork" BY <1>3, <1>5 DEF KeptOn, HoldsOn
<1>6. CASE AppliesTo(f, s) /\ s = "workflow" BY <1>6, <1>2, <1>3 DEF KeptOn, HoldsOn
<1>7. CASE AppliesTo(f, s) /\ s = "disable-inherited" BY <1>3, <1>7 DEF KeptOn, HoldsOn
<1>8. CASE AppliesTo(f, s) /\ s \notin {"fork", "workflow", "disable-inherited"}
  BY <1>8, <1>3 DEF KeptOn, HoldsOn
<1>9. QED BY <1>4, <1>5, <1>6, <1>7, <1>8

LEMMA RestKeeps ==
    ASSUME NEW T \in TermType, NEW K, NEW K2, NEW W, NEW W2, NEW P, NEW P2, NEW L \in BOOLEAN, NEW L2 \in BOOLEAN,
           K \in [Forks -> ForkType], K2 \in [Forks -> ForkType], Firmly(K, K2, W, W2), Softly(K, K2, P, P2, L, L2),
           TermInv(T, K, W, P, L)
    PROVE  TermInv(T, K2, W2, P2, L2)
<1>1. Paired(T.todo) /\ BoxLeads(T.todo) /\ BoxFirst(T) BY DEF TermInv
<1>2. WaitFirst(T, L2) BY DEF TermInv, WaitFirst, Softly
<1>3. ForkFirst(T, K2) BY DEF TermInv, Firmly, ForkFirst
<1>4. SeenFirst(T) BY DEF TermInv
<1>6. Indexed(T, K2) BY DEF TermInv, Indexed, Firmly
<1>8. OrgMirrors(T, P2) BY DEF TermInv, OrgMirrors, Softly
<1>9. T.v \in Checkouts BY VersionsAre
<1>10. \A f \in Forks, s \in AllSteps : KeptOn(K[f], W, f, s, T.v) => KeptOn(K2[f], W2, f, s, T.v) BY <1>9, KeptStays
<1>11. \A f \in Forks, s \in AllSteps : PutOffOn(K[f], L, f, s, T.pending) => PutOffOn(K2[f], L2, f, s, T.pending)
  BY DEF PutOffOn, Softly
<1>12. OrgCovers(T, K2, W2, L2)
  <2>1. OrgCovers(T, K, W, L) BY DEF TermInv
  <2>2. QED BY <1>10, <1>11, <2>1 DEF OrgCovers
<1>13. LaunchCovers(T, K2, W2, L2)
  <2>1. LaunchCovers(T, K, W, L) BY DEF TermInv
  <2>2. L => L2 BY DEF Softly
  <2>3. \A f \in Forks : OpenOn(K[f], L) => OpenOn(K2[f], L2) BY DEF Softly
  <2>4. "protect" \in AllSteps BY DEF AllSteps
  <2>5. QED BY <1>10, <2>1, <2>2, <2>3, <2>4 DEF LaunchCovers
<1>14. DoctorCovers(T, K2, W2)
  <2>1. DoctorCovers(T, K, W) BY DEF TermInv
  <2>2. QED BY <1>10, <2>1 DEF DoctorCovers
<1>15. QED BY <1>1, <1>2, <1>3, <1>4, <1>6, <1>8, <1>12, <1>13, <1>14 DEF TermInv

\* How a command goes on past its first one or two instructions, and what it owes by then.
Moves(T, T2, n) ==
    /\ n \in {1, 2} /\ n <= Len(T.todo) /\ (n = 2 => T.todo[1][1] \in Reads)
    /\ T2.cmd = T.cmd /\ T2.v = T.v /\ Drops(T.todo, T2.todo, n)
    /\ (T2.clean => T.clean) /\ (T.early => T2.early) /\ T.pending \subseteq T2.pending
Settles(T2, K, W, L, s, f) == KeptOn(K[f], W, f, s, T2.v) \/ PutOffOn(K[f], L, f, s, T2.pending)
Owes(T, T2, n, K, W, P, L) ==
    LET op == T.todo[1][1]
        s == T.todo[1][2]
        f == T.todo[1][3]
    IN  /\ op = "box" /\ s = "private" => T2.box = "not-launched"
        /\ op # "box" => T2.box = T.box
        /\ op = "wait" => L
        /\ T.cmd = "org" /\ s = "fork" /\ (op = "apply" \/ (op = "check" /\ n = 2)) => K[f].made
        /\ op = "eligible" /\ n = 1 => ~T2.saw.visited
        /\ op = "check" /\ s = "workflow" /\ n = 1 => T2.saw.version < T.v
        /\ T.cmd = "org" /\ ~T2.early /\ op = "check" /\ s = "disable-inherited" /\ n = 1 => K[f].made /\ K[f].indexed
        /\ T.cmd = "org" /\ op = "mirror" => P # "none"
        /\ T.cmd = "org" /\ T2.clean /\ ~T2.early /\ (op = "apply" \/ (op = "check" /\ n = 2)) => Settles(T2, K, W, L, s, f)
        /\ T.cmd = "launch" /\ (op = "flip" \/ (op = "visible" /\ n = 2)) => OpenOn(K[f], L)
        /\ T.cmd = "launch" /\ op = "verify" => KeptOn(K[f], W, f, "protect", T.v)
        /\ T.cmd = "doctor" /\ T2.clean /\ ~T2.early /\ op = "cell" =>
              KeptOn(K[f], W, f, s, T.v) \/ (s = "protect" /\ f \in T2.pending)

LEMMA ActKeeps ==
    ASSUME NEW T \in TermType, NEW T2 \in TermType, NEW n, Moves(T, T2, n),
           NEW K, K \in [Forks -> ForkType], NEW W, NEW P, NEW L \in BOOLEAN,
           TermInv(T, K, W, P, L), Owes(T, T2, n, K, W, P, L)
    PROVE  TermInv(T2, K, W, P, L)
<1> DEFINE a == T.todo
           b == T2.todo
           op == a[1][1]
           s1 == a[1][2]
           f1 == a[1][3]
<1>1. a \in Seq(Instr) /\ b \in Seq(Instr) BY DEF TermType
<1>2. n \in {1, 2} /\ n <= Len(a) /\ (n = 2 => op \in Reads) /\ Drops(a, b, n) BY DEF Moves
<1>3. /\ T2.cmd = T.cmd /\ T2.v = T.v
      /\ (T2.clean => T.clean) /\ (T.early => T2.early) /\ T.pending \subseteq T2.pending
  BY DEF Moves
<1>4. Paired(a) /\ BoxLeads(a) BY DEF TermInv
<1>5. /\ Paired(b) /\ BoxLeads(b)
      /\ b # <<>> /\ b[1][1] \in Writes => n = 1 /\ a[1] = <<ReadOf(b[1][1]), b[1][2], b[1][3]>>
      /\ n = 2 => a[2] = <<WriteOf(a[1][1]), a[1][2], a[1][3]>>
      /\ n = 1 /\ a[1][1] \in Reads => b # <<>> /\ b[1] = <<WriteOf(a[1][1]), a[1][2], a[1][3]>>
      /\ \A i : Coming(a, i) => Coming(b, i) \/ i = a[1] \/ (n = 2 /\ i = a[2])
      /\ \A q \in 1..Len(b) : \A i : Earlier(a, q + n, i) => Earlier(b, q, i) \/ i = a[1] \/ (n = 2 /\ i = a[2])
  BY <1>1, <1>2, <1>4, DropKeeps, SMTT(40)
<1>6. \A r \in Reads : WriteOf(r) \in Writes BY DEF Reads, Writes, WriteOf
<1>7. n = 2 => a[2][1] \in Writes BY <1>2, <1>5, <1>6
<1>8. /\ \A i : Coming(a, i) /\ i[1] \notin Writes => Coming(b, i) \/ i = a[1]
      /\ \A q \in 1..Len(b) : \A i : Earlier(a, q + n, i) /\ i[1] \notin Writes => Earlier(b, q, i) \/ i = a[1]
  BY <1>5, <1>7
<1>9. \A q \in 1..Len(b) : q + n \in 1..Len(a) /\ b[q] = a[q + n] BY <1>2 DEF Drops
<1>10. Owes(T, T2, n, K, W, P, L) OBVIOUS
<1> DEFINE box == <<"box", "private", "none">>
           wait == <<"wait", "none", "none">>
<1>11. box[1] \notin Writes /\ wait[1] \notin Writes BY DEF Writes
<1>12. BoxFirst(T2)
  <2> SUFFICES ASSUME NEW q \in 1..Len(b), b[q][1] = "hide" PROVE T2.box = "not-launched" \/ Earlier(b, q, box)
    BY DEF BoxFirst
  <2>1. q + n \in 1..Len(a) /\ a[q + n][1] = "hide" BY <1>9
  <2>2. T.box = "not-launched" \/ Earlier(a, q + n, box) BY <2>1 DEF TermInv, BoxFirst
  <2>3. CASE op # "box"
    <3>1. T2.box = T.box BY <2>3 DEF Owes
    <3>2. a[1] # box BY <2>3
    <3>3. QED BY <1>8, <1>11, <2>2, <3>1, <3>2
  <2>4. CASE op = "box"
    <3>1. 1 \in 1..Len(a) /\ 1 < q + n BY <1>1, <1>2
    <3>2. "hide" \in Following(s1) BY <1>4, <2>1, <2>4, <3>1 DEF BoxLeads
    <3>3. s1 = "private" BY <3>2 DEF Following
    <3>4. QED BY <2>4, <3>3 DEF Owes
  <2>5. QED BY <2>3, <2>4
<1>13. WaitFirst(T2, L)
  <2> SUFFICES ASSUME NEW q \in 1..Len(b), b[q][1] \in {"visible", "flip"} PROVE L \/ Earlier(b, q, wait)
    BY DEF WaitFirst
  <2>1. L \/ Earlier(a, q + n, wait) BY <1>9 DEF TermInv, WaitFirst
  <2>2. a[1] = wait => L BY DEF Owes
  <2>3. QED BY <1>8, <1>11, <2>1, <2>2
<1>14. ForkFirst(T2, K)
  <2> SUFFICES ASSUME T.cmd = "org", NEW f \in Forks, NEW q \in 1..Len(b),
                      b[q] \in {<<"check", "disable-inherited", f>>, <<"apply", "disable-inherited", f>>}
               PROVE  K[f].made \/ Earlier(b, q, <<"check", "fork", f>>) \/ Earlier(b, q, <<"apply", "fork", f>>)
    BY <1>3 DEF ForkFirst
  <2> DEFINE look == <<"check", "fork", f>>
             make == <<"apply", "fork", f>>
  <2>1. K[f].made \/ Earlier(a, q + n, look) \/ Earlier(a, q + n, make)
    BY <1>9 DEF TermInv, ForkFirst
  <2>2. look[1] = "check" /\ look[2] = "fork" /\ look[3] = f /\ make[1] = "apply" /\ make[2] = "fork" /\ make[3] = f
        /\ b[q][2] = "disable-inherited"
    OBVIOUS
  <2>3. "check" \notin Writes /\ "check" \in Reads /\ WriteOf("check") = "apply" BY DEF Writes, Reads, WriteOf
  <2> HIDE DEF look, make
  <2>4. CASE a[1] = look
    <3>1. op = "check" /\ s1 = "fork" /\ f1 = f BY <2>2, <2>4
    <3>2. n = 2 => K[f].made BY <3>1 DEF Owes
    <3>3. CASE n = 1 BY <1>5, <2>3, <3>1, <3>3, <2>2, <1>1 DEF make, Earlier
    <3>4. QED BY <1>2, <3>2, <3>3
  <2>5. CASE a[1] = make BY <2>2, <2>5 DEF Owes
  <2>6. CASE a[1] # look /\ a[1] # make
    <3>1. Earlier(a, q + n, look) => Earlier(b, q, look) BY <1>8, <2>2, <2>3, <2>6
    <3>2. CASE n = 2 /\ a[2] = make
      <4>1. op \in Reads /\ make = <<WriteOf(op), s1, f1>> BY <1>2, <1>5, <3>2
      <4>2. WriteOf(op) = "apply" /\ s1 = "fork" /\ f1 = f BY <4>1 DEF make
      <4>3. op = "check" BY <4>1, <4>2 DEF WriteOf, Reads
      <4>4. QED BY <3>2, <4>2, <4>3 DEF Owes
    <3>3. CASE ~(n = 2 /\ a[2] = make)
      <4>1. Earlier(a, q + n, make) => Earlier(b, q, make) BY <1>5, <2>6, <3>3
      <4>2. QED BY <2>1, <3>1, <4>1 DEF look, make
    <3>4. QED BY <3>2, <3>3
  <2>7. QED BY <2>4, <2>5, <2>6
<1>15. ASSUME NEW f \in Forks, NextIs(T2, <<"hide", "none", f>>) PROVE ~T2.saw.visited
  <2>1. b[1][1] = "hide" /\ b[1][2] = "none" /\ b[1][3] = f /\ b # <<>> BY <1>15 DEF NextIs
  <2>2. "hide" \in Writes /\ ReadOf("hide") = "eligible" BY DEF Writes, ReadOf
  <2>3. n = 1 /\ a[1] = <<"eligible", "none", f>> BY <1>5, <2>1, <2>2
  <2>4. op = "eligible" /\ f1 = f BY <2>3
  <2>5. QED BY <2>3, <2>4 DEF Owes
<1>16. ASSUME NEW f \in Forks, NextIs(T2, <<"apply", "workflow", f>>) PROVE T2.saw.version < T2.v
  <2>1. b[1][1] = "apply" /\ b[1][2] = "workflow" /\ b[1][3] = f /\ b # <<>> BY <1>16 DEF NextIs
  <2>2. "apply" \in Writes /\ ReadOf("apply") = "check" BY DEF Writes, ReadOf
  <2>3. n = 1 /\ a[1] = <<"check", "workflow", f>> BY <1>5, <2>1, <2>2
  <2>4. op = "check" /\ s1 = "workflow" /\ f1 = f BY <2>3
  <2>5. QED BY <1>3, <2>3, <2>4 DEF Owes
<1>18. SeenFirst(T2) BY <1>15, <1>16 DEF SeenFirst
<1>17. Indexed(T2, K)
  <2> SUFFICES ASSUME T.cmd = "org", ~T2.early, NEW f \in Forks, b # <<>>, b[1] = <<"apply", "disable-inherited", f>>
               PROVE  K[f].made /\ K[f].indexed
    BY <1>3 DEF Indexed, NextIs
  <2>1. b[1][1] = "apply" /\ b[1][2] = "disable-inherited" /\ b[1][3] = f OBVIOUS
  <2>2. "apply" \in Writes /\ ReadOf("apply") = "check" BY DEF Writes, ReadOf
  <2>3. n = 1 /\ a[1] = <<"check", "disable-inherited", f>> BY <1>5, <2>1, <2>2
  <2>4. op = "check" /\ s1 = "disable-inherited" /\ f1 = f BY <2>3
  <2>5. QED BY <2>3, <2>4 DEF Owes
<1>19. OrgMirrors(T2, P)
  <2> SUFFICES ASSUME T.cmd = "org" PROVE P # "none" \/ Coming(b, <<"mirror", "none", "none">>) BY <1>3 DEF OrgMirrors
  <2> DEFINE mirror == <<"mirror", "none", "none">>
  <2>1. P # "none" \/ Coming(a, mirror) BY DEF TermInv, OrgMirrors
  <2>2. mirror[1] \notin Writes BY DEF Writes
  <2>3. a[1] = mirror => P # "none" BY DEF Owes
  <2>4. QED BY <1>8, <2>1, <2>2, <2>3
<1>20. OrgCovers(T2, K, W, L)
  <2> SUFFICES ASSUME T.cmd = "org", T2.clean, ~T2.early, NEW f \in Forks, NEW s \in AllSteps
               PROVE  \/ Coming(b, <<"check", s, f>>) \/ NextIs(T2, <<"apply", s, f>>)
                      \/ Settles(T2, K, W, L, s, f)
    BY <1>3 DEF OrgCovers, Settles
  <2> DEFINE look == <<"check", s, f>>
             make == <<"apply", s, f>>
  <2>1. \/ Coming(a, look) \/ (a # <<>> /\ a[1] = make) \/ Settles(T2, K, W, L, s, f)
    BY <1>3 DEF TermInv, OrgCovers, PutOffOn, NextIs, Settles
  <2>2. look[1] = "check" /\ look[2] = s /\ look[3] = f /\ make[1] = "apply" /\ make[2] = s /\ make[3] = f OBVIOUS
  <2>3. "check" \notin Writes /\ "check" \in Reads /\ WriteOf("check") = "apply" BY DEF Writes, Reads, WriteOf
  <2> HIDE DEF look, make
  <2>4. CASE a[1] = look
    <3>1. op = "check" /\ s1 = s /\ f1 = f BY <2>2, <2>4
    <3>2. n = 2 => Settles(T2, K, W, L, s, f) BY <3>1 DEF Owes
    <3>3. n = 1 => NextIs(T2, make) BY <1>5, <2>3, <3>1 DEF NextIs, make
    <3>4. QED BY <1>2, <3>2, <3>3 DEF make
  <2>5. CASE a[1] = make
    <3>1. op = "apply" /\ s1 = s /\ f1 = f BY <2>2, <2>5
    <3>2. QED BY <3>1 DEF Owes
  <2>6. CASE a[1] # look /\ a[1] # make
    <3>1. Coming(a, look) => Coming(b, look) BY <1>8, <2>2, <2>3, <2>6
    <3>2. QED BY <2>1, <2>6, <3>1 DEF look
  <2>7. QED BY <2>4, <2>5, <2>6
<1>21. LaunchCovers(T2, K, W, L)
  <2> SUFFICES ASSUME T.cmd = "launch"
               PROVE  /\ L \/ Coming(b, wait)
                      /\ \A f \in Forks :
                            /\ Coming(b, <<"visible", "none", f>>) \/ NextIs(T2, <<"flip", "none", f>>) \/ OpenOn(K[f], L)
                            /\ Coming(b, <<"verify", "protect", f>>) \/ KeptOn(K[f], W, f, "protect", T.v)
    BY <1>3 DEF LaunchCovers
  <2>1. LaunchCovers(T, K, W, L) BY DEF TermInv
  <2>2. a[1] = wait => L BY DEF Owes
  <2>3. L \/ Coming(b, wait) BY <1>8, <1>11, <2>1, <2>2 DEF LaunchCovers
  <2>4. ASSUME NEW f \in Forks PROVE Coming(b, <<"visible", "none", f>>) \/ NextIs(T2, <<"flip", "none", f>>) \/ OpenOn(K[f], L)
    <3> DEFINE look == <<"visible", "none", f>>
               opens == <<"flip", "none", f>>
    <3>1. Coming(a, look) \/ NextIs(T, opens) \/ OpenOn(K[f], L) BY <2>1 DEF LaunchCovers
    <3>2. look[1] = "visible" /\ look[2] = "none" /\ look[3] = f /\ opens[1] = "flip" /\ opens[3] = f OBVIOUS
    <3>3. "visible" \notin Writes /\ "visible" \in Reads /\ WriteOf("visible") = "flip" BY DEF Writes, Reads, WriteOf
    <3> HIDE DEF look, opens
    <3>4. CASE a[1] = look
      <4>1. op = "visible" /\ s1 = "none" /\ f1 = f BY <3>2, <3>4
      <4>2. n = 2 => OpenOn(K[f], L) BY <4>1 DEF Owes
      <4>3. n = 1 => NextIs(T2, opens) BY <1>5, <3>3, <4>1 DEF NextIs, opens
      <4>4. QED BY <1>2, <4>2, <4>3 DEF opens
    <3>5. CASE a[1] = opens
      <4>1. op = "flip" /\ f1 = f BY <3>2, <3>5
      <4>2. QED BY <4>1 DEF Owes
    <3>6. CASE a[1] # look /\ a[1] # opens
      <4>1. Coming(a, look) => Coming(b, look) BY <1>8, <3>2, <3>3, <3>6
      <4>2. QED BY <3>1, <3>6, <4>1 DEF look, NextIs
    <3>7. QED BY <3>4, <3>5, <3>6
  <2>5. ASSUME NEW f \in Forks PROVE Coming(b, <<"verify", "protect", f>>) \/ KeptOn(K[f], W, f, "protect", T.v)
    <3> DEFINE look == <<"verify", "protect", f>>
    <3>1. Coming(a, look) \/ KeptOn(K[f], W, f, "protect", T.v) BY <2>1 DEF LaunchCovers
    <3>2. look[1] = "verify" /\ look[2] = "protect" /\ look[3] = f /\ "verify" \notin Writes BY DEF Writes
    <3> HIDE DEF look
    <3>3. a[1] = look => KeptOn(K[f], W, f, "protect", T.v) BY <3>2 DEF Owes
    <3>4. QED BY <1>8, <3>1, <3>2, <3>3 DEF look
  <2>6. QED BY <2>3, <2>4, <2>5
<1>22. DoctorCovers(T2, K, W)
  <2> SUFFICES ASSUME T.cmd = "doctor", T2.clean, ~T2.early, NEW f \in Forks, NEW s \in AllSteps
               PROVE  Coming(b, <<"cell", s, f>>) \/ KeptOn(K[f], W, f, s, T.v) \/ (s = "protect" /\ f \in T2.pending)
    BY <1>3 DEF DoctorCovers
  <2> DEFINE look == <<"cell", s, f>>
  <2>1. Coming(a, look) \/ KeptOn(K[f], W, f, s, T.v) \/ (s = "protect" /\ f \in T2.pending)
    BY <1>3 DEF TermInv, DoctorCovers
  <2>2. look[1] = "cell" /\ look[2] = s /\ look[3] = f /\ "cell" \notin Writes BY DEF Writes
  <2> HIDE DEF look
  <2>3. a[1] = look => KeptOn(K[f], W, f, s, T.v) \/ (s = "protect" /\ f \in T2.pending) BY <2>2 DEF Owes
  <2>4. QED BY <1>8, <2>1, <2>2, <2>3 DEF look
<1>23. QED
  BY <1>5, <1>12, <1>13, <1>14, <1>17, <1>18, <1>19, <1>20, <1>21, <1>22 DEF TermInv

LEMMA InstrIs ==
    ASSUME NEW i \in Instr
    PROVE  /\ i[1] \in {"check", "apply", "cell", "verify"} => i[2] \in AllSteps /\ i[3] \in Forks
           /\ i[1] \in OnFork => i[2] = "none" /\ i[3] \in Forks
           /\ i[1] \in Once => i[2] = "none" /\ i[3] = "none"
           /\ i[1] = "box" => i[2] \in {"private", "doctor"} /\ i[3] = "none"
           /\ i = <<i[1], i[2], i[3]>>
BY DEF OnFork, Once, Instr

LEMMA RunningIs ==
    ASSUME ProvTyped, NEW t \in Terminals
    PROVE  (Running(t) <=> term[t] \in TermType) /\ (~Running(t) <=> term[t] = NoCommand)
<1>1. NoCommand \notin TermType BY VersionsAre DEF NoCommand, Commands
<1>2. QED BY <1>1 DEF ProvTyped, Running

LEMMA AtOpIs ==
    ASSUME ProvTyped, NEW t \in Terminals, NEW op, AtOp(t, op)
    PROVE  /\ Running(t) /\ term[t] \in TermType /\ term[t].todo \in Seq(Instr) /\ 1 <= Len(term[t].todo)
           /\ term[t].todo[1] \in Instr /\ term[t].todo[1][1] = op
           /\ Step(t) = term[t].todo[1][2] /\ Target(t) = term[t].todo[1][3]
<1>1. Running(t) /\ term[t].todo # <<>> /\ Head(term[t].todo)[1] = op BY DEF AtOp
<1>2. term[t] \in TermType BY <1>1, RunningIs
<1>3. term[t].todo \in Seq(Instr) BY <1>2 DEF TermType
<1>4. Len(term[t].todo) \in Nat /\ 1 <= Len(term[t].todo) BY <1>1, <1>3
<1>5. Head(term[t].todo) = term[t].todo[1] BY <1>1, <1>3
<1>6. term[t].todo[1] \in Instr BY <1>3, <1>4
<1>7. QED BY <1>1, <1>2, <1>3, <1>4, <1>5, <1>6 DEF Step, Target

\* What a step may take back of a fork, k being what it leaves: what NothingUndone lets it.
TakesBack(f, k) ==
    /\ fork[f].public /\ ~k.public => \E t \in Terminals :
          /\ AtOp(t, "hide") /\ Target(t) = f
          /\ launched => term[t].box = "not-launched"
          /\ fork[f].visited => ~term[t].saw.visited
    /\ k.version < fork[f].version => \E t \in Terminals :
          AtOp(t, "apply") /\ Target(t) = f /\ term[t].saw.version < term[t].v

\* What a step leaves of the forks, the package and the event.
World ==
    /\ fork' \in [Forks -> ForkType] /\ package' \in {"none", "private"} /\ launched' \in BOOLEAN /\ weakened' \subseteq Forks
    /\ Firmly(fork, fork', weakened, weakened') /\ Softly(fork, fork', package, package', launched, launched')
    /\ \A f \in Forks : TakesBack(f, fork'[f])

LEMMA WorldSame ==
    ASSUME ProvTyped, UNCHANGED <<fork, launched, weakened>>, package' \in {"none", "private"}, package # "none" => package' # "none"
    PROVE  World
BY VersionsAre DEF ProvTyped, Firmly, Softly, World, TakesBack

LEMMA OneForkChanges ==
    ASSUME ProvTyped, NEW f \in Forks, NEW k \in ForkType, fork' = [fork EXCEPT ![f] = k],
           UNCHANGED <<package, launched>>, weakened' \subseteq Forks,
           fork[f].made => k.made, fork[f].indexed => k.indexed, fork[f].indexed /\ ~fork[f].active => ~k.active,
           \A s \in fork[f].done : s \in k.done \/ (s = "protect" /\ f \in weakened'),
           f \in weakened => f \in weakened' \/ "protect" \in k.done,
           \A g \in weakened : g # f => g \in weakened',
           k.newest >= fork[f].newest, TakesBack(f, k),
           OpenOn(fork[f], launched) => OpenOn(k, launched), ~fork[f].public /\ k.public => launched
    PROVE  World
<1>1. fork \in [Forks -> ForkType] BY DEF ProvTyped
<1>2. fork' \in [Forks -> ForkType] /\ fork'[f] = k /\ \A g \in Forks : g # f => fork'[g] = fork[g] BY <1>1
<1>3. \A g \in Forks : fork[g].version \in Int /\ fork[g].newest \in Int BY <1>1, VersionsAre
<1>4. Firmly(fork, fork', weakened, weakened')
  <2> SUFFICES ASSUME NEW g \in Forks
               PROVE  /\ fork[g].made => fork'[g].made
                      /\ fork[g].indexed => fork'[g].indexed
                      /\ fork[g].indexed /\ ~fork[g].active => ~fork'[g].active
                      /\ \A s \in fork[g].done : s \in fork'[g].done \/ (s = "protect" /\ g \in weakened')
                      /\ g \in weakened => g \in weakened' \/ "protect" \in fork'[g].done
                      /\ fork'[g].newest >= fork[g].newest
    BY DEF Firmly
  <2>1. CASE g = f BY <1>2, <1>3, <2>1
  <2>2. CASE g # f BY <1>2, <1>3, <2>2
  <2>3. QED BY <2>1, <2>2
<1>5. Softly(fork, fork', package, package', launched, launched')
  <2>1. \A g \in Forks : /\ OpenOn(fork[g], launched) => OpenOn(fork'[g], launched')
                         /\ ~fork[g].public /\ fork'[g].public => launched
    BY <1>2
  <2>2. QED BY <2>1 DEF Softly
<1>6. \A g \in Forks : TakesBack(g, fork'[g])
  <2> SUFFICES ASSUME NEW g \in Forks PROVE TakesBack(g, fork'[g]) OBVIOUS
  <2>1. CASE g = f BY <1>2, <2>1
  <2>2. CASE g # f BY <1>2, <1>3, <2>2 DEF TakesBack
  <2>3. QED BY <2>1, <2>2
<1>7. QED BY <1>2, <1>4, <1>5, <1>6 DEF World, ProvTyped

\* A command that starts.
LEMMA StartKeeps ==
    ASSUME NEW T \in TermType, T.todo = Program(T.cmd), T.box = "unknown", NEW K, NEW W, NEW P, NEW L \in BOOLEAN
    PROVE  TermInv(T, K, W, P, L)
<1> DEFINE a == T.todo
           box == <<"box", "private", "none">>
           wait == <<"wait", "none", "none">>
<1>1. T.cmd \in Commands BY VersionsAre
<1>2. Cautious(a) BY <1>1, Programs
<1>3. Plan(a) /\ BoxLeads(a) /\ OrderIn(a, {"hide"}, box) /\ OrderIn(a, {"visible", "flip"}, wait) BY <1>2 DEF Cautious
<1>4. Paired(a) /\ (a # <<>> => a[1][1] \notin Writes) BY <1>3 DEF Plan
<1>5. BoxFirst(T) BY <1>3 DEF BoxFirst, OrderIn
<1>6. WaitFirst(T, L) BY <1>3 DEF WaitFirst, OrderIn
<1>7. ForkFirst(T, K) BY Programs DEF ForkFirst, ForksFirst
<1>8. \A op, s, f : op \in Writes => ~NextIs(T, <<op, s, f>>) BY <1>4 DEF NextIs
<1>9. "apply" \in Writes /\ "hide" \in Writes /\ "flip" \in Writes BY DEF Writes
<1>10. SeenFirst(T) /\ Indexed(T, K) BY <1>8, <1>9 DEF SeenFirst, Indexed
<1>12. OrgMirrors(T, P) BY Programs DEF OrgMirrors
<1>13. OrgCovers(T, K, W, L) BY Programs DEF OrgCovers
<1>14. LaunchCovers(T, K, W, L) BY Programs DEF LaunchCovers
<1>15. DoctorCovers(T, K, W) BY Programs DEF DoctorCovers
<1>16. QED BY <1>3, <1>4, <1>5, <1>6, <1>7, <1>10, <1>12, <1>13, <1>14, <1>15 DEF TermInv

\* privatize_forks that leaves everything as it is.
Clears(T, T2) ==
    /\ T.todo # <<>> /\ T.todo[1] = <<"box", "private", "none">> /\ T2.todo = <<>>
    /\ T2.cmd = T.cmd /\ T2.v = T.v /\ T2.pending = T.pending /\ T2.clean = T.clean /\ T2.early = T.early

LEMMA ClearsKeep ==
    ASSUME NEW T \in TermType, NEW T2 \in TermType, Clears(T, T2),
           NEW K, NEW W, NEW P, NEW L \in BOOLEAN, TermInv(T, K, W, P, L)
    PROVE  TermInv(T2, K, W, P, L)
<1> DEFINE a == T.todo
<1>1. a \in Seq(Instr) /\ a # <<>> /\ T2.todo = <<>> /\ Len(T2.todo) = 0 BY DEF Clears, TermType
<1>2. a[1] = <<"box", "private", "none">> BY DEF Clears
<1>3. a[1][1] = "box" /\ a[1][2] = "private" BY <1>2
<1>4. \A p \in 1..Len(a) : p > 1 => a[p][1] \in {"eligible", "hide"}
  <2>1. BoxLeads(a) BY DEF TermInv
  <2>2. 1 \in 1..Len(a) BY <1>1
  <2>3. QED BY <1>3, <2>1, <2>2 DEF BoxLeads, Following
<1>5. \A i : Coming(a, i) => i[1] \in {"box", "eligible", "hide"}
  <2> SUFFICES ASSUME NEW p \in 1..Len(a) PROVE a[p][1] \in {"box", "eligible", "hide"} BY DEF Coming
  <2>1. p = 1 \/ p > 1 BY <1>1
  <2>2. QED BY <1>3, <1>4, <2>1
<1>6. \A i : NextIs(T, i) => i[1] = "box" BY <1>3 DEF NextIs
<1>7. \A i : ~NextIs(T2, i) BY <1>1 DEF NextIs
<1>8. T2.cmd = T.cmd /\ T2.v = T.v /\ T2.pending = T.pending /\ T2.clean = T.clean /\ T2.early = T.early BY DEF Clears
<1>9. Paired(T2.todo) /\ BoxLeads(T2.todo) /\ BoxFirst(T2) /\ WaitFirst(T2, L) /\ ForkFirst(T2, K)
  BY <1>1 DEF Paired, BoxLeads, BoxFirst, WaitFirst, ForkFirst
<1>10. SeenFirst(T2) /\ Indexed(T2, K) BY <1>7 DEF SeenFirst, Indexed
<1>11. OrgMirrors(T2, P) BY <1>5, <1>8 DEF TermInv, OrgMirrors
<1>12. OrgCovers(T2, K, W, L)
  <2>1. \A s, f : ~Coming(a, <<"check", s, f>>) /\ ~NextIs(T, <<"apply", s, f>>) BY <1>5, <1>6
  <2>2. OrgCovers(T, K, W, L) BY DEF TermInv
  <2>3. QED BY <1>8, <2>1, <2>2 DEF OrgCovers
<1>13. LaunchCovers(T2, K, W, L) BY <1>5, <1>6, <1>8 DEF TermInv, LaunchCovers
<1>14. DoctorCovers(T2, K, W)
  <2>1. \A s, f : ~Coming(a, <<"cell", s, f>>) BY <1>5
  <2>2. DoctorCovers(T, K, W) BY DEF TermInv
  <2>3. QED BY <1>8, <2>1, <2>2 DEF DoctorCovers
<1>15. QED BY <1>9, <1>10, <1>11, <1>12, <1>13, <1>14 DEF TermInv

\* What a step of one terminal does to the commands: the others rest, its own stops or goes on.
Others(t) == \A u \in Terminals : u # t => term'[u] = term[u]
GoesOn(t) == \E n \in {1, 2} :
    Moves(term[t], term'[t], n) /\ Owes(term[t], term'[t], n, fork', weakened', package', launched')
Acts(t) ==
    /\ term' \in [Terminals -> TermType \union {NoCommand}] /\ Others(t) /\ Running(t)
    /\ term'[t] = NoCommand \/ (term'[t] \in TermType /\ (GoesOn(t) \/ Clears(term[t], term'[t])))

LEMMA StopsIs ==
    ASSUME ProvTyped, NEW t \in Terminals, Running(t), Stops(t)
    PROVE  Acts(t)
BY DEF ProvTyped, Stops, Others, Acts

\* A command whose record is edited.
LEMMA EditIs ==
    ASSUME ProvTyped, NEW t \in Terminals, term[t] \in TermType, NEW T2 \in TermType, term' = [term EXCEPT ![t] = T2]
    PROVE  term' \in [Terminals -> TermType \union {NoCommand}] /\ Others(t) /\ term'[t] = T2 /\ term'[t] \in TermType
BY DEF ProvTyped, Others

LEMMA TodoIs ==
    ASSUME NEW T \in TermType, NEW b \in Seq(Instr)
    PROVE  /\ [T EXCEPT !.todo = b] \in TermType
           /\ \A T2 : T2 = [T EXCEPT !.todo = b] =>
                 /\ T2.cmd = T.cmd /\ T2.v = T.v /\ T2.todo = b /\ T2.box = T.box
                 /\ T2.pending = T.pending /\ T2.clean = T.clean /\ T2.early = T.early
BY DEF TermType

LEMMA OnwardIs ==
    ASSUME ProvTyped, NEW t \in Terminals, term[t] \in TermType, NEW n \in {1, 2}, n <= Len(term[t].todo),
           n = 2 => term[t].todo[1][1] \in Reads, Onward(t, n)
    PROVE  /\ term' \in [Terminals -> TermType \union {NoCommand}] /\ Others(t) /\ term'[t] \in TermType
           /\ Moves(term[t], term'[t], n)
           /\ term'[t].box = term[t].box /\ term'[t].pending = term[t].pending
           /\ term'[t].clean = term[t].clean /\ term'[t].early = term[t].early
<1> DEFINE T == term[t]
           b == SubSeq(T.todo, n + 1, Len(T.todo))
           T2 == [T EXCEPT !.todo = b]
<1>1. T.todo \in Seq(Instr) BY DEF TermType
<1>2. Drops(T.todo, b, n) BY <1>1, Dropped
<1>3. b \in Seq(Instr) BY <1>2 DEF Drops
<1>4. term' = [term EXCEPT ![t] = T2] BY DEF Onward
<1> HIDE DEF b
<1>5. /\ T2 \in TermType /\ T2.cmd = T.cmd /\ T2.v = T.v /\ T2.todo = b /\ T2.box = T.box
      /\ T2.pending = T.pending /\ T2.clean = T.clean /\ T2.early = T.early
  BY <1>3, TodoIs
<1> HIDE DEF T2
<1>6. term' \in [Terminals -> TermType \union {NoCommand}] /\ Others(t) /\ term'[t] = T2 /\ term'[t] \in TermType
  BY <1>4, <1>5, EditIs
<1>7. QED BY <1>2, <1>5, <1>6 DEF Moves

LEMMA UncleanIs ==
    ASSUME ProvTyped, NEW t \in Terminals, term[t] \in TermType, 1 <= Len(term[t].todo), Unclean(t, 1)
    PROVE  /\ term' \in [Terminals -> TermType \union {NoCommand}] /\ Others(t) /\ term'[t] \in TermType
           /\ Moves(term[t], term'[t], 1)
           /\ term'[t].box = term[t].box /\ term'[t].pending = term[t].pending
           /\ term'[t].clean = FALSE /\ term'[t].early = term[t].early
<1> DEFINE T == term[t]
           b == SubSeq(T.todo, 1 + 1, Len(T.todo))
           T2 == [T EXCEPT !.todo = b, !.clean = FALSE]
<1>1. T.todo \in Seq(Instr) BY DEF TermType
<1>2. Drops(T.todo, b, 1) BY <1>1, Dropped
<1>3. b \in Seq(Instr) BY <1>2 DEF Drops
<1>4. term' = [term EXCEPT ![t] = T2] BY DEF Unclean
<1> HIDE DEF b
<1>5. /\ T2 \in TermType /\ T2.cmd = T.cmd /\ T2.v = T.v /\ T2.todo = b /\ T2.box = T.box
      /\ T2.pending = T.pending /\ T2.clean = FALSE /\ T2.early = T.early
  BY <1>3 DEF TermType
<1> HIDE DEF T2
<1>6. term' \in [Terminals -> TermType \union {NoCommand}] /\ Others(t) /\ term'[t] = T2 /\ term'[t] \in TermType
  BY <1>4, <1>5, EditIs
<1>7. QED BY <1>2, <1>5, <1>6 DEF Moves

\* A command that goes past one instruction.
LEMMA PastIs ==
    ASSUME ProvTyped, NEW t \in Terminals, term[t] \in TermType, 1 <= Len(term[t].todo),
           NEW T2 \in TermType, term' = [term EXCEPT ![t] = T2],
           T2.cmd = term[t].cmd, T2.v = term[t].v, T2.todo = Tail(term[t].todo),
           T2.clean => term[t].clean, term[t].early => T2.early, term[t].pending \subseteq T2.pending
    PROVE  /\ term' \in [Terminals -> TermType \union {NoCommand}] /\ Others(t) /\ term'[t] = T2
           /\ Moves(term[t], T2, 1)
<1>1. term[t].todo \in Seq(Instr) BY DEF TermType
<1>2. 1 \in {1, 2} OBVIOUS
<1>3. Drops(term[t].todo, Tail(term[t].todo), 1) BY <1>1, <1>2, Dropped
<1>4. term' \in [Terminals -> TermType \union {NoCommand}] /\ Others(t) /\ term'[t] = T2 BY EditIs
<1>5. Moves(term[t], T2, 1) BY <1>2, <1>3 DEF Moves
<1>6. QED BY <1>4, <1>5

\* Where the rest of the world and the running commands come to.
LEMMA WorldKeeps ==
    ASSUME ProvTyped, RunInv, World
    PROVE  \A u \in Terminals : Running(u) => TermInv(term[u], fork', weakened', package', launched')
<1> SUFFICES ASSUME NEW u \in Terminals, Running(u) PROVE TermInv(term[u], fork', weakened', package', launched')
  OBVIOUS
<1> DEFINE T == term[u]
<1>1. T \in TermType BY RunningIs
<1>2. TermInv(T, fork, weakened, package, launched) BY DEF RunInv
<1>3. fork \in [Forks -> ForkType] /\ launched \in BOOLEAN BY DEF ProvTyped
<1>4. fork' \in [Forks -> ForkType] /\ launched' \in BOOLEAN
      /\ Firmly(fork, fork', weakened, weakened') /\ Softly(fork, fork', package, package', launched, launched')
  BY DEF World
<1> HIDE DEF T
<1>8. TermInv(T, fork', weakened', package', launched') BY <1>1, <1>2, <1>3, <1>4, RestKeeps
<1>10. QED BY <1>8 DEF T

LEMMA ToldStays ==
    ASSUME ProvTyped, RunInv, World, NEW c \in Commands, told[c] # Silent, NEW f \in Forks, NEW s \in AllSteps
    PROVE  /\ KeptOn(fork[f], weakened, f, s, told[c].v) => KeptOn(fork'[f], weakened', f, s, told[c].v)
           /\ PutOffOn(fork[f], launched, f, s, told[c].pending) => PutOffOn(fork'[f], launched', f, s, told[c].pending)
           /\ OpenOn(fork[f], launched) => OpenOn(fork'[f], launched')
<1>1. told[c] \in SaidType BY DEF ProvTyped
<1>2. told[c].v \in Checkouts BY <1>1 DEF SaidType
<1>3. fork \in [Forks -> ForkType] /\ fork' \in [Forks -> ForkType] /\ Firmly(fork, fork', weakened, weakened')
  BY DEF ProvTyped, World
<1>4. KeptOn(fork[f], weakened, f, s, told[c].v) => KeptOn(fork'[f], weakened', f, s, told[c].v)
  BY <1>2, <1>3, KeptStays
<1>5. Softly(fork, fork', package, package', launched, launched') BY DEF World
<1>6. QED BY <1>4, <1>5 DEF Softly, PutOffOn

LEMMA ToldKeeps ==
    ASSUME ProvTyped, RunInv, World, UNCHANGED told
    PROVE  ToldTrue'
<1>1. /\ Sure("org") => package # "none" /\ \A f \in Forks, s \in AllSteps :
          KeptOn(fork[f], weakened, f, s, told["org"].v) \/ PutOffOn(fork[f], launched, f, s, told["org"].pending)
      /\ Sure("doctor") => \A f \in Forks, s \in AllSteps :
          KeptOn(fork[f], weakened, f, s, told["doctor"].v) \/ (s = "protect" /\ f \in told["doctor"].pending)
      /\ told["launch"] # Silent => \A f \in Forks :
          OpenOn(fork[f], launched) /\ KeptOn(fork[f], weakened, f, "protect", told["launch"].v)
  BY DEF RunInv, ToldTrue
<1>2. package # "none" => package' # "none" BY DEF World, Softly
<1>4. {"org", "doctor", "launch"} \subseteq Commands /\ "protect" \in AllSteps BY DEF Commands, AllSteps
<1>5. /\ Sure("org") => package' # "none" /\ \A f \in Forks, s \in AllSteps :
          KeptOn(fork'[f], weakened', f, s, told["org"].v) \/ PutOffOn(fork'[f], launched', f, s, told["org"].pending)
  BY <1>1, <1>2, <1>4, ToldStays DEF Sure
<1>6. Sure("doctor") => \A f \in Forks, s \in AllSteps :
          KeptOn(fork'[f], weakened', f, s, told["doctor"].v) \/ (s = "protect" /\ f \in told["doctor"].pending)
  BY <1>1, <1>4, ToldStays DEF Sure
<1>7. told["launch"] # Silent => \A f \in Forks :
          OpenOn(fork'[f], launched') /\ KeptOn(fork'[f], weakened', f, "protect", told["launch"].v)
  BY <1>1, <1>4, ToldStays
<1>8. told' = told OBVIOUS
<1> DEFINE sure(r) == r # Silent /\ r.clean /\ ~r.early
<1>9. QED BY <1>5, <1>6, <1>7, <1>8 DEF ToldTrue, Sure

\* A step of one terminal.
LEMMA StepKeeps ==
    ASSUME ProvTyped, RunInv, World, NEW t \in Terminals, Acts(t)
    PROVE  \A u \in Terminals : Running(u)' => TermInv(term'[u], fork', weakened', package', launched')
<1>1. \A u \in Terminals : Running(u) => TermInv(term[u], fork', weakened', package', launched') BY WorldKeeps
<1>2. Others(t) /\ Running(t) BY DEF Acts
<1>3. term[t] \in TermType BY <1>2, RunningIs
<1>4. CASE term'[t] = NoCommand BY <1>2, <1>4, <1>1 DEF Running, Others
<1>5. CASE term'[t] \in TermType /\ (GoesOn(t) \/ Clears(term[t], term'[t]))
  <2>2. \A u \in Terminals : Running(u)' => Running(u) BY <1>2 DEF Running, Others
  <2>4. fork' \in [Forks -> ForkType] /\ launched' \in BOOLEAN BY DEF World
  <2>5. TermInv(term[t], fork', weakened', package', launched') BY <1>1, <1>2
  <2>6. TermInv(term'[t], fork', weakened', package', launched')
    <3>1. CASE Clears(term[t], term'[t]) BY <1>3, <1>5, <2>4, <2>5, <3>1, ClearsKeep
    <3>2. CASE GoesOn(t) BY <3>2, <1>3, <1>5, <2>4, <2>5, ActKeeps DEF GoesOn
    <3>3. QED BY <1>5, <3>1, <3>2
  <2>7. \A u \in Terminals : Running(u)' => TermInv(term'[u], fork', weakened', package', launched')
    BY <1>1, <1>2, <2>2, <2>6 DEF Others
  <2>8. QED BY <2>7
<1>6. QED BY <1>4, <1>5 DEF Acts

(***************************************************************************)
(* Provision: each step of a terminal.                                       *)
(***************************************************************************)
\* An instruction that reads, goes past one instruction or stops, and owes little.
LEMMA PlainActs ==
    ASSUME ProvTyped, NEW t \in Terminals, NEW op, AtOp(t, op),
           op \in {"preflight", "package", "refuse", "grant"},
           Onward(t, 1) \/ Unclean(t, 1) \/ Stops(t)
    PROVE  Acts(t)
<1>1. /\ Running(t) /\ term[t] \in TermType /\ 1 <= Len(term[t].todo) /\ term[t].todo[1][1] = op BY AtOpIs
<1>2. CASE Stops(t) BY <1>1, <1>2, StopsIs
<1>3. CASE Onward(t, 1) \/ Unclean(t, 1)
  <2> DEFINE Past == /\ term' \in [Terminals -> TermType \union {NoCommand}] /\ Others(t) /\ term'[t] \in TermType
                     /\ Moves(term[t], term'[t], 1) /\ term'[t].box = term[t].box
  <2>1. 1 \in {1, 2} /\ 1 # 2 OBVIOUS
  <2>2. Onward(t, 1) => Past BY <1>1, <2>1, OnwardIs
  <2>3. Unclean(t, 1) => Past BY <1>1, UncleanIs
  <2>4. Past BY <1>3, <2>2, <2>3
  <2>5. Owes(term[t], term'[t], 1, fork', weakened', package', launched') BY <1>1, <2>4 DEF Owes
  <2>6. QED BY <1>1, <2>1, <2>4, <2>5 DEF Acts, GoesOn
<1>4. QED BY <1>2, <1>3

LEMMA PreflightActs ==
    ASSUME ProvTyped, RunInv, NEW t \in Terminals, Preflight(t) PROVE World /\ Acts(t) /\ UNCHANGED told
BY WorldSame, PlainActs DEF Preflight, ProvTyped

LEMMA PackagePrivateActs ==
    ASSUME ProvTyped, RunInv, NEW t \in Terminals, PackagePrivate(t) PROVE World /\ Acts(t) /\ UNCHANGED told
BY WorldSame, PlainActs DEF PackagePrivate, ProvTyped

LEMMA RefuseActs ==
    ASSUME ProvTyped, RunInv, NEW t \in Terminals, Refuse(t) PROVE World /\ Acts(t) /\ UNCHANGED told
BY WorldSame, PlainActs DEF Refuse, ProvTyped

LEMMA GrantActs ==
    ASSUME ProvTyped, RunInv, NEW t \in Terminals, Grant(t) PROVE World /\ Acts(t) /\ UNCHANGED told
BY WorldSame, PlainActs DEF Grant, ProvTyped

LEMMA WaitActs ==
    ASSUME ProvTyped, RunInv, NEW t \in Terminals, Wait(t) PROVE World /\ Acts(t) /\ UNCHANGED told
<1>1. /\ UNCHANGED <<fork, package, launched, told, weakened>> /\ AtOp(t, "wait")
      /\ (launched /\ Onward(t, 1)) \/ Stops(t)
  BY DEF Wait
<1>2. World BY <1>1, WorldSame DEF ProvTyped
<1>3. /\ Running(t) /\ term[t] \in TermType /\ 1 <= Len(term[t].todo) /\ term[t].todo[1][1] = "wait" BY <1>1, AtOpIs
<1>4. CASE Stops(t) BY <1>1, <1>2, <1>3, <1>4, StopsIs
<1>5. CASE launched /\ Onward(t, 1) BY <1>3, <1>5, OnwardIs, <1>1, <1>2 DEF Owes, Acts, GoesOn
<1>6. QED BY <1>1, <1>4, <1>5

LEMMA MirrorActs ==
    ASSUME ProvTyped, RunInv, NEW t \in Terminals, Mirror(t) PROVE World /\ Acts(t) /\ UNCHANGED told
<1>1. UNCHANGED <<fork, launched, told, weakened>> /\ AtOp(t, "mirror") BY DEF Mirror
<1>2. \/ package' = (IF package = "none" THEN "private" ELSE package) /\ Onward(t, 1)
      \/ UNCHANGED package /\ Stops(t)
      \/ UNCHANGED package /\ term[t].cmd # "org" /\ Onward(t, 1)
  BY DEF Mirror
<1>3. package \in {"none", "private"} BY DEF ProvTyped
<1>4. package' \in {"none", "private"} /\ (package # "none" => package' # "none") BY <1>2, <1>3
<1>5. World BY <1>1, <1>4, WorldSame
<1>6. /\ Running(t) /\ term[t] \in TermType /\ 1 <= Len(term[t].todo) /\ term[t].todo[1][1] = "mirror" BY <1>1, AtOpIs
<1>7. CASE Stops(t) BY <1>1, <1>5, <1>6, <1>7, StopsIs
<1>8. CASE Onward(t, 1) /\ (term[t].cmd = "org" => package' # "none")
  BY <1>6, <1>8, OnwardIs, <1>1, <1>5 DEF Owes, Acts, GoesOn
<1>9. QED BY <1>2, <1>3, <1>7, <1>8

LEMMA ReadEligibleActs ==
    ASSUME ProvTyped, RunInv, NEW t \in Terminals, ReadEligible(t) PROVE World /\ Acts(t) /\ UNCHANGED told
<1>1. UNCHANGED <<fork, package, launched, told, weakened>> /\ AtOp(t, "eligible") BY DEF ReadEligible
<1> DEFINE T == term[t]
           f == T.todo[1][3]
           saw == Looked(f)
           T2 == [T EXCEPT !.todo = Tail(T.todo), !.saw = saw]
<1>3. World BY <1>1, WorldSame DEF ProvTyped
<1>4. /\ Running(t) /\ T \in TermType /\ 1 <= Len(T.todo) /\ T.todo[1][1] = "eligible"
      /\ T.todo[1] \in Instr /\ Target(t) = f /\ T.todo \in Seq(Instr)
  BY <1>1, AtOpIs
<1>2. (~fork[f].visited /\ term' = [term EXCEPT ![t].todo = Tail(@), ![t].saw = saw]) \/ Onward(t, 2)
  BY <1>4 DEF ReadEligible, Eligible
<1>5. "eligible" \in Reads /\ 2 <= Len(T.todo) BY <1>4 DEF RunInv, TermInv, TermType, Paired, Reads
<1>6. f \in Forks /\ Tail(T.todo) \in Seq(Instr)
  <2> DEFINE i == term[t].todo[1]
  <2>1. i \in Instr /\ i[1] \in OnFork BY <1>4 DEF OnFork
  <2> HIDE DEF i
  <2>2. i[3] \in Forks BY <2>1, InstrIs
  <2>3. QED BY <1>4, <2>2, HeadTailProperties DEF i
<1>7. ASSUME ~fork[f].visited, term' = [term EXCEPT ![t].todo = Tail(@), ![t].saw = saw] PROVE Acts(t)
  <2>1. saw \in SawType /\ ~saw.visited BY <1>6, <1>7 DEF ProvTyped, ForkType, SawType, Looked
  <2>2. term' = [term EXCEPT ![t] = T2] BY <1>7
  <2> HIDE DEF saw
  <2>3. /\ T2 \in TermType /\ T2.cmd = T.cmd /\ T2.v = T.v /\ T2.todo = Tail(T.todo) /\ T2.box = T.box
        /\ T2.pending = T.pending /\ T2.clean = T.clean /\ T2.early = T.early /\ T2.saw = saw
    BY <1>4, <1>6, <2>1 DEF TermType
  <2> HIDE DEF T2
  <2>4. term' \in [Terminals -> TermType \union {NoCommand}] /\ Others(t) /\ term'[t] = T2 /\ Moves(T, T2, 1)
    BY <1>4, <2>2, <2>3, PastIs
  <2>5. Owes(T, T2, 1, fork', weakened', package', launched') BY <1>4, <2>1, <2>3 DEF Owes
  <2>6. QED BY <1>4, <2>3, <2>4, <2>5 DEF Acts, GoesOn
<1>8. ASSUME Onward(t, 2) PROVE Acts(t)
  <2>1. 2 \in {1, 2} OBVIOUS
  <2>2. /\ term' \in [Terminals -> TermType \union {NoCommand}] /\ Others(t) /\ term'[t] \in TermType
        /\ Moves(T, term'[t], 2) /\ term'[t].box = T.box
    BY <1>4, <1>5, <1>8, <2>1, OnwardIs
  <2>3. Owes(T, term'[t], 2, fork', weakened', package', launched') BY <1>4, <2>2 DEF Owes
  <2>4. QED BY <1>4, <2>1, <2>2, <2>3 DEF Acts, GoesOn
<1>9. QED BY <1>1, <1>2, <1>3, <1>7, <1>8

LEMMA VerifyActs ==
    ASSUME ProvTyped, RunInv, NEW t \in Terminals, Verify(t) PROVE World /\ Acts(t) /\ UNCHANGED told
<1>1. UNCHANGED <<fork, package, launched, told, weakened>> /\ AtOp(t, "verify") BY DEF Verify
<1>2. (Holds(Target(t), "protect", term[t].v) /\ Onward(t, 1)) \/ Stops(t) BY DEF Verify
<1>3. World BY <1>1, WorldSame DEF ProvTyped
<1>4. /\ Running(t) /\ term[t] \in TermType /\ 1 <= Len(term[t].todo) /\ term[t].todo[1][1] = "verify"
      /\ Target(t) = term[t].todo[1][3]
  BY <1>1, AtOpIs
<1>5. CASE Stops(t) BY <1>1, <1>3, <1>4, <1>5, StopsIs
<1>6. CASE Holds(Target(t), "protect", term[t].v) /\ Onward(t, 1)
  <2>1. /\ term' \in [Terminals -> TermType \union {NoCommand}] /\ Others(t) /\ term'[t] \in TermType
        /\ Moves(term[t], term'[t], 1) /\ term'[t].box = term[t].box
    BY <1>4, <1>6, OnwardIs
  <2>2. KeptOn(fork[Target(t)], weakened, Target(t), "protect", term[t].v) BY <1>6 DEF KeptOn, HoldsOn, Holds
  <2>3. Owes(term[t], term'[t], 1, fork', weakened', package', launched') BY <1>1, <1>4, <2>1, <2>2 DEF Owes
  <2>4. QED BY <1>1, <1>3, <1>4, <2>1, <2>3 DEF Acts, GoesOn
<1>7. QED BY <1>2, <1>5, <1>6

LEMMA ReadVisibleActs ==
    ASSUME ProvTyped, RunInv, NEW t \in Terminals, ReadVisible(t) PROVE World /\ Acts(t) /\ UNCHANGED told
<1>1. UNCHANGED <<fork, package, launched, told, weakened>> /\ AtOp(t, "visible") BY DEF ReadVisible
<1>2. Onward(t, 1) \/ (fork[Target(t)].public /\ Onward(t, 2)) \/ Stops(t) BY DEF ReadVisible
<1>3. World BY <1>1, WorldSame DEF ProvTyped
<1>4. /\ Running(t) /\ term[t] \in TermType /\ 1 <= Len(term[t].todo) /\ term[t].todo[1][1] = "visible"
      /\ Target(t) = term[t].todo[1][3] /\ Len(term[t].todo) \in Nat
  BY <1>1, AtOpIs, LenProperties
<1>5. 1 \in 1..Len(term[t].todo) /\ TermInv(term[t], fork, weakened, package, launched) BY <1>4 DEF RunInv
<1>6. "visible" \in Reads /\ 2 <= Len(term[t].todo)
  <2>1. Paired(term[t].todo) BY <1>5 DEF TermInv
  <2>2. 1 + 1 \in 1..Len(term[t].todo) BY <1>4, <1>5, <2>1 DEF Paired
  <2>3. QED BY <1>4, <2>2 DEF Reads
<1>7. launched
  <2>1. WaitFirst(term[t], launched) BY <1>5 DEF TermInv
  <2>2. ~Earlier(term[t].todo, 1, <<"wait", "none", "none">>) BY <1>4 DEF Earlier
  <2>3. QED BY <1>4, <1>5, <2>1, <2>2 DEF WaitFirst
<1>8. CASE Stops(t) BY <1>1, <1>3, <1>4, <1>8, StopsIs
<1>9. ASSUME NEW n \in {1, 2}, Onward(t, n), n = 2 => fork[Target(t)].public PROVE Acts(t)
  BY <1>4, <1>6, <1>9, OnwardIs, <1>1, <1>7 DEF Owes, Acts, GoesOn, OpenOn
<1>10. QED BY <1>1, <1>2, <1>3, <1>8, <1>9

\* A command that goes on from a check, and notes whether GitHub had yet to index.
\* t goes on after n instructions, with what it saw.
Noted(t, n, saw, e) ==
    term' = [term EXCEPT ![t].todo = SubSeq(@, n + 1, Len(@)), ![t].saw = saw, ![t].early = @ \/ e]

LEMMA NotedIs ==
    ASSUME ProvTyped, NEW t \in Terminals, term[t] \in TermType, NEW n \in {1, 2}, n <= Len(term[t].todo),
           n = 2 => term[t].todo[1][1] \in Reads, NEW e \in BOOLEAN, NEW saw \in SawType,
           Noted(t, n, saw, e)
    PROVE  /\ term' \in [Terminals -> TermType \union {NoCommand}] /\ Others(t) /\ term'[t] \in TermType
           /\ Moves(term[t], term'[t], n)
           /\ term'[t].box = term[t].box /\ (term'[t].early <=> term[t].early \/ e) /\ term'[t].saw = saw
<1> DEFINE T == term[t]
           b == SubSeq(T.todo, n + 1, Len(T.todo))
           early == T.early \/ e
           T2 == [T EXCEPT !.todo = b, !.saw = saw, !.early = early]
<1>1. T.todo \in Seq(Instr) /\ early \in BOOLEAN BY DEF TermType
<1>2. Drops(T.todo, b, n) BY <1>1, Dropped
<1>3. b \in Seq(Instr) BY <1>2 DEF Drops
<1>4. term' = [term EXCEPT ![t] = T2] BY DEF Noted
<1>8. T.early => early OBVIOUS
<1>9. early <=> term[t].early \/ e OBVIOUS
<1> HIDE DEF b, early
<1>5. /\ T2 \in TermType /\ T2.cmd = T.cmd /\ T2.v = T.v /\ T2.todo = b /\ T2.box = T.box
      /\ T2.pending = T.pending /\ T2.clean = T.clean /\ T2.early = early /\ T2.saw = saw
  BY <1>1, <1>3 DEF TermType
<1> HIDE DEF T2
<1>6. term' \in [Terminals -> TermType \union {NoCommand}] /\ Others(t) /\ term'[t] = T2 /\ term'[t] \in TermType
  BY <1>4, <1>5, EditIs
<1>7. QED BY <1>2, <1>5, <1>6, <1>8, <1>9 DEF Moves

LEMMA HoldsIs ==
    ASSUME NEW f, NEW s, NEW v PROVE Holds(f, s, v) <=> HoldsOn(fork[f], f, s, v)
BY DEF Holds, HoldsOn

LEMMA CheckActs ==
    ASSUME ProvTyped, RunInv, NEW t \in Terminals, Check(t) PROVE World /\ Acts(t) /\ UNCHANGED told
<1> DEFINE f == term[t].todo[1][3]
           s == term[t].todo[1][2]
           v == term[t].v
           e == s = "disable-inherited" /\ fork[f].made /\ ~fork[f].indexed
           K == fork[f]
<1>1. UNCHANGED <<fork, package, launched, told, weakened>> /\ AtOp(t, "check") BY DEF Check
<1>2. World BY <1>1, WorldSame DEF ProvTyped
<1>3. /\ Running(t) /\ term[t] \in TermType /\ 1 <= Len(term[t].todo) /\ term[t].todo[1][1] = "check"
      /\ term[t].todo[1] \in Instr /\ Step(t) = s /\ Target(t) = f /\ term[t].todo \in Seq(Instr)
  BY <1>1, AtOpIs
<1> DEFINE onto(n, saw) == Noted(t, n, saw, e)
           done == Holds(f, s, v)
<1>4. (~done /\ onto(1, Looked(f))) \/ (done /\ onto(2, Unseen)) \/ onto(1, Unseen)
  <2> DEFINE m == IF done THEN 2 ELSE 1
  <2>1. onto(m, IF m = 1 THEN Looked(f) ELSE Unseen) \/ onto(1, Unseen) BY <1>3 DEF Check, Noted
  <2> HIDE DEF onto, done
  <2>2. QED BY <2>1
<1>5. s \in AllSteps /\ f \in Forks
  <2> DEFINE i == term[t].todo[1]
  <2>1. i \in Instr /\ i[1] = "check" BY <1>3
  <2> HIDE DEF i
  <2>2. i[2] \in AllSteps /\ i[3] \in Forks BY <2>1, InstrIs
  <2>3. QED BY <2>2 DEF i
<1>6. K \in ForkType /\ e \in BOOLEAN BY <1>5 DEF ProvTyped, ForkType
<1>7. TermInv(term[t], fork, weakened, package, launched) BY <1>3 DEF RunInv
<1>8. Len(term[t].todo) \in Nat /\ 1 \in 1..Len(term[t].todo) BY <1>3
<1>9. 2 <= Len(term[t].todo) /\ term[t].todo[2] = <<"apply", s, f>>
  BY <1>7, <1>3, <1>8 DEF TermInv, WriteOf, Paired
<1>10. "check" \in Reads BY DEF Reads
<1>11. PICK n \in {1, 2}, saw \in {Looked(f), Unseen} :
         onto(n, saw) /\ (n = 2 => done) /\ (n = 1 => saw = Unseen \/ ~done)
  <2> HIDE DEF onto, done
  <2>1. QED BY <1>4
<1>21. v \in Int /\ Absent \in Int /\ 1 \in Checkouts /\ v \in Nat BY <1>3, VersionsAre, ProvAssumption DEF Absent
<1>22. saw \in SawType /\ (n = 1 /\ s = "workflow" => saw.version < v)
  <2>1. Looked(f) \in SawType /\ Looked(f).version = K.version
    BY <1>6 DEF Looked, SawType, ForkType
  <2>2. Unseen \in SawType /\ Unseen.version = Absent BY DEF Unseen, SawType, Versions
  <2>3. s = "workflow" /\ ~done => K.version < v BY <1>6, <1>21, VersionsAre DEF Holds, AppliesTo
  <2>4. Absent < v BY <1>21 DEF Absent
  <2> HIDE DEF done
  <2>5. QED BY <1>11, <2>1, <2>2, <2>3, <2>4
<1>20. s = "disable-inherited" /\ fork[f].made => fork[f].indexed \/ e OBVIOUS
<1> HIDE DEF e
<1>12. /\ term' \in [Terminals -> TermType \union {NoCommand}] /\ Others(t) /\ term'[t] \in TermType
       /\ Moves(term[t], term'[t], n)
       /\ term'[t].box = term[t].box /\ (term'[t].early <=> term[t].early \/ e) /\ term'[t].saw = saw
  <2>1. n <= Len(term[t].todo) BY <1>8, <1>9
  <2>2. n = 2 => term[t].todo[1][1] \in Reads BY <1>3, <1>10
  <2>3. e \in BOOLEAN /\ term[t] \in TermType BY <1>3, <1>6
  <2>6. saw \in SawType /\ n \in {1, 2} BY <1>11, <1>22
  <2>5. QED BY <1>11, <2>1, <2>2, <2>3, <2>6, NotedIs
<1>13. ASSUME n = 2 PROVE HoldsOn(fork[f], f, s, v) BY <1>11, <1>13, HoldsIs
<1>14. ASSUME n = 2, s = "fork" PROVE fork[f].made BY <1>14, <1>13 DEF AppliesTo, HoldsOn
<1>15. n = 1 /\ s = "workflow" => term'[t].saw.version < v BY <1>12, <1>22
<1>16. ASSUME term[t].cmd = "org", ~term'[t].early, s = "disable-inherited", n = 1 PROVE fork[f].made /\ fork[f].indexed
  <2>1. ForkFirst(term[t], fork) BY <1>7 DEF TermInv
  <2>2. \A i : ~Earlier(term[t].todo, 1, i) BY DEF Earlier
  <2>3. term[t].todo[1] = <<"check", "disable-inherited", f>> BY <1>3, <1>16, InstrIs
  <2>4. fork[f].made BY <1>5, <1>8, <1>16, <2>1, <2>2, <2>3 DEF ForkFirst
  <2>5. QED BY <1>12, <1>16, <1>20, <2>4
<1>17. ASSUME ~term'[t].early, n = 2 PROVE Settles(term'[t], fork, weakened, launched, s, f)
  <2>1. term'[t].v = v BY <1>12 DEF Moves
  <2>2. s = "disable-inherited" => fork[f].indexed BY <1>13, <1>17, <1>12, <1>20 DEF AppliesTo, HoldsOn
  <2>3. KeptOn(fork[f], weakened, f, s, v) BY <1>13, <1>17, <2>2 DEF KeptOn
  <2>4. QED BY <2>1, <2>3 DEF Settles
<1> HIDE DEF s, f, v
<1>18. Owes(term[t], term'[t], n, fork', weakened', package', launched')
  BY <1>1, <1>3, <1>12, <1>14, <1>15, <1>16, <1>17 DEF Owes, s, f, v
<1>19. QED BY <1>1, <1>2, <1>3, <1>12, <1>18 DEF Acts, GoesOn

\* What an apply comes to.
Branched(k) == [k EXCEPT !.done = @ \union {"branch"}]
OutcomeOf(f, s, v, o) ==
    /\ o.to = fork[f] \/ o.to = Applied(f, s, v) \/ (s = "ctf-branch" /\ o.to = Branched(fork[f]))
    /\ o.rc \in {0, 1, 2}
    /\ o.rc = 0 /\ s \notin Swallowed => o.to = Applied(f, s, v)
    /\ o.rc = 2 => s = "protect" /\ ~fork[f].public /\ o.to = fork[f]

LEMMA OutcomeIs ==
    ASSUME NEW f, NEW s \in AllSteps, NEW v, NEW o \in Answered(f, s, v) \union Faulty(f, s, v)
    PROVE  OutcomeOf(f, s, v, o)
<1> DEFINE rc == IF s \in Swallowed THEN 0 ELSE 1
           done == Applied(f, s, v)
           half == Branched(fork[f])
<1>1. \A to, r : Outcome(to, r).to = to /\ Outcome(to, r).rc = r BY DEF Outcome
<1>2. /\ Refusal(f, s) \in {0, 1, 2} /\ (Refusal(f, s) = 0 => s \in Swallowed)
      /\ Refusal(f, s) = 2 => s = "protect" /\ ~fork[f].public
  BY DEF Refusal, ProtectRefusal, Swallowed
<1>3. o \in Answered(f, s, v) => o = Outcome(done, 0) \/ o = Outcome(fork[f], Refusal(f, s)) BY DEF Answered
<1>4. o \in Faulty(f, s, v) => o = Outcome(fork[f], rc) \/ o = Outcome(done, rc) \/ (o = Outcome(half, rc) /\ s = "ctf-branch")
  BY DEF Faulty, Branched
<1>5. rc \in {0, 1} /\ (rc = 0 => s \in Swallowed) OBVIOUS
<1> HIDE DEF rc, done, half
<1>6. CASE o = Outcome(done, 0) BY <1>1, <1>6 DEF OutcomeOf, done
<1>7. CASE o = Outcome(fork[f], Refusal(f, s)) BY <1>1, <1>2, <1>7 DEF OutcomeOf
<1>8. CASE o = Outcome(fork[f], rc) \/ o = Outcome(done, rc) \/ (o = Outcome(half, rc) /\ s = "ctf-branch")
  BY <1>1, <1>8, <1>5 DEF OutcomeOf, done, half
<1>9. QED BY <1>3, <1>4, <1>6, <1>7, <1>8

\* A step that is applied adds to the fork.
Adds(k, k2, s, v) ==
    /\ k2 \in ForkType /\ (k.made => k2.made) /\ k2.indexed = k.indexed /\ (~k.active => ~k2.active)
    /\ k.done \subseteq k2.done /\ k2.public = k.public /\ k2.shut = k.shut /\ k2.newest >= k.newest
    /\ k2.version = k.version \/ (s = "workflow" /\ k2.version = v)

Achieves(f, s, v) == (s = "disable-inherited" => fork[f].made) => HoldsOn(Applied(f, s, v), f, s, v)

LEMMA AppliedAdds ==
    ASSUME NEW f, fork[f] \in ForkType, NEW s \in AllSteps, NEW v \in Checkouts, NEW o, OutcomeOf(f, s, v, o)
    PROVE  Adds(fork[f], o.to, s, v) /\ Achieves(f, s, v)
<1> DEFINE k == fork[f]
           a == Applied(f, s, v)
<1>1. k \in ForkType /\ k.version \in Int /\ k.newest \in Int BY VersionsAre
<1>2. a = CASE s = "fork" -> [k EXCEPT !.made = TRUE]
            [] s = "workflow" -> [k EXCEPT !.version = v, !.newest = IF @ > v THEN @ ELSE v]
            [] s = "disable-inherited" -> [k EXCEPT !.active = FALSE]
            [] s = "ctf-branch" -> [k EXCEPT !.done = @ \union {"branch", s}]
            [] OTHER -> [k EXCEPT !.done = @ \union {s}]
  BY DEF Applied
<1> DEFINE Comes == Adds(k, a, s, v) /\ ((s = "disable-inherited" => k.made) => HoldsOn(a, f, s, v))
<1> HIDE DEF k, a
<1>3. Adds(k, k, s, v) BY <1>1 DEF Adds
<1>4. ASSUME NEW d \in SUBSET (AllSteps \union {"branch"})
      PROVE  LET x == [k EXCEPT !.done = @ \union d] IN Adds(k, x, s, v) /\ x.done = k.done \union d
  BY <1>1 DEF Adds, ForkType
<1>5. ASSUME s = "fork" PROVE Comes
  <2>1. a = [k EXCEPT !.made = TRUE] BY <1>2, <1>5
  <2>4. a \in ForkType /\ a.newest = k.newest BY <1>1, <2>1 DEF ForkType
  <2>5. a.newest >= k.newest BY <1>1, <2>4
  <2>2. Adds(k, a, s, v) /\ a.made = TRUE BY <1>1, <2>1, <2>4, <2>5 DEF Adds, ForkType
  <2>3. QED BY <1>5, <2>2 DEF HoldsOn
<1>6. ASSUME s = "workflow" PROVE Comes
  <2> DEFINE top == IF k.newest > v THEN k.newest ELSE v
  <2>1. a = [k EXCEPT !.version = v, !.newest = top] BY <1>2, <1>6
  <2>3. v \in Int /\ v \in Versions BY VersionsAre DEF Versions
  <2>5. top \in Versions /\ top >= v /\ top >= k.newest BY <1>1, <2>3 DEF ForkType
  <2> HIDE DEF top
  <2>2. Adds(k, a, s, v) /\ a.version = v BY <1>1, <1>6, <2>1, <2>3, <2>5 DEF Adds, ForkType
  <2>4. a.version >= v BY <2>2, <2>3
  <2>6. QED BY <1>6, <2>2, <2>4 DEF HoldsOn
<1>7. ASSUME s = "disable-inherited" PROVE Comes
  <2>1. a = [k EXCEPT !.active = FALSE] BY <1>2, <1>7
  <2>4. a \in ForkType /\ a.newest = k.newest BY <1>1, <2>1 DEF ForkType
  <2>5. a.newest >= k.newest BY <1>1, <2>4
  <2>2. Adds(k, a, s, v) /\ a.active = FALSE /\ a.made = k.made BY <1>1, <2>1, <2>4, <2>5 DEF Adds, ForkType
  <2>3. QED BY <1>7, <2>2 DEF HoldsOn
<1>8. ASSUME s \notin {"fork", "workflow", "disable-inherited"} PROVE Comes
  <2>1. \E d \in SUBSET (AllSteps \union {"branch"}) : s \in d /\ a = [k EXCEPT !.done = @ \union d]
    <3>1. CASE s = "ctf-branch"
      <4>1. a = [k EXCEPT !.done = @ \union {"branch", s}] BY <1>2, <3>1
      <4>2. QED BY <4>1
    <3>2. CASE s # "ctf-branch"
      <4>1. a = [k EXCEPT !.done = @ \union {s}] BY <1>2, <1>8, <3>2
      <4>2. QED BY <4>1
    <3>3. QED BY <3>1, <3>2
  <2>2. Adds(k, a, s, v) /\ s \in a.done BY <1>4, <2>1
  <2>3. QED BY <1>8, <2>2 DEF HoldsOn
<1>9. Comes BY <1>5, <1>6, <1>7, <1>8
<1>10. Adds(k, Branched(k), s, v) BY <1>4 DEF Branched
<1>11. QED BY <1>3, <1>9, <1>10 DEF k, a, OutcomeOf, Achieves

\* The record of a command past a step that it applied.
LEMMA AppliedIs ==
    ASSUME ProvTyped, NEW t \in Terminals, term[t] \in TermType, 1 <= Len(term[t].todo),
           NEW F \in SUBSET Forks, NEW c \in BOOLEAN,
           term' = [term EXCEPT ![t].todo = Tail(@), ![t].saw = Unseen, ![t].pending = @ \union F, ![t].clean = @ /\ c]
    PROVE  /\ term' \in [Terminals -> TermType \union {NoCommand}] /\ Others(t) /\ term'[t] \in TermType
           /\ Moves(term[t], term'[t], 1)
           /\ term'[t].box = term[t].box /\ term'[t].early = term[t].early
           /\ term'[t].pending = term[t].pending \union F /\ (term'[t].clean => c)
<1> DEFINE T == term[t]
           b == Tail(T.todo)
           clean == T.clean /\ c
           saw == Unseen
           pending == T.pending \union F
           T2 == [T EXCEPT !.todo = b, !.saw = saw, !.pending = pending, !.clean = clean]
<1>1. T.todo \in Seq(Instr) /\ clean \in BOOLEAN /\ pending \in SUBSET Forks /\ T.pending \subseteq pending /\ saw \in SawType
  BY DEF TermType, SawType, Unseen, Versions
<1>9. clean => T.clean /\ c OBVIOUS
<1>8. pending = term[t].pending \union F OBVIOUS
<1>2. 1 \in {1, 2} OBVIOUS
<1>3. Drops(T.todo, b, 1) BY <1>1, <1>2, Dropped
<1>4. b \in Seq(Instr) BY <1>3 DEF Drops
<1>5. term' = [term EXCEPT ![t] = T2] OBVIOUS
<1> HIDE DEF b, clean, pending, saw
<1>6. /\ T2 \in TermType /\ T2.cmd = T.cmd /\ T2.v = T.v /\ T2.todo = b /\ T2.box = T.box
      /\ T2.pending = pending /\ T2.clean = clean /\ T2.early = T.early
  BY <1>1, <1>4 DEF TermType
<1> HIDE DEF T2
<1>7. term' \in [Terminals -> TermType \union {NoCommand}] /\ Others(t) /\ term'[t] = T2 /\ term'[t] \in TermType
  BY <1>5, <1>6, EditIs
<1>10. Moves(T, T2, 1) BY <1>1, <1>2, <1>3, <1>6, <1>9 DEF Moves
<1>11. QED BY <1>6, <1>7, <1>8, <1>9, <1>10

\* What an apply does to the fork and to what is put off.
Adjusts(t, f, s, o) ==
    /\ fork' = [fork EXCEPT ![f] = o.to]
    /\ weakened' = IF s = "protect" /\ s \in o.to.done THEN weakened \ {f} ELSE weakened

LEMMA AdjustsWorld ==
    ASSUME ProvTyped, UNCHANGED <<package, launched>>,
           NEW t \in Terminals, Running(t), NEW f \in Forks, NEW s \in AllSteps, NEW o,
           Adjusts(t, f, s, o), Adds(fork[f], o.to, s, term[t].v), AtOp(t, "apply"), Target(t) = f,
           s = "workflow" => term[t].saw.version < term[t].v
    PROVE  World
<1> DEFINE k == o.to
<1>1. k \in ForkType /\ fork' = [fork EXCEPT ![f] = k] BY DEF Adds, Adjusts
<1>2. /\ fork[f].made => k.made
      /\ fork[f].indexed => k.indexed
      /\ fork[f].indexed /\ ~fork[f].active => ~k.active
      /\ k.public = fork[f].public /\ k.shut = fork[f].shut /\ k.newest >= fork[f].newest
      /\ fork[f].done \subseteq k.done
      /\ k.version = fork[f].version \/ (s = "workflow" /\ k.version = term[t].v)
  BY DEF Adds
<1>3. weakened \subseteq Forks BY DEF ProvTyped
<1>4. weakened' = IF s = "protect" /\ s \in k.done THEN weakened \ {f} ELSE weakened BY DEF Adjusts
<1> HIDE DEF k
<1>5. /\ weakened' \subseteq Forks
      /\ f \in weakened => f \in weakened' \/ "protect" \in k.done
      /\ \A g \in weakened : g # f => g \in weakened'
  BY <1>3, <1>4
<1>6. fork[f].version \in Int BY VersionsAre DEF ProvTyped
<1>7. TakesBack(f, k) BY <1>2, <1>6 DEF TakesBack
<1>8. OpenOn(fork[f], launched) => OpenOn(k, launched) BY <1>2 DEF OpenOn
<1>9. \A x \in fork[f].done : x \in k.done \/ (x = "protect" /\ f \in weakened') BY <1>2
<1>10. QED BY <1>1, <1>2, <1>5, <1>7, <1>8, <1>9, OneForkChanges

LEMMA ApplyComes ==
    ASSUME ProvTyped, RunInv, NEW t \in Terminals, UNCHANGED <<package, launched>>, Running(t), term[t] \in TermType,
           1 <= Len(term[t].todo), NEW f \in Forks, NEW s \in AllSteps, NEW v \in Checkouts, v = term[t].v,
           NextIs(term[t], <<"apply", s, f>>), AtOp(t, "apply"), Target(t) = f,
           NEW o, o \in Answered(f, s, v) \union Faulty(f, s, v), ApplyTo(t, f, s, o)
    PROVE  World /\ Acts(t)
<1>7. TermInv(term[t], fork, weakened, package, launched) BY DEF RunInv
<1>8. fork[f] \in ForkType BY DEF ProvTyped
<1>9. OutcomeOf(f, s, v, o) BY OutcomeIs
<1>10. Adds(fork[f], o.to, s, v) /\ Achieves(f, s, v) BY <1>8, <1>9, AppliedAdds
<1>11. term[t].todo[1][1] = "apply" /\ term[t].todo[1][2] = s /\ term[t].todo[1][3] = f BY DEF NextIs
<1>12. Adjusts(t, f, s, o) BY DEF ApplyTo, Adjusts
<1>13. s = "workflow" => term[t].saw.version < v BY <1>7 DEF TermInv, SeenFirst
<1>14. World BY <1>10, <1>12, <1>13, AdjustsWorld
<1> DEFINE F == IF o.rc = 2 THEN {f} ELSE {}
           c == s \in Swallowed => o.to = Applied(f, s, v)
<1>15. CASE Stops(t) BY <1>14, <1>15, StopsIs
<1>16. CASE /\ ~EndsCommand(term[t].cmd, s, o.rc)
            /\ term' = [term EXCEPT ![t].todo = Tail(@), ![t].saw = Unseen, ![t].pending = @ \union F, ![t].clean = @ /\ c]
  <2>1. F \in SUBSET Forks /\ c \in BOOLEAN OBVIOUS
  <2>2. (o.rc = 2 => f \in F) /\ (c /\ s \in Swallowed => o.to = Applied(f, s, v)) OBVIOUS
  <2> HIDE DEF F, c
  <2>3. /\ term' \in [Terminals -> TermType \union {NoCommand}] /\ Others(t) /\ term'[t] \in TermType
        /\ Moves(term[t], term'[t], 1)
        /\ term'[t].box = term[t].box /\ term'[t].early = term[t].early
        /\ term'[t].pending = term[t].pending \union F /\ (term'[t].clean => c)
    BY <1>16, <2>1, AppliedIs
  <2>4. fork'[f] = o.to BY <1>12 DEF Adjusts, ProvTyped
  <2>5. fork' \in [Forks -> ForkType] BY <1>14 DEF World
  <2>6. o.rc = 0 \/ o.rc = 2 \/ term[t].cmd # "org" BY <1>9, <1>16 DEF EndsCommand, OutcomeOf
  <2>7. ASSUME term[t].cmd = "org", s = "fork" PROVE fork'[f].made
    BY <1>9, <2>6, <2>7, <1>10, <2>4 DEF Swallowed, OutcomeOf, AppliesTo, Achieves, HoldsOn
  <2>8. ASSUME term[t].cmd = "org", term'[t].clean, ~term'[t].early
        PROVE  Settles(term'[t], fork', weakened', launched', s, f)
    <3>1. term'[t].v = v BY <2>3 DEF Moves
    <3>2. CASE o.rc = 2 BY <1>9, <2>2, <2>3, <2>4, <3>2 DEF PutOffOn, OutcomeOf, Settles
    <3>3. CASE o.rc = 0
      <4>1. o.to = Applied(f, s, v) BY <1>9, <2>2, <2>3, <2>8, <3>3 DEF OutcomeOf
      <4>2. s = "disable-inherited" => fork[f].made /\ fork[f].indexed BY <1>7, <2>3, <2>8 DEF TermInv, Indexed
      <4>3. HoldsOn(fork'[f], f, s, v) BY <1>10, <2>4, <4>1, <4>2 DEF Achieves
      <4>4. s = "disable-inherited" => fork'[f].indexed BY <1>10, <2>4, <4>2 DEF Adds
      <4>5. KeptOn(fork'[f], weakened', f, s, v) BY <4>3, <4>4 DEF KeptOn
      <4>6. QED BY <3>1, <4>5 DEF Settles
    <3>4. QED BY <2>6, <2>8, <3>2, <3>3
  <2>9. Owes(term[t], term'[t], 1, fork', weakened', package', launched')
    BY <1>11, <2>3, <2>7, <2>8 DEF Owes
  <2>10. 1 \in {1, 2} OBVIOUS
  <2>11. QED BY <1>14, <2>3, <2>9, <2>10 DEF Acts, GoesOn
<1>17. \/ Stops(t)
       \/ /\ ~EndsCommand(term[t].cmd, s, o.rc)
          /\ term' = [term EXCEPT ![t].todo = Tail(@), ![t].saw = Unseen, ![t].pending = @ \union F, ![t].clean = @ /\ c]
  <2> DEFINE g(p) == IF o.rc = 2 THEN p \union {f} ELSE p
  <2>1. \A p : g(p) = p \union F OBVIOUS
  <2>2. CASE EndsCommand(term[t].cmd, s, o.rc) BY <2>2 DEF ApplyTo
  <2>3. CASE ~EndsCommand(term[t].cmd, s, o.rc)
    <3>1. term' = [term EXCEPT ![t].todo = Tail(@), ![t].saw = Unseen, ![t].pending = g(@), ![t].clean = @ /\ c] BY <2>3 DEF ApplyTo
    <3>2. g(term[t].pending) = term[t].pending \union F BY <2>1
    <3> HIDE DEF g, F, c
    <3>3. term' = [term EXCEPT ![t].todo = Tail(@), ![t].saw = Unseen, ![t].pending = @ \union F, ![t].clean = @ /\ c] BY <3>1, <3>2
    <3>4. QED BY <2>3, <3>3
  <2>4. QED BY <2>2, <2>3
<1>18. QED BY <1>15, <1>16, <1>17

LEMMA ApplyActs ==
    ASSUME ProvTyped, RunInv, NEW t \in Terminals, Apply(t) PROVE World /\ Acts(t) /\ UNCHANGED told
<1> DEFINE f == term[t].todo[1][3]
           s == term[t].todo[1][2]
           v == term[t].v
<1>1. UNCHANGED <<package, launched, told>> /\ AtOp(t, "apply") BY DEF Apply
<1>3. /\ Running(t) /\ term[t] \in TermType /\ 1 <= Len(term[t].todo) /\ term[t].todo[1][1] = "apply"
      /\ term[t].todo[1] \in Instr /\ Step(t) = s /\ Target(t) = f /\ term[t].todo \in Seq(Instr)
  BY <1>1, AtOpIs
<1>4. PICK o \in Answered(f, s, v) \union Faulty(f, s, v) : ApplyTo(t, f, s, o)
  <2>1. Step(t) = s /\ Target(t) = f BY <1>3
  <2> HIDE DEF s, f
  <2>2. QED BY <2>1 DEF Apply
<1>5. s \in AllSteps /\ f \in Forks /\ term[t].todo[1] = <<"apply", s, f>>
  <2> DEFINE i == term[t].todo[1]
  <2>1. i \in Instr /\ i[1] = "apply" BY <1>3
  <2> HIDE DEF i
  <2>2. i[2] \in AllSteps /\ i[3] \in Forks /\ i = <<i[1], i[2], i[3]>> BY <2>1, InstrIs
  <2>3. QED BY <2>1, <2>2 DEF i
<1>6. v \in Checkouts BY <1>3, VersionsAre
<1>7. UNCHANGED told /\ NextIs(term[t], <<"apply", s, f>>) BY <1>3, <1>1, <1>5 DEF NextIs
<1>8. World /\ Acts(t) BY <1>1, <1>3, <1>4, <1>5, <1>6, <1>7, ApplyComes
<1>9. QED BY <1>7, <1>8

LEMMA CellActs ==
    ASSUME ProvTyped, RunInv, NEW t \in Terminals, Cell(t) PROVE World /\ Acts(t) /\ UNCHANGED told
<1> DEFINE f == term[t].todo[1][3]
           s == term[t].todo[1][2]
           v == term[t].v
           e == s = "disable-inherited" /\ fork[f].made /\ ~fork[f].indexed
           T == term[t]
<1>1. UNCHANGED <<fork, package, launched, told, weakened>> /\ AtOp(t, "cell") BY DEF Cell
<1>2. World BY <1>1, WorldSame DEF ProvTyped
<1>3. /\ Running(t) /\ T \in TermType /\ 1 <= Len(T.todo) /\ T.todo[1][1] = "cell"
      /\ T.todo[1] \in Instr /\ Step(t) = s /\ Target(t) = f /\ T.todo \in Seq(Instr)
  BY <1>1, AtOpIs
<1>4. s \in AllSteps /\ f \in Forks
  <2> DEFINE i == term[t].todo[1]
  <2>1. i \in Instr /\ i[1] = "cell" BY <1>3
  <2> HIDE DEF i
  <2>2. i[2] \in AllSteps /\ i[3] \in Forks BY <2>1, InstrIs
  <2>3. QED BY <2>2 DEF i
<1>5. fork[f] \in ForkType /\ e \in BOOLEAN BY <1>4 DEF ProvTyped, ForkType
<1>6. Tail(T.todo) \in Seq(Instr) BY <1>3, HeadTailProperties
<1> DEFINE noted == Holds(f, s, v) /\ term' = [term EXCEPT ![t].todo = Tail(@), ![t].early = @ \/ e]
           put == s = "protect" /\ term' = [term EXCEPT ![t].todo = Tail(@), ![t].pending = @ \union {f}]
<1>7. noted \/ put \/ Unclean(t, 1) BY <1>3 DEF Cell
<1>8. s = "disable-inherited" /\ fork[f].made => fork[f].indexed \/ e OBVIOUS
<1>9. 1 \in {1, 2} OBVIOUS
<1>10. noted => Acts(t)
  <2> SUFFICES ASSUME noted PROVE Acts(t) OBVIOUS
  <2> DEFINE early == T.early \/ e
             b == Tail(T.todo)
             T2 == [T EXCEPT !.todo = b, !.early = early]
  <2>1. term' = [term EXCEPT ![t] = T2] OBVIOUS
  <2>2. early \in BOOLEAN /\ (T.early => early) /\ (~early => ~e) BY <1>3, <1>5 DEF TermType
  <2>3. HoldsOn(fork[f], f, s, v) BY HoldsIs
  <2>12. b \in Seq(Instr) /\ b = Tail(term[t].todo) BY <1>6
  <2> HIDE DEF noted, early, e, s, f, b
  <2>4. /\ T2 \in TermType /\ T2.cmd = T.cmd /\ T2.v = T.v /\ T2.todo = b /\ T2.box = T.box
        /\ T2.pending = T.pending /\ T2.clean = T.clean /\ T2.early = early
    BY <1>3, <2>2, <2>12 DEF TermType
  <2> HIDE DEF T2
  <2>5. /\ term' \in [Terminals -> TermType \union {NoCommand}] /\ Others(t) /\ term'[t] = T2
        /\ Moves(term[t], T2, 1)
    BY <1>3, <2>1, <2>2, <2>4, <2>12, PastIs
  <2>6. ASSUME ~T2.early PROVE KeptOn(fork[f], weakened, f, s, v)
    <3>1. ~e BY <2>2, <2>4, <2>6
    <3>2. s = "disable-inherited" => fork[f].indexed BY <2>3, <1>8, <3>1 DEF AppliesTo, HoldsOn
    <3>3. QED BY <2>3, <3>2 DEF KeptOn
  <2>7. Owes(term[t], T2, 1, fork', weakened', package', launched') BY <1>1, <1>3, <2>4, <2>6 DEF Owes, s, f
  <2>8. QED BY <1>3, <1>9, <2>4, <2>5, <2>7 DEF Acts, GoesOn
<1>11. put => Acts(t)
  <2> SUFFICES ASSUME put PROVE Acts(t) OBVIOUS
  <2> DEFINE pending == T.pending \union {f}
             b == Tail(T.todo)
             T2 == [T EXCEPT !.todo = b, !.pending = pending]
  <2>1. term' = [term EXCEPT ![t] = T2] OBVIOUS
  <2>2. pending \in SUBSET Forks /\ T.pending \subseteq pending /\ f \in pending BY <1>3, <1>4 DEF TermType
  <2>3. s = "protect" OBVIOUS
  <2>12. b \in Seq(Instr) /\ b = Tail(term[t].todo) BY <1>6
  <2> HIDE DEF put, pending, e, s, f, b
  <2>4. /\ T2 \in TermType /\ T2.cmd = T.cmd /\ T2.v = T.v /\ T2.todo = b /\ T2.box = T.box
        /\ T2.pending = pending /\ T2.clean = T.clean /\ T2.early = T.early
    BY <1>3, <2>2, <2>12 DEF TermType
  <2> HIDE DEF T2
  <2>5. /\ term' \in [Terminals -> TermType \union {NoCommand}] /\ Others(t) /\ term'[t] = T2
        /\ Moves(term[t], T2, 1)
    BY <1>3, <2>1, <2>2, <2>4, <2>12, PastIs
  <2>7. Owes(term[t], T2, 1, fork', weakened', package', launched') BY <1>1, <1>3, <2>2, <2>3, <2>4 DEF Owes, s, f
  <2>8. QED BY <1>3, <1>9, <2>4, <2>5, <2>7 DEF Acts, GoesOn
<1>12. CASE Unclean(t, 1)
  <2>1. /\ term' \in [Terminals -> TermType \union {NoCommand}] /\ Others(t) /\ term'[t] \in TermType
        /\ Moves(term[t], term'[t], 1) /\ term'[t].box = term[t].box /\ term'[t].clean = FALSE
    BY <1>3, <1>12, UncleanIs
  <2>2. Owes(term[t], term'[t], 1, fork', weakened', package', launched') BY <1>3, <2>1 DEF Owes
  <2>3. QED BY <1>1, <1>2, <1>3, <1>9, <2>1, <2>2 DEF Acts, GoesOn
<1>13. QED BY <1>1, <1>2, <1>7, <1>10, <1>11, <1>12

LEMMA ReadBoxActs ==
    ASSUME ProvTyped, RunInv, NEW t \in Terminals, ReadBox(t) PROVE World /\ Acts(t) /\ UNCHANGED told
<1> DEFINE s == term[t].todo[1][2]
           T == term[t]
<1>1. UNCHANGED <<fork, package, launched, told, weakened>> /\ AtOp(t, "box") BY DEF ReadBox
<1>2. World BY <1>1, WorldSame DEF ProvTyped
<1>3. /\ Running(t) /\ T \in TermType /\ 1 <= Len(T.todo) /\ T.todo[1][1] = "box"
      /\ T.todo[1] \in Instr /\ Step(t) = s /\ T.todo \in Seq(Instr)
  BY <1>1, AtOpIs
<1>4. s \in {"private", "doctor"} /\ T.todo[1] = <<"box", s, "none">>
  <2> DEFINE i == term[t].todo[1]
  <2>1. i \in Instr /\ i[1] = "box" BY <1>3
  <2> HIDE DEF i
  <2>2. i[2] \in {"private", "doctor"} /\ i[3] = "none" /\ i = <<i[1], i[2], i[3]>> BY <2>1, InstrIs
  <2>3. QED BY <2>1, <2>2 DEF i
<1>5. T.todo # <<>> /\ Tail(T.todo) \in Seq(Instr)
  <2>1. T.todo \in Seq(Instr) /\ T.todo # <<>> BY <1>3
  <2>2. QED BY <2>1, HeadTailProperties
<1>6. PICK state \in {BoxSays, "unknown"} :
         term' = [term EXCEPT ![t].box = state,
                              ![t].todo = IF s = "private" /\ StaysOpen(state) THEN <<>> ELSE Tail(@)]
  BY <1>3 DEF ReadBox
<1>7. state \in {"unknown", "launched", "not-launched"} /\ (launched => state # "not-launched") BY DEF BoxSays
<1> DEFINE b == IF s = "private" /\ StaysOpen(state) THEN <<>> ELSE Tail(T.todo)
           T2 == [T EXCEPT !.box = state, !.todo = b]
<1>8. term' = [term EXCEPT ![t] = T2] BY <1>6
<1>9. b \in Seq(Instr) BY <1>5
<1>10. s = "private" /\ state # "not-launched" => b = <<>> BY DEF StaysOpen
<1>11. ~(s = "private" /\ state # "not-launched") => b = Tail(term[t].todo) BY DEF StaysOpen
<1> HIDE DEF b, s
<1>12. /\ T2 \in TermType /\ T2.cmd = T.cmd /\ T2.v = T.v /\ T2.todo = b /\ T2.box = state
       /\ T2.pending = T.pending /\ T2.clean = T.clean /\ T2.early = T.early
  BY <1>3, <1>7, <1>9 DEF TermType
<1> HIDE DEF T2
<1>13. 1 \in {1, 2} OBVIOUS
<1>14. CASE s = "private" /\ state # "not-launched"
  <2>1. Clears(T, T2) BY <1>4, <1>5, <1>10, <1>12, <1>14 DEF Clears
  <2>2. term' \in [Terminals -> TermType \union {NoCommand}] /\ Others(t) /\ term'[t] = T2 BY <1>3, <1>8, <1>12, EditIs
  <2>3. QED BY <1>1, <1>2, <1>3, <1>12, <2>1, <2>2 DEF Acts
<1>15. CASE ~(s = "private" /\ state # "not-launched")
  <2>1. /\ term' \in [Terminals -> TermType \union {NoCommand}] /\ Others(t) /\ term'[t] = T2
        /\ Moves(term[t], T2, 1)
    BY <1>3, <1>8, <1>11, <1>12, <1>15, PastIs
  <2>2. Owes(term[t], T2, 1, fork', weakened', package', launched') BY <1>1, <1>3, <1>7, <1>12, <1>15 DEF Owes, s
  <2>3. QED BY <1>1, <1>2, <1>3, <1>12, <1>13, <2>1, <2>2 DEF Acts, GoesOn
<1>16. QED BY <1>14, <1>15

\* A fork that is hidden or opened.
LEMMA TurnsWorld ==
    ASSUME ProvTyped, UNCHANGED <<package, launched, weakened>>, NEW f \in Forks,
           NEW k, k = Hidden(fork[f]) \/ k = Opened(fork[f]), fork' = [fork EXCEPT ![f] = k],
           TakesBack(f, k), ~fork[f].public /\ k.public => launched
    PROVE  World /\ fork'[f] = k
<1>1. fork[f] \in ForkType /\ launched \in BOOLEAN BY DEF ProvTyped
<1>2. /\ k \in ForkType /\ k.made = fork[f].made /\ k.indexed = fork[f].indexed /\ k.active = fork[f].active
      /\ k.done = fork[f].done /\ k.newest = fork[f].newest /\ (launched => k.public \/ k.shut)
  BY <1>1 DEF ForkType, Hidden, Opened
<1>3. k.newest >= fork[f].newest BY <1>1, <1>2, VersionsAre
<1>4. weakened' \subseteq Forks BY DEF ProvTyped
<1>5. OpenOn(fork[f], launched) => OpenOn(k, launched) BY <1>2 DEF OpenOn
<1>6. \A s \in fork[f].done : s \in k.done \/ (s = "protect" /\ f \in weakened') BY <1>2
<1>7. World BY <1>2, <1>3, <1>4, <1>5, <1>6, OneForkChanges
<1>8. QED BY <1>7 DEF ProvTyped

LEMMA HideActs ==
    ASSUME ProvTyped, RunInv, NEW t \in Terminals, Hide(t) PROVE World /\ Acts(t) /\ UNCHANGED told
<1> DEFINE f == term[t].todo[1][3]
           T == term[t]
<1>1. UNCHANGED <<package, launched, told, weakened>> /\ AtOp(t, "hide") /\ Written(t) BY DEF Hide
<1>3. /\ Running(t) /\ T \in TermType /\ 1 <= Len(T.todo) /\ T.todo[1][1] = "hide"
      /\ T.todo[1] \in Instr /\ Target(t) = f /\ T.todo \in Seq(Instr)
  BY <1>1, AtOpIs
<1>4. f \in Forks /\ T.todo[1] = <<"hide", "none", f>>
  <2> DEFINE i == term[t].todo[1]
  <2>1. i \in Instr /\ i[1] = "hide" /\ i[1] \in OnFork BY <1>3 DEF OnFork
  <2> HIDE DEF i
  <2>2. i[2] = "none" /\ i[3] \in Forks /\ i = <<i[1], i[2], i[3]>> BY <2>1, InstrIs
  <2>3. QED BY <2>1, <2>2 DEF i
<1>5. UNCHANGED fork \/ fork' = [fork EXCEPT ![f] = Hidden(@)]
  <2>1. Target(t) = f BY <1>3
  <2> HIDE DEF f
  <2>2. QED BY <2>1 DEF Hide
<1>7. TermInv(T, fork, weakened, package, launched) BY <1>3 DEF RunInv
<1>8. 1 \in 1..Len(T.todo) /\ T.todo # <<>>
  <2>1. Len(T.todo) \in Nat BY <1>3
  <2>2. QED BY <1>3, <2>1
<1>9. T.box = "not-launched"
  <2>1. \A i : ~Earlier(T.todo, 1, i) BY DEF Earlier
  <2>2. QED BY <1>3, <1>7, <1>8, <2>1 DEF TermInv, BoxFirst
<1>10. ~T.saw.visited
  <2>1. NextIs(T, <<"hide", "none", f>>) BY <1>4, <1>8 DEF NextIs
  <2>2. QED BY <1>4, <1>7, <2>1 DEF TermInv, SeenFirst
<1>11. fork[f] \in ForkType /\ fork[f].version \in Int BY <1>4, VersionsAre DEF ProvTyped
<1>12. Hidden(fork[f]).public = FALSE /\ Hidden(fork[f]).version = fork[f].version BY <1>11 DEF Hidden, ForkType
<1>13. TakesBack(f, Hidden(fork[f])) BY <1>1, <1>3, <1>9, <1>10, <1>11, <1>12 DEF TakesBack
<1> DEFINE b == Tail(T.todo)
           saw == Unseen
           T2 == [T EXCEPT !.todo = b, !.saw = saw]
<1>14. World
  <2>1. CASE UNCHANGED fork BY <1>1, <2>1, WorldSame DEF ProvTyped
  <2>2. CASE fork' = [fork EXCEPT ![f] = Hidden(@)] BY <1>1, <1>4, <1>12, <1>13, <2>2, TurnsWorld
  <2>3. QED BY <1>5, <2>1, <2>2
<1>15. saw \in SawType /\ b \in Seq(Instr) BY <1>3, <1>8, HeadTailProperties DEF SawType, Unseen, Versions
<1>16. term' = [term EXCEPT ![t] = T2] BY <1>1 DEF Written
<1> HIDE DEF saw, f
<1>17. /\ T2 \in TermType /\ T2.cmd = T.cmd /\ T2.v = T.v /\ T2.todo = Tail(term[t].todo) /\ T2.box = T.box
       /\ T2.pending = T.pending /\ T2.clean = T.clean /\ T2.early = T.early
  BY <1>3, <1>15 DEF TermType
<1> HIDE DEF T2
<1>18. term' \in [Terminals -> TermType \union {NoCommand}] /\ Others(t) /\ term'[t] = T2 /\ Moves(T, T2, 1)
  BY <1>3, <1>16, <1>17, PastIs
<1>19. Owes(T, T2, 1, fork', weakened', package', launched') BY <1>3, <1>17 DEF Owes
<1>20. 1 \in {1, 2} OBVIOUS
<1>21. QED BY <1>1, <1>3, <1>14, <1>17, <1>18, <1>19, <1>20 DEF Acts, GoesOn

LEMMA FlipActs ==
    ASSUME ProvTyped, RunInv, NEW t \in Terminals, Flip(t) PROVE World /\ Acts(t) /\ UNCHANGED told
<1> DEFINE f == term[t].todo[1][3]
           T == term[t]
<1>1. UNCHANGED <<package, launched, told, weakened>> /\ AtOp(t, "flip") BY DEF Flip
<1>3. /\ Running(t) /\ T \in TermType /\ 1 <= Len(T.todo) /\ T.todo[1][1] = "flip"
      /\ T.todo[1] \in Instr /\ Target(t) = f /\ T.todo \in Seq(Instr)
  BY <1>1, AtOpIs
<1>4. f \in Forks
  <2> DEFINE i == term[t].todo[1]
  <2>1. i \in Instr /\ i[1] \in OnFork BY <1>3 DEF OnFork
  <2> HIDE DEF i
  <2>2. i[3] \in Forks BY <2>1, InstrIs
  <2>3. QED BY <2>2 DEF i
<1>5. \/ UNCHANGED fork /\ Stops(t)
      \/ fork' = [fork EXCEPT ![f] = Opened(@)] /\ (Stops(t) \/ Onward(t, 1))
  <2>1. Target(t) = f BY <1>3
  <2> HIDE DEF f
  <2>2. QED BY <2>1 DEF Flip
<1>7. TermInv(T, fork, weakened, package, launched) BY <1>3 DEF RunInv
<1>8. 1 \in 1..Len(T.todo)
  <2>1. Len(T.todo) \in Nat BY <1>3
  <2>2. QED BY <1>3, <2>1
<1>9. launched
  <2>1. \A i : ~Earlier(T.todo, 1, i) BY DEF Earlier
  <2>2. QED BY <1>3, <1>7, <1>8, <2>1 DEF TermInv, WaitFirst
<1>10. fork[f] \in ForkType /\ fork[f].version \in Int BY <1>4, VersionsAre DEF ProvTyped
<1>11. Opened(fork[f]).public = TRUE /\ Opened(fork[f]).version = fork[f].version BY <1>10 DEF Opened, ForkType
<1>12. CASE UNCHANGED fork /\ Stops(t)
  <2>1. World BY <1>1, <1>12, WorldSame DEF ProvTyped
  <2>2. QED BY <1>1, <1>3, <1>12, <2>1, StopsIs
<1>13. CASE fork' = [fork EXCEPT ![f] = Opened(@)] /\ (Stops(t) \/ Onward(t, 1))
  <2>1. TakesBack(f, Opened(fork[f])) BY <1>10, <1>11 DEF TakesBack
  <2>2. World /\ fork'[f] = Opened(fork[f]) BY <1>1, <1>4, <1>9, <1>11, <1>13, <2>1, TurnsWorld
  <2>3. CASE Stops(t) BY <1>1, <1>3, <2>2, <2>3, StopsIs
  <2>4. CASE Onward(t, 1)
    <3>1. 1 \in {1, 2} /\ 1 # 2 OBVIOUS
    <3>2. /\ term' \in [Terminals -> TermType \union {NoCommand}] /\ Others(t) /\ term'[t] \in TermType
          /\ Moves(term[t], term'[t], 1) /\ term'[t].box = term[t].box
      BY <1>3, <2>4, <3>1, OnwardIs
    <3>3. OpenOn(fork'[f], launched') BY <1>1, <1>9, <1>11, <2>2 DEF OpenOn
    <3>4. Owes(term[t], term'[t], 1, fork', weakened', package', launched') BY <1>3, <3>2, <3>3 DEF Owes
    <3>5. QED BY <1>1, <1>3, <2>2, <3>1, <3>2, <3>4 DEF Acts, GoesOn
  <2>5. QED BY <1>13, <2>3, <2>4
<1>14. QED BY <1>5, <1>12, <1>13

(***************************************************************************)
(* Provision: what happens around the terminals, and what is reported.       *)
(***************************************************************************)
\* A fork that is changed from outside.
LEMMA EditWorld ==
    ASSUME ProvTyped, NEW f \in Forks, UNCHANGED <<package, launched>>,
           \/ fork' = [fork EXCEPT ![f].attached = FALSE] /\ UNCHANGED weakened
           \/ ~fork[f].indexed /\ fork' = [fork EXCEPT ![f].indexed = TRUE, ![f].active = TRUE] /\ UNCHANGED weakened
           \/ fork' = [fork EXCEPT ![f].done = @ \ {"protect"}] /\ weakened' = weakened \union {f}
           \/ fork' = [fork EXCEPT ![f].refused = ~@] /\ UNCHANGED weakened
           \/ fork' = [fork EXCEPT ![f].visited = TRUE] /\ UNCHANGED weakened
    PROVE  World
<1>1. fork[f] \in ForkType /\ fork[f].version \in Int /\ fork[f].newest \in Int BY VersionsAre DEF ProvTyped
<1>2. PICK k :
         /\ fork' = [fork EXCEPT ![f] = k]
         /\ \/ k = [fork[f] EXCEPT !.attached = FALSE] /\ UNCHANGED weakened
            \/ ~fork[f].indexed /\ k = [fork[f] EXCEPT !.indexed = TRUE, !.active = TRUE] /\ UNCHANGED weakened
            \/ k = [fork[f] EXCEPT !.done = @ \ {"protect"}] /\ weakened' = weakened \union {f}
            \/ k = [fork[f] EXCEPT !.refused = ~@] /\ UNCHANGED weakened
            \/ k = [fork[f] EXCEPT !.visited = TRUE] /\ UNCHANGED weakened
  BY ZenonT(60)
<1>3. weakened \subseteq Forks BY DEF ProvTyped
<1>4. /\ k \in ForkType /\ weakened' \subseteq Forks
      /\ fork[f].made => k.made
      /\ fork[f].indexed => k.indexed
      /\ fork[f].indexed /\ ~fork[f].active => ~k.active
      /\ \A s \in fork[f].done : s \in k.done \/ (s = "protect" /\ f \in weakened')
      /\ f \in weakened => f \in weakened'
      /\ \A g \in weakened : g # f => g \in weakened'
      /\ k.version = fork[f].version /\ k.newest = fork[f].newest
      /\ k.public = fork[f].public /\ k.shut = fork[f].shut
  BY <1>1, <1>2, <1>3, ZenonT(60) DEF ForkType
<1>5. TakesBack(f, k) /\ k.newest >= fork[f].newest BY <1>1, <1>4 DEF TakesBack
<1>6. OpenOn(fork[f], launched) => OpenOn(k, launched) BY <1>4 DEF OpenOn
<1>7. QED BY <1>2, <1>4, <1>5, <1>6, OneForkChanges

LEMMA OutsideWorld ==
    ASSUME ProvTyped, (\E f \in Forks : Detach(f) \/ Visit(f) \/ Index(f) \/ Weaken(f) \/ Pull(f)) \/ Press
    PROVE  World /\ UNCHANGED <<term, told>>
<1>1. ASSUME NEW f \in Forks, Detach(f) PROVE World /\ UNCHANGED <<term, told>> BY <1>1, EditWorld DEF Detach
<1>2. ASSUME NEW f \in Forks, Index(f) PROVE World /\ UNCHANGED <<term, told>> BY <1>2, EditWorld DEF Index
<1>3. ASSUME NEW f \in Forks, Weaken(f) PROVE World /\ UNCHANGED <<term, told>> BY <1>3, EditWorld DEF Weaken
<1>4. ASSUME NEW f \in Forks, Pull(f) PROVE World /\ UNCHANGED <<term, told>> BY <1>4, EditWorld DEF Pull
<1>5. ASSUME NEW f \in Forks, Visit(f) PROVE World /\ UNCHANGED <<term, told>> BY <1>5, EditWorld DEF Visit
<1>6. ASSUME Press PROVE World /\ UNCHANGED <<term, told>>
  <2>1. launched' = TRUE /\ UNCHANGED <<fork, package, term, told, weakened>> BY <1>6 DEF Press
  <2>3. \A f \in Forks : fork[f].version \in Int /\ fork[f].newest \in Int BY VersionsAre DEF ProvTyped
  <2>4. Firmly(fork, fork', weakened, weakened') BY <2>1, <2>3 DEF Firmly
  <2>5. Softly(fork, fork', package, package', launched, launched') BY <2>1 DEF Softly, OpenOn
  <2>2. \A f \in Forks : TakesBack(f, fork'[f]) BY <2>1, <2>3 DEF TakesBack
  <2>6. QED BY <2>1, <2>2, <2>4, <2>5 DEF World, ProvTyped
<1>7. QED BY <1>1, <1>2, <1>3, <1>4, <1>5, <1>6

LEMMA OutsideKeeps ==
    ASSUME ProvTyped, RunInv, World, UNCHANGED <<term, told>>
    PROVE  ProvTyped' /\ RunInv'
<1>1. ProvTyped' BY DEF ProvTyped, World
<1>2. ToldTrue' BY ToldKeeps
<1>3. \A u \in Terminals : Running(u) => TermInv(term[u], fork', weakened', package', launched') BY WorldKeeps
<1>4. \A u \in Terminals : Running(u)' => TermInv(term'[u], fork', weakened', package', launched') BY <1>3 DEF Running
<1>6. QED BY <1>1, <1>2, <1>4 DEF RunInv

LEMMA RunKeeps ==
    ASSUME ProvTyped, RunInv, NEW t \in Terminals, NEW c \in Commands, NEW v \in Checkouts, Run(t, c, v)
    PROVE  World /\ ProvTyped' /\ RunInv'
<1> DEFINE T2 == [cmd |-> c, v |-> v, todo |-> Program(c), box |-> "unknown",
                  pending |-> {}, clean |-> TRUE, early |-> FALSE, saw |-> Unseen]
<1>1. /\ ~Running(t) /\ UNCHANGED <<fork, package, launched, told, weakened>>
      /\ term' = [term EXCEPT ![t] = T2]
  BY DEF Run
<1>2. World BY <1>1, WorldSame DEF ProvTyped
<1>3. Program(c) \in Seq(Instr) BY Programs DEF Cautious, Plan
<1>4. T2 \in TermType BY <1>3 DEF TermType, SawType, Unseen, Versions
<1>5. T2.todo = Program(T2.cmd) /\ T2.box = "unknown" /\ T2.v = v OBVIOUS
<1> HIDE DEF T2
<1>6. term \in [Terminals -> TermType \union {NoCommand}] BY DEF ProvTyped
<1>7. term' \in [Terminals -> TermType \union {NoCommand}] /\ term'[t] = T2 /\ \A u \in Terminals : u # t => term'[u] = term[u]
  BY <1>1, <1>4, <1>6
<1>8. ProvTyped' BY <1>1, <1>7 DEF ProvTyped
<1>9. ToldTrue' BY <1>1, <1>2, ToldKeeps
<1>10. \A u \in Terminals : Running(u)' => u = t \/ Running(u) BY <1>7 DEF Running
<1>13. launched' \in BOOLEAN BY <1>2 DEF World
<1>14. TermInv(T2, fork', weakened', package', launched') BY <1>4, <1>5, <1>13, StartKeeps
<1>15. \A u \in Terminals : Running(u) => TermInv(term[u], fork', weakened', package', launched') BY <1>2, WorldKeeps
<1>16. \A u \in Terminals : Running(u)' => TermInv(term'[u], fork', weakened', package', launched')
  BY <1>7, <1>10, <1>14, <1>15
<1>17. QED BY <1>2, <1>8, <1>9, <1>16 DEF RunInv

LEMMA ReportKeeps ==
    ASSUME ProvTyped, RunInv, NEW t \in Terminals, Report(t)
    PROVE  World /\ ProvTyped' /\ RunInv'
<1> DEFINE T == term[t]
           said == [cmd |-> T.cmd, v |-> T.v, pending |-> T.pending, clean |-> T.clean, early |-> T.early]
           c == T.cmd
<1>1. /\ Running(t) /\ T.todo = <<>> /\ Stops(t) /\ UNCHANGED <<fork, package, launched, weakened>>
      /\ \/ told' = told
         \/ told' = [told EXCEPT ![c] = said] /\ (c = "doctor" => T.clean)
  BY DEF Report
<1>2. World BY <1>1, WorldSame DEF ProvTyped
<1>3. Acts(t) BY <1>1, StopsIs
<1>4. \A u \in Terminals : Running(u)' => TermInv(term'[u], fork', weakened', package', launched')
  BY <1>2, <1>3, StepKeeps
<1>5. T \in TermType /\ c \in Commands BY <1>1, RunningIs, VersionsAre
<1>6. TermInv(T, fork, weakened, package, launched) BY <1>1 DEF RunInv
<1>7. said \in SaidType BY <1>5 DEF SaidType, TermType
<1>8. said.v = T.v /\ said.pending = T.pending /\ said.clean = T.clean /\ said.early = T.early OBVIOUS
<1> HIDE DEF said
<1>9. told \in [Commands -> SaidType \union {Silent}] BY DEF ProvTyped
<1>10. told' \in [Commands -> SaidType \union {Silent}] BY <1>1, <1>5, <1>7, <1>9
<1>11. ProvTyped' BY <1>1, <1>3, <1>10 DEF ProvTyped, Acts
<1>12. \A x \in Commands : told'[x] = told[x] \/ (x = c /\ told'[x] = said) BY <1>1, <1>5, <1>9
<1>13. /\ \A i : ~Coming(T.todo, i)
       /\ \A i : ~NextIs(T, i) BY <1>1 DEF Coming, NextIs
<1>14. {"org", "doctor", "launch"} \subseteq Commands BY DEF Commands
<1>15. ToldTrue BY DEF RunInv
<1>16. ASSUME told'["org"] # Silent, told'["org"].clean, ~told'["org"].early
       PROVE  package # "none" /\ \A f \in Forks, s \in AllSteps :
                KeptOn(fork[f], weakened, f, s, told'["org"].v) \/ PutOffOn(fork[f], launched, f, s, told'["org"].pending)
  <2>1. CASE told'["org"] = told["org"] BY <1>15, <1>16, <2>1 DEF ToldTrue, Sure
  <2>2. CASE "org" = c /\ told'["org"] = said
    BY <1>6, <1>13, <2>2, <1>8, <1>16 DEF TermInv, OrgMirrors, OrgCovers
  <2>3. QED BY <1>12, <1>14, <2>1, <2>2
<1>17. ASSUME told'["doctor"] # Silent, told'["doctor"].clean, ~told'["doctor"].early
       PROVE  \A f \in Forks, s \in AllSteps :
                KeptOn(fork[f], weakened, f, s, told'["doctor"].v) \/ (s = "protect" /\ f \in told'["doctor"].pending)
  <2>1. CASE told'["doctor"] = told["doctor"] BY <1>15, <1>17, <2>1 DEF ToldTrue, Sure
  <2>2. CASE "doctor" = c /\ told'["doctor"] = said BY <1>6, <1>8, <1>17, <2>2, <1>13 DEF TermInv, DoctorCovers
  <2>3. QED BY <1>12, <1>14, <2>1, <2>2
<1>18. ASSUME told'["launch"] # Silent
       PROVE  \A f \in Forks : OpenOn(fork[f], launched) /\ KeptOn(fork[f], weakened, f, "protect", told'["launch"].v)
  <2>1. CASE told'["launch"] = told["launch"] BY <1>15, <1>18, <2>1 DEF ToldTrue
  <2>2. CASE "launch" = c /\ told'["launch"] = said BY <1>6, <1>8, <1>13, <2>2 DEF TermInv, LaunchCovers
  <2>3. QED BY <1>12, <1>14, <2>1, <2>2
<1>19. ToldTrue' BY <1>1, <1>16, <1>17, <1>18 DEF ToldTrue, Sure
<1>20. QED BY <1>2, <1>4, <1>11, <1>19 DEF RunInv

\* Every step.
LEMMA ActKeepsAll ==
    ASSUME ProvTyped, RunInv, NEW t \in Terminals, World, Acts(t), UNCHANGED told
    PROVE  ProvTyped' /\ RunInv'
BY ToldKeeps, StepKeeps DEF ProvTyped, World, Acts, RunInv

LEMMA ProvStep ==
    ASSUME ProvTyped, RunInv, ProvNext
    PROVE  World /\ ProvTyped' /\ RunInv'
<1>1. ASSUME NEW t \in Terminals, NEW c \in Commands, NEW v \in Checkouts, Run(t, c, v)
      PROVE  World /\ ProvTyped' /\ RunInv'
  BY <1>1, RunKeeps
<1>2. ASSUME NEW t \in Terminals, Report(t) PROVE World /\ ProvTyped' /\ RunInv' BY <1>2, ReportKeeps
<1>3. ASSUME NEW t \in Terminals,
             \/ Check(t) \/ Apply(t) \/ Mirror(t)
             \/ ReadBox(t) \/ ReadEligible(t) \/ Hide(t)
             \/ Preflight(t) \/ PackagePrivate(t) \/ Refuse(t) \/ Wait(t)
             \/ ReadVisible(t) \/ Flip(t) \/ Verify(t)
             \/ Cell(t) \/ Grant(t)
      PROVE  World /\ ProvTyped' /\ RunInv'
  <2>1. World /\ Acts(t) /\ UNCHANGED told
    BY <1>3, CheckActs, ApplyActs, MirrorActs, ReadBoxActs, ReadEligibleActs, HideActs, PreflightActs,
       PackagePrivateActs, RefuseActs, WaitActs, ReadVisibleActs, FlipActs, VerifyActs, CellActs, GrantActs
  <2>2. QED BY <2>1, ActKeepsAll
<1>4. ASSUME (\E f \in Forks : Detach(f) \/ Visit(f) \/ Index(f) \/ Weaken(f) \/ Pull(f)) \/ Press
      PROVE  World /\ ProvTyped' /\ RunInv' BY <1>4, OutsideWorld, OutsideKeeps
<1>5. QED BY <1>1, <1>2, <1>3, <1>4 DEF ProvNext

LEMMA ProvStarts ==
    ASSUME ProvInit PROVE ProvTyped /\ RunInv
<1>1. PICK session \in Sessions :
         /\ fork = [f \in Forks |-> IF session.new THEN Unmade ELSE Ready]
         /\ package = IF session.new THEN "none" ELSE "private"
  BY DEF ProvInit
<1>2. /\ launched = FALSE /\ term = [t \in Terminals |-> NoCommand]
      /\ told = [c \in Commands |-> Silent] /\ weakened = {}
  BY DEF ProvInit
<1>3. Unmade \in ForkType BY DEF Unmade, ForkType, Versions, Absent
<1>4. Ready \in ForkType BY ProvAssumption DEF Ready, ForkType, AllSteps, Versions
<1>5. fork \in [Forks -> ForkType]
  <2> HIDE DEF Unmade, Ready
  <2>1. QED BY <1>1, <1>3, <1>4
<1>6. ProvTyped
  <2> HIDE DEF NoCommand, Silent
  <2>1. QED BY <1>1, <1>2, <1>5 DEF ProvTyped
<1>7. \A t \in Terminals : ~Running(t)
  <2> HIDE DEF NoCommand
  <2>1. QED BY <1>2 DEF Running
<1>8. \A c \in Commands : told[c] = Silent
  <2> HIDE DEF Silent
  <2>1. QED BY <1>2
<1>9. ToldTrue
  <2>1. {"org", "doctor", "launch"} \subseteq Commands BY DEF Commands
  <2>2. QED BY <1>8, <2>1 DEF ToldTrue, Sure
<1>10. QED BY <1>6, <1>7, <1>9 DEF RunInv

\* What every command has ahead of it and has done accounts for what it will report, and every
\* report that was made still holds (ctf-setup.sh): the inductive invariant of the terminals.
THEOREM CommandsAccount == ProvSpec => [](ProvTyped /\ RunInv)
<1>1. ProvInit => ProvTyped /\ RunInv BY ProvStarts
<1>2. (ProvTyped /\ RunInv) /\ [ProvNext]_provVars => (ProvTyped /\ RunInv)'
  <2> SUFFICES ASSUME ProvTyped, RunInv, [ProvNext]_provVars PROVE (ProvTyped /\ RunInv)'
    OBVIOUS
  <2>1. CASE UNCHANGED provVars
    BY <2>1 DEF provVars, ProvTyped, RunInv, ToldTrue, Sure, Running
  <2>2. CASE ProvNext BY <2>2, ProvStep
  <2>3. QED BY <2>1, <2>2
<1>3. QED BY <1>1, <1>2, PTL DEF ProvSpec

\* What org, launch and doctor report is so (ctf-setup.sh:1451-1491): for any targets, checkouts,
\* terminals and faults, whatever lands and whatever answer is lost.
THEOREM ProvHolds == ProvSpec => []ProvInv
<1>1. ProvTyped /\ RunInv => ProvInv
  <2> SUFFICES ASSUME ProvTyped, RunInv PROVE ProvInv OBVIOUS
  <2>1. ProvTypeOK BY DEF ProvTyped, ProvTypeOK, ForkType, Versions
  <2>2. ToldTrue BY DEF RunInv
  <2>3. \A i \in DOMAIN Steps : Steps[i] \in AllSteps BY StepsAre
  <2>4. \A v : \A f \in Forks, s \in AllSteps : 
          KeptOn(fork[f], weakened, f, s, v) => Holds(f, s, v) \/ OlderSince(f, s, v) \/ (s = "protect" /\ f \in weakened)
    BY HoldsIs DEF KeptOn, OlderSince
  <2>5. Sure("org") => Provisioned(told["org"]) BY <2>2, <2>3, <2>4 DEF ToldTrue, Provisioned, PutOffOn
  <2>6. Sure("doctor") => \A f \in Forks, i \in DOMAIN Steps :
          \/ Holds(f, Steps[i], told["doctor"].v) \/ OlderSince(f, Steps[i], told["doctor"].v)
          \/ Steps[i] = "protect" /\ (f \in weakened \/ f \in told["doctor"].pending)
    BY <2>2, <2>3, <2>4 DEF ToldTrue
  <2>7. told["launch"] # Silent => \A f \in Forks :
          (fork[f].public \/ fork[f].shut) /\ ("protect" \in fork[f].done \/ f \in weakened)
    BY <2>2 DEF KeptOn, HoldsOn, AppliesTo, ToldTrue, OpenOn
  <2>8. QED BY <2>1, <2>5, <2>6, <2>7 DEF ProvInv, ReportsTrue
<1>2. QED BY <1>1, CommandsAccount, PTL

\* No command takes back what is done, whoever presses, forks or runs another checkout meanwhile:
\* only the three windows between a read and its write are left (ctf-setup.sh:345-350, 1268-1271,
\* 1274-1282, 1284-1326).
THEOREM UndoneHolds == ProvSpec => NothingUndone
<1> DEFINE Undoes == \A f \in Forks :
              /\ fork[f].public /\ ~fork'[f].public => \E t \in Terminals :
                    /\ AtOp(t, "hide") /\ Target(t) = f
                    /\ launched => term[t].box = "not-launched"
                    /\ fork[f].visited => ~term[t].saw.visited
              /\ fork'[f].version < fork[f].version => \E t \in Terminals :
                    AtOp(t, "apply") /\ Target(t) = f /\ term[t].saw.version < term[t].v
              /\ \A s \in fork[f].done \ fork'[f].done : s = "protect" /\ f \in weakened'
<1>1. World => Undoes BY DEF World, Firmly, TakesBack
<1>2. ProvTyped /\ RunInv /\ [ProvNext]_provVars => [Undoes]_provVars BY <1>1, ProvStep
<1>3. QED BY <1>2, CommandsAccount, PTL DEF ProvSpec, NothingUndone
=============================================================================
