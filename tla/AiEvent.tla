------------------------------ MODULE AiEvent ------------------------------
(***************************************************************************)
(* Signed solve events of the AI module (app/api/ai/event/route.ts): a       *)
(* player launches a challenge and carries a token, signed with the module's *)
(* launch key, to an external site, whose backend asserts the solve with a   *)
(* request it signs and stamps.  One player, one challenge and one token in   *)
(* hand; a request is known by its stamp, and may be captured and sent again  *)
(* at any time.  What is spent is the token's jti: a nonce with an expiry.   *)
(* The award itself is the script of Graders, seen here as one row.          *)
(***************************************************************************)
EXTENDS Integers, Sequences, FiniteSets

CONSTANTS
    Slots,            \* requests in flight
    Launchers,        \* page renders that mint a token
    TokenKey, Candidates, NoKey,    \* the key the token in hand is signed with; keys a mint may draw
    Stamps,           \* the timestamps of the signed requests
    Skew,             \* AI_EVENT_SKEW_SEC
    TokenExpiry,      \* the token's exp
    Stall,            \* how long a request may take from its checks to its claim
    Life,             \* how long a request goes on after it claimed its nonce
    Allowances,       \* how many of each kind of event a behaviour has
    MaxTime
ASSUME AiAssumption ==
    Skew \in Nat /\ Life \in 0..(2 * Skew) /\ MaxTime \in Nat /\ Stamps \subseteq Int

VARIABLES
    clock,
    open,         \* scoring is open
    row,          \* ctf:ai:solves:<login> holds the challenge
    nonce,        \* ctf:ai:nonce:<jti>: the second it expires, 0 without the key
    key,          \* ctf:ai:launchkey
    wiping,       \* the commands of a master reset or an archive import
    req,          \* the requests in flight
    mint,         \* the launches in flight
    left,         \* what is left of the behaviour's allowance
    paid,         \* history: how often each request was paid since the nonces were last wiped
    settled,      \* history: the claim that set the nonce was answered with a solve
    stuck,        \* history: a failure left a nonce that nobody gives back
    doubt,        \* history: an award's answer was lost, or a wipe took the nonce of a
                  \* request that goes on
    epoch,        \* history: how many launch keys were deleted
    handed        \* history: the keys tokens were signed with, and in which epoch
aiVars == <<clock, open, row, nonce, key, wiping, req, mint, left,
            paid, settled, stuck, doubt, epoch, handed>>
history == <<paid, settled, stuck, doubt, epoch, handed>>

Free == [phase |-> "free"]
Spends(kind) == left[kind] > 0 /\ left' = [left EXCEPT ![kind] = @ - 1]
Goes(s, phase) == req' = [req EXCEPT ![s].phase = phase]
Ends(s) == req' = [req EXCEPT ![s] = Free]

AiInit ==
    /\ clock = 0 /\ open = TRUE /\ row = FALSE /\ nonce = 0
    /\ key \in {TokenKey, NoKey}
    /\ wiping = <<>>
    /\ req = [s \in Slots |-> Free] /\ mint = [n \in Launchers |-> Free]
    /\ left \in Allowances
    /\ paid = [ts \in Stamps |-> 0]
    /\ settled = FALSE /\ stuck = FALSE /\ doubt = FALSE
    /\ epoch = 0 /\ handed = {}
-----------------------------------------------------------------------------
\* Defect: "exactly 2 * skew" (ai-defaults.ts warns of it).
NonceTtlTwiceSkew == 2 * Skew

\* AI_NONCE_TTL_SEC
NonceTtl == 2 * Skew + 1

WithinSkew(ts) == ts - clock <= Skew /\ clock - ts <= Skew

\* verifyLaunchToken, against the published key
TokenVerifies == key = TokenKey /\ clock < TokenExpiry

\* The route up to the team check: stamp and token hold.
Receive(s, ts) ==
    /\ req[s] = Free /\ Spends("requests")
    /\ WithinSkew(ts) /\ TokenVerifies
    /\ req' = [req EXCEPT ![s] = [phase |-> "checked", ts |-> ts, since |-> clock]]
    /\ UNCHANGED <<clock, open, row, nonce, key, wiping, mint, history>>

\* The rate limit or the team check refuses: nothing was written.
TurnAway(s) ==
    /\ req[s] # Free /\ req[s].phase = "checked" /\ Ends(s)
    /\ UNCHANGED <<clock, open, row, nonce, key, wiping, mint, left, history>>

\* claimAiNonce: SET NX EX.
Claim(s) ==
    /\ req[s] # Free /\ req[s].phase = "checked"
    /\ IF nonce > clock
       THEN Ends(s) /\ UNCHANGED <<nonce, settled, stuck>>
       ELSE /\ nonce' = clock + NonceTtl
            /\ settled' = FALSE /\ stuck' = FALSE
            /\ req' = [req EXCEPT ![s].phase = "claimed", ![s].since = clock]
    /\ UNCHANGED <<clock, open, row, key, wiping, mint, left, paid, doubt, epoch, handed>>

\* The SET lands and its reply is lost, or is an error: the request is refused
\* like a replay.
ClaimLost(s) ==
    /\ req[s] # Free /\ req[s].phase = "checked" /\ Spends("faults")
    /\ nonce <= clock
    /\ nonce' = clock + NonceTtl /\ settled' = FALSE /\ stuck' = TRUE
    /\ Ends(s)
    /\ UNCHANGED <<clock, open, row, key, wiping, mint, paid, doubt, epoch, handed>>

\* awardAiEvent before its script: a closed event or a row refuses, and so does
\* a lookup that fails.  Settings that cannot be read are an open event.
AwardGate(s) ==
    /\ req[s] # Free /\ req[s].phase = "claimed"
    /\ \/ open /\ ~row /\ Goes(s, "gated") /\ UNCHANGED left
       \/ (~open \/ row) /\ Goes(s, "refused") /\ UNCHANGED left
       \/ ~open /\ ~row /\ Spends("faults") /\ Goes(s, "gated")
       \/ open /\ ~row /\ Spends("faults") /\ Goes(s, "refused")
    /\ UNCHANGED <<clock, open, row, nonce, key, wiping, mint, history>>

Pay(s) ==
    /\ row' = TRUE
    /\ paid' = IF row THEN paid ELSE [paid EXCEPT ![req[s].ts] = @ + 1]

\* The script answered with a solve, fresh or "already": the nonce is kept.
AwardScript(s) ==
    /\ req[s] # Free /\ req[s].phase = "gated"
    /\ Pay(s) /\ settled' = TRUE /\ Ends(s)
    /\ UNCHANGED <<clock, open, nonce, key, wiping, mint, left, stuck, doubt, epoch, handed>>

\* The script ran and its reply is lost: an error, for the route.
AwardReplyLost(s) ==
    /\ req[s] # Free /\ req[s].phase = "gated" /\ Spends("faults")
    /\ Pay(s) /\ doubt' = TRUE /\ Goes(s, "refused")
    /\ UNCHANGED <<clock, open, nonce, key, wiping, mint, settled, stuck, epoch, handed>>

\* releaseAiNonce: the jti is given back.
Release(s) ==
    /\ req[s] # Free /\ req[s].phase = "refused"
    /\ nonce' = 0 /\ Ends(s)
    /\ UNCHANGED <<clock, open, row, key, wiping, mint, left, history>>

\* The DEL fails, or the task dies after its claim.
RequestDies(s) ==
    /\ req[s] # Free /\ req[s].phase # "checked" /\ Spends("faults")
    /\ stuck' = TRUE /\ Ends(s)
    /\ UNCHANGED <<clock, open, row, nonce, key, wiping, mint, paid, settled, doubt, epoch, handed>>
-----------------------------------------------------------------------------
\* Defect: the key drawn is used, whichever key was stored.
HandOutCandidate(n) ==
    /\ mint[n] # Free /\ mint[n].phase = "get"
    /\ handed' = IF key = NoKey THEN handed
                 ELSE handed \union {[key |-> mint[n].drawn, epoch |-> epoch]}
    /\ mint' = [mint EXCEPT ![n] = Free]
    /\ UNCHANGED <<clock, open, row, nonce, key, wiping, req, left, paid, settled, stuck, doubt, epoch>>

\* getAiLaunchKeys reads the pair back after its SET NX and signs with what it
\* read; without one it throws.
HandOut(n) ==
    /\ mint[n] # Free /\ mint[n].phase = "get"
    /\ handed' = IF key = NoKey THEN handed ELSE handed \union {[key |-> key, epoch |-> epoch]}
    /\ mint' = [mint EXCEPT ![n] = Free]
    /\ UNCHANGED <<clock, open, row, nonce, key, wiping, req, left, paid, settled, stuck, doubt, epoch>>

\* The first read: a stored pair is used as it is.
LaunchReads(n) ==
    /\ mint[n] = Free /\ Spends("launches")
    /\ IF key = NoKey
       THEN /\ \E drawn \in Candidates :
                  /\ \A o \in Launchers : mint[o] # Free => mint[o].drawn # drawn
                  /\ \A h \in handed : h.key # drawn
                  /\ mint' = [mint EXCEPT ![n] = [phase |-> "set", drawn |-> drawn]]
            /\ UNCHANGED handed
       ELSE handed' = handed \union {[key |-> key, epoch |-> epoch]} /\ UNCHANGED mint
    /\ UNCHANGED <<clock, open, row, nonce, key, wiping, req, paid, settled, stuck, doubt, epoch>>

LaunchSets(n) ==
    /\ mint[n] # Free /\ mint[n].phase = "set"
    /\ key' = IF key = NoKey THEN mint[n].drawn ELSE key
    /\ mint' = [mint EXCEPT ![n].phase = "get"]
    /\ UNCHANGED <<clock, open, row, nonce, wiping, req, left, history>>
-----------------------------------------------------------------------------
\* The player solves with a flag instead; an organizer resets the player.
FlagSolve ==
    /\ open /\ ~row /\ Spends("flags") /\ row' = TRUE
    /\ UNCHANGED <<clock, open, nonce, key, wiping, req, mint, history>>
ResetPlayer ==
    /\ row /\ Spends("resets") /\ row' = FALSE
    /\ UNCHANGED <<clock, open, nonce, key, wiping, req, mint, history>>
Toggle ==
    /\ Spends("toggles") /\ open' = ~open
    /\ UNCHANGED <<clock, row, nonce, key, wiping, req, mint, history>>

\* The AI keys of RESET_PREFIXES, in order; an archive import keeps the key.
StartWipe(keepKey) ==
    /\ wiping = <<>> /\ Spends("wipes")
    /\ wiping' = <<"rows", "nonces">> \o (IF keepKey THEN <<>> ELSE <<"key">>) \o <<"freeze">>
    /\ UNCHANGED <<clock, open, row, nonce, key, req, mint, history>>
Claimed(s) == req[s] # Free /\ req[s].phase # "checked"
RunWipe ==
    /\ wiping # <<>> /\ wiping' = Tail(wiping)
    /\ row' = (row /\ Head(wiping) # "rows")
    /\ IF Head(wiping) = "nonces"
       THEN /\ nonce' = 0 /\ paid' = [ts \in Stamps |-> 0]
            /\ doubt' = (doubt \/ \E s \in Slots : Claimed(s))
       ELSE UNCHANGED <<nonce, paid, doubt>>
    /\ IF Head(wiping) = "key" /\ key # NoKey
       THEN key' = NoKey /\ epoch' = epoch + 1 ELSE UNCHANGED <<key, epoch>>
    /\ open' = (open /\ Head(wiping) # "freeze")
    /\ UNCHANGED <<clock, req, mint, left, settled, stuck, handed>>

\* Time passes, no longer than Stall between a request's checks and its claim,
\* and no longer than Life while it holds a claim.
Tick ==
    /\ clock < MaxTime
    /\ \A s \in Slots : req[s] # Free =>
          clock < req[s].since + (IF req[s].phase = "checked" THEN Stall ELSE Life)
    /\ clock' = clock + 1
    /\ UNCHANGED <<open, row, nonce, key, wiping, req, mint, left, history>>

AiNext ==
    \/ \E s \in Slots :
          \/ \E ts \in Stamps : Receive(s, ts)
          \/ TurnAway(s) \/ Claim(s) \/ ClaimLost(s) \/ AwardGate(s) \/ AwardScript(s)
          \/ AwardReplyLost(s) \/ Release(s) \/ RequestDies(s)
    \/ \E n \in Launchers : LaunchReads(n) \/ LaunchSets(n) \/ HandOut(n)
    \/ FlagSolve \/ ResetPlayer \/ Toggle \/ RunWipe \/ Tick
    \/ \E keepKey \in BOOLEAN : StartWipe(keepKey)

AiSpec == AiInit /\ [][AiNext]_aiVars
-----------------------------------------------------------------------------
Phases == {"checked", "claimed", "gated", "refused"}
AiTypeOK ==
    /\ clock \in 0..MaxTime /\ open \in BOOLEAN /\ row \in BOOLEAN
    /\ nonce \in 0..(MaxTime + NonceTtl)
    /\ key \in Candidates \union {TokenKey, NoKey}
    /\ req \in [Slots -> [phase : Phases, ts : Stamps, since : 0..MaxTime] \union {Free}]
    /\ mint \in [Launchers -> [phase : {"set", "get"}, drawn : Candidates] \union {Free}]
    /\ paid \in [Stamps -> Nat] /\ epoch \in Nat
    /\ handed \subseteq [key : Candidates \union {TokenKey}, epoch : 0..epoch]

\* One signed request is paid at most once between two wipes of the nonces, however often
\* a captured copy is sent and whatever is reset meanwhile: its nonce outlives
\* the window in which its stamp is accepted.  Two cases are excepted: a lost
\* reply, where the route gives back the jti of an award it does not know of, and
\* a wipe between a request's claim and its award.
RequestPaysOnce == doubt \/ \A ts \in Stamps : paid[ts] <= 1

\* Once its requests have ended, a jti that is still spent was answered with a
\* solve: "the nonce guards the replay of an award that HAPPENED" (route.ts).
SpentMeansSolved ==
    (\A s \in Slots : req[s] = Free) /\ nonce > clock => settled \/ stuck

\* Of the launches since the last rotation, every one carries a token that the
\* published key verifies, whoever minted the pair first.
TokensVerify == \A h \in handed : h.epoch = epoch => h.key = key

\* The types, a request that pays once and a nonce that is spent for a solve,
\* and launch tokens that verify.
AiInv == AiTypeOK /\ RequestPaysOnce /\ SpentMeansSolved /\ TokensVerify
=============================================================================
