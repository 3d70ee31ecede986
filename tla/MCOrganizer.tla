---------------------------- MODULE MCOrganizer ----------------------------
(***************************************************************************)
(* The organizer's tools and the AI event route, which share no state: a     *)
(* behaviour is one of them at work while the others rest with nothing left  *)
(* to do.                                                                    *)
(***************************************************************************)
EXTENDS MCAiEvent, MCProvision, MCDemoSeed, MCAdminPanel

VARIABLE tool
organizerVars == <<tool, aiVars, provVars, demoVars, panelVars>>

AllAllowances == MCAllowances \union {Allow(0, 0, 0, 0, 0, 0)}
AllSessions == MCSessions \union {NoSession}
AllDays == MCDays \union {IdleDay}
AllVisits == MCVisits \union {Visit2(NoVisit)}

Rests(t) == tool # t
OrganizerInit ==
    /\ tool \in {"ai", "provision", "seed", "panel"}
    /\ AiInit /\ (Rests("ai") => left = Allow(0, 0, 0, 0, 0, 0) /\ key = NoKey)
    /\ ProvInit /\ (Rests("provision") => spare = NoUses)
    /\ DemoInit /\ (Rests("seed") => uses = NoDay)
    /\ PanelInit /\ (Rests("panel") => allow = NoVisit)

OrganizerNext ==
    \/ tool = "ai" /\ AiNext /\ UNCHANGED <<tool, provVars, demoVars, panelVars>>
    \/ tool = "provision" /\ ProvNext /\ UNCHANGED <<tool, aiVars, demoVars, panelVars>>
    \/ tool = "seed" /\ DemoNext /\ UNCHANGED <<tool, aiVars, provVars, panelVars>>
    \/ tool = "panel" /\ PanelNext /\ UNCHANGED <<tool, aiVars, provVars, demoVars>>

OrganizerSpec == OrganizerInit /\ [][OrganizerNext]_organizerVars

\* What is two of a kind changes places together, since only one tool is at
\* work; the keys a launch may draw do so by themselves.
Swap(a, b) == (a :> b) @@ (b :> a)
Stay(a, b) == (a :> a) @@ (b :> b)
OrganizerSymmetry ==
    {m @@ k : m \in {Swap(s1, s2) @@ Swap(n1, n2) @@ Swap(t1, t2) @@ Swap(d1, d2),
                     Stay(s1, s2) @@ Stay(n1, n2) @@ Stay(t1, t2) @@ Stay(d1, d2)},
              k \in Permutations(Candidates)}
=============================================================================
