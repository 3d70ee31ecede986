------------------------------ MODULE MCSetup ------------------------------
(***************************************************************************)
(* The settings of a running event, and the scripts that set a box up and    *)
(* deploy it: they share no state, and a behaviour is one of them at work.   *)
(***************************************************************************)
EXTENDS MCAdminSettings, FlyDeploy

VARIABLE tool
setupVars == <<tool, adminVars, flyVars>>

MCPresetCpus == [small |-> [shared |-> TRUE, cpus |-> 2], large |-> [shared |-> FALSE, cpus |-> 1]]
MCMegaBytes == [m512 |-> 512, m1024 |-> 1024, m2048 |-> 2048, m2560 |-> 2560, m3000 |-> 3000, m4096 |-> 4096]

\* An env file that is filled in, the keys of "changes" given otherwise.
Filled(changes) ==
    changes @@ [k \in {"auth", "oauth", "app", "org", "admins", "score"} |-> <<"v1">>]
            @@ [inst |-> <<"v1">>, url |-> <<"localhost">>]
            @@ [k \in Tokens |-> <<"own">>] @@ [k \in Keys |-> <<>>]
FlyFile(changes) == Filled(changes @@ [url |-> <<FlyUrl>>, region |-> <<"gru">>, dir |-> <<"data">>])

NoUse == [init |-> 0, refresh |-> 0, deploy |-> 0, redeploy |-> 0, wizard |-> 0, edits |-> 0, moves |-> 0, hands |-> 0, faults |-> 0]
NoWish == [k \in Asked |-> Blank]
Wish(org, score) == [org |-> org, admins |-> "v1", score |-> score, url |-> "https://box", app |-> "v1", oauth |-> "v1"]
Scene(from, to, answers, uses) == [source |-> from, file |-> to, wish |-> answers, uses |-> uses @@ NoUse]

Still == Scene(NoFile, NoFile, NoWish, NoUse)
MCScenes ==
    \* a new box, with Secure Development and without, and an answer the wizard refuses
    { Scene(NoFile, NoFile, Wish("v1", "v1"), [wizard |-> 2, faults |-> 1]),
      Scene(NoFile, NoFile, Wish(Blank, Blank), [wizard |-> 2, faults |-> 2]),
      Scene(NoFile, NoFile, Wish(Blank, "v1"), [wizard |-> 2]),
      Scene(Filled([score |-> <<>>]), NoFile, Wish("v1", "v1"), [wizard |-> 2, faults |-> 1]),
    \* a deployment out of a compose stack's file
      Scene(Filled(NoFile), NoFile, NoWish, [init |-> 2, deploy |-> 1, faults |-> 2]),
      Scene(Filled([token |-> <<>>, password |-> <<>>]), NoFile, NoWish, [init |-> 1, refresh |-> 1, deploy |-> 1, faults |-> 1]),
    \* credentials rotated, blanked and edited by hand, around and during a deploy
      Scene(Filled([app |-> <<"v2">>, admins |-> <<>>]), FlyFile([org |-> <<"v2", "v1">>, password |-> <<>>]), NoWish,
            [refresh |-> 2, edits |-> 1, hands |-> 1, faults |-> 1]),
      Scene(Filled([oauth |-> <<"v2">>]), FlyFile(NoFile), NoWish, [refresh |-> 1, deploy |-> 1, edits |-> 1]),
    \* two deploys in one checkout, the tree and the scorer moving
      Scene(Filled(NoFile), FlyFile(NoFile), NoWish, [deploy |-> 2, moves |-> 1, faults |-> 1]),
      Scene(Filled(NoFile), FlyFile(NoFile), NoWish, [deploy |-> 1, redeploy |-> 1, moves |-> 2]),
    \* nothing to copy from
      Scene(NoFile, NoFile, NoWish, [init |-> 1, deploy |-> 1]),
      Scene(NoFile, FlyFile(NoFile), NoWish, [refresh |-> 1]) }
    \* sizes
    \union { Scene(NoFile, FlyFile([size |-> <<size>>, memory |-> <<memory>>, autostop |-> <<stop>>]), NoWish, [deploy |-> 1]) :
               size \in {Blank, "small", "large", "huge"}, memory \in DOMAIN MCMegaBytes \union {Blank, "2gb"},
               stop \in {Blank, "never"} }
AllScenes == MCScenes \union {Still}

SetupSymmetry == MCSymmetry \union Permutations(Shells)

SetupInit ==
    /\ tool \in {"settings", "deploy"}
    /\ AdminInit /\ (tool # "settings" => settings = NewEvent /\ writes = 0)
    /\ FlyInit
    /\ tool = "settings" <=> chance = NoUse

SetupNext ==
    \/ tool = "settings" /\ AdminNext /\ UNCHANGED <<tool, flyVars>>
    \/ tool = "deploy" /\ FlyNext /\ UNCHANGED <<tool, adminVars>>

SetupSpec == SetupInit /\ [][SetupNext]_setupVars
=============================================================================
