----------------------------- MODULE MCArchive -----------------------------
(***************************************************************************)
(* What contestants answer and what organizers write: the graders of          *)
(* MCGraders, and the stores of Archive in scenes that each let a few kinds    *)
(* of requests meet.  A behaviour is of one or of the other.                  *)
(***************************************************************************)
EXTENDS MCGraders, Archive
CONSTANTS quest1, target1, gold, silver, mark, l1, l2, bad, fA, fa, web, Web, pwn

SpelledIgnoringCase == (web :> web) @@ (Web :> web) @@ (pwn :> pwn) @@ (fA :> fa) @@ (fa :> fa)

Post(choices, single, correct) ==
    [choices |-> choices, single |-> single, blank |-> FALSE, correct |-> correct]
SomePosts == {Post({1, 2}, FALSE, <<2, 1, 1>>), Post({1, 2}, TRUE, <<1, 1>>),
              Post({1}, TRUE, <<2>>), Post({1, 2}, TRUE, <<2, 1>>)}
InSheet(id, post) == [id |-> id] @@ post
SomeSheets == {<<InSheet(quest1, Post({1, 2}, FALSE, <<2, 2>>))>>,
               <<InSheet(quest1, Post({1}, TRUE, <<1>>)), InSheet(quest1, Post({2}, TRUE, <<2>>))>>}

Draft(cat, mode, cs, flag) == [cat |-> cat, mode |-> mode, cs |-> cs, flag |-> flag, hint |-> Absent]
SomeDrafts == {Draft(web, "flag", FALSE, fA), Draft(pwn, "event", FALSE, fA),
               [Draft(web, "both", TRUE, fa) EXCEPT !.hint = fa]}
SomeLists == {<<web, pwn, web>>, <<pwn>>}
BothOrders == {<<gold, silver>>, <<silver, gold>>}

\* A box with one of everything.
OneCell(h, i, v) == (<<h, i>> :> v)
Target(id, cat) == OneCell("record", id, [cat |-> cat, mode |-> "flag", cs |-> FALSE])
    @@ OneCell("flag", id, fA) @@ OneCell("norm", id, Form(fA, FALSE)) @@ OneCell("sign", id, <<id, 0>>)
Quizzed == OneCell("question", quest1, [choices |-> {1, 2}, single |-> TRUE, blank |-> FALSE]) @@ OneCell("key", quest1, <<1>>)
Listed == OneCell("list", "all", <<web, pwn>>)
Shown == OneCell("sponsor", gold, SponsorRow(l1, 0, l1)) @@ OneCell("bytes", gold, l1)
         @@ OneCell("sponsor", silver, SponsorRow(l1, 1, Absent))
Paused == OneCell("box", "frozen", TRUE) @@ OneCell("box", "progress", TRUE)
QuizBox == Paused @@ OneCell("settings", "policy", l1) @@ Quizzed
           @@ OneCell("meta", mark, l1) @@ OneCell("data", mark, l1)
AiBox == Paused @@ Target(target1, web) @@ Listed
         @@ OneCell("sponsor", gold, SponsorRow(l1, 0, l1)) @@ OneCell("bytes", gold, l1)
Box == QuizBox @@ AiBox

\* Files: one of another event, and copies of it spoilt by hand.
Other == [kind |-> "archive", settings |-> l2, quiz |-> <<>>,
          ai |-> [list |-> <<Web>>, challenges |-> (target1 :> [cat |-> Web, mode |-> "event", cs |-> FALSE,
                                                    flag |-> Absent, hint |-> fa, sign |-> Absent])],
          sponsors |-> (gold :> SponsorRow(l2, 0, l2)), images |-> NoCells]
SomeArchives == {Other, [Other EXCEPT !.settings = bad], [Other EXCEPT !.sponsors[gold].logo = bad],
                 [Other EXCEPT !.images = (mark :> bad)],
                 [Other EXCEPT !.quiz = <<InSheet(quest1, Post({1}, TRUE, <<2>>))>>],
                 [Other EXCEPT !.ai.list = <<web, pwn>>]}

Ops == {"question", "dropQuestion", "sheet", "draft", "rotate", "dropTarget", "list", "rename",
        "sponsor", "dropSponsor", "reorder", "image", "dropImage", "resume", "export", "restore", "faults"}
Of(some) == [o \in Ops |-> IF o \in DOMAIN some THEN some[o] ELSE 0]
Scene(start, some) == [store |-> start, room |-> Of(some)]
SomeScenes ==
    { Scene(NoCells, [question |-> 1, dropQuestion |-> 1, sheet |-> 1]),
      Scene(NoCells, [question |-> 2, dropQuestion |-> 1, faults |-> 1]),
      Scene(Quizzed, [question |-> 1, sheet |-> 1, faults |-> 1]),
      Scene(Listed, [draft |-> 2]),
      Scene(Listed, [draft |-> 1, dropTarget |-> 1, faults |-> 1]),
      Scene(Listed @@ Target(target1, web), [draft |-> 1, rotate |-> 2]),
      Scene(Listed @@ Target(target1, web), [draft |-> 1, rename |-> 1]),
      Scene(Listed @@ Target(target1, web), [list |-> 1, rename |-> 1]),
      Scene(Listed @@ Target(target1, web), [rename |-> 1, faults |-> 1]),
      Scene(Listed @@ Target(target1, web), [rotate |-> 1, dropTarget |-> 1, faults |-> 1]),
      Scene(Shown, [sponsor |-> 2, faults |-> 1]),
      Scene(Shown, [sponsor |-> 1, reorder |-> 1]),
      Scene(Shown, [dropSponsor |-> 1, reorder |-> 1, faults |-> 1]),
      Scene(NoCells, [image |-> 2, dropImage |-> 1]),
      Scene(Box, [export |-> 1, draft |-> 1]),
      Scene(QuizBox, [export |-> 1, restore |-> 1]), Scene(AiBox, [export |-> 1, restore |-> 1]),
      Scene(Box, [export |-> 1, faults |-> 2]),
      Scene(Box, [restore |-> 1, faults |-> 1, resume |-> 1]),
      Scene(Box, [restore |-> 2]),
      Scene(Box, [image |-> 1, restore |-> 1, faults |-> 1]),
      Scene(Box, [restore |-> 1, sheet |-> 1]) }


\* Contestants answer and nothing is edited, or the other way round.
NothingEdited == Scene(Paused, [faults |-> 0])
EitherScene == SomeScenes \union {NothingEdited}
Grading == cells = Paused
NothingAnswered == Allow({}, 0, 0, 0, 0, 0, 0, 0)
EitherAllowance == MCAllowances \union {NothingAnswered}
BoxInit ==
    /\ GraderInit /\ ArchiveInit
    /\ IF Grading THEN left # NothingAnswered ELSE left = NothingAnswered /\ mod = "quiz"
BoxNext ==
    \/ Grading /\ GraderNext /\ UNCHANGED archiveVars
    \/ ~Grading /\ ArchiveNext /\ UNCHANGED graderVars
BoxSpec == BoxInit /\ [][BoxNext]_<<graderVars, archiveVars>>

ArchiveTypeOK ==
    /\ revoked \subseteq Targets \X (0..MaxKeys) /\ minted \in 0..MaxKeys
    /\ DOMAIN room = Ops
    /\ \A d \in Desks : Serving(d) => desk[d].wrote \in BOOLEAN

\* The quiz bank, the AI catalogue, sponsors and images hold together, and an
\* archive replaces all of them or, refused, nothing.
BoxInv == ~Grading => ArchiveTypeOK /\ BanksInv /\ BrandInv /\ ArchiveInv
=============================================================================
