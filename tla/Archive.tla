------------------------------ MODULE Archive ------------------------------
(***************************************************************************)
(* The whole-event archive (event-store.ts, event-io.ts) over the stores of    *)
(* Banks and Brand: an export reads every section in turn, an import replaces  *)
(* all of them after its checks.  The jeopardy section and its files are in     *)
(* Content, which models the same import over its own store.                  *)
(*                                                                         *)
(* <<"box", "frozen">> exists while scoring is paused, <<"box", "progress">>   *)
(* while there is any run state.                                             *)
(***************************************************************************)
EXTENDS Brand

CONSTANTS
    BadPolicies,    \* settings updateAdminSettings refuses
    Archives,       \* files an organizer may have edited by hand
    Scenes          \* what a box begins with, and what may be asked of it
\* What JSON can carry, and what a store can hold.
IsFile(file) ==
    /\ file.quiz \in Seq(Range(file.quiz))
    /\ IsFiniteSet(DOMAIN file.ai.challenges) /\ IsFiniteSet(DOMAIN file.sponsors) /\ IsFiniteSet(DOMAIN file.images)
ASSUME ArchivesAreFiles == \A file \in Archives : IsFile(file)
ASSUME StoresAreFinite == \A scene \in Scenes : IsFiniteSet(DOMAIN scene.store)
ASSUME AbsentIsNoFlag == Absent # TRUE
VARIABLE shelf      \* the last archive that was exported

archiveVars == <<bankVars, shelf>>
NoFile == [kind |-> "none"]

ArchiveInit == \E scene \in Scenes :
    /\ cells = scene.store /\ room = scene.room
    /\ desk = [d \in Desks |-> Idle]
    /\ minted = 0 /\ revoked = {} /\ damaged = {}
    /\ shelf = [file |-> NoFile, whole |-> FALSE]
-----------------------------------------------------------------------------
(***************************************************************************)
(* Export: one read after the other.                                         *)
(***************************************************************************)
\* listQuestionsForAdmin and listAiChallengesForAdmin take a failed read for an empty one.
ExportReads == <<Get("settings"), GetOrEmpty("question"), GetOrEmpty("key"), GetOrEmpty("record"),
                 GetOrEmpty("flag"), GetOrEmpty("hint"), GetOrEmpty("sign"), GetOrEmpty("list"),
                 Get("sponsor"), Get("bytes"), Get("data")>>

ExportArchive(d) == Begin(d, [op |-> "export"], ExportReads, "assemble") /\ UNCHANGED shelf

FileOf(d) ==
    LET heard(h) == Heard(d, h) IN
    [kind     |-> "archive",
     settings |-> At(heard("settings"), "policy"),
     quiz     |-> QuizExport(heard("question"), heard("key")),
     ai       |-> AiExport(heard("record"), heard("flag"), heard("hint"), heard("sign"),
                           IF "all" \in DOMAIN heard("list") THEN heard("list")["all"] ELSE <<>>),
     sponsors |-> SponsorsExport(heard("sponsor"), heard("bytes")),
     images   |-> ImagesExport(heard("data"))]

\* whole: no read failed, nothing overlapped, and nothing was damaged before.
Assemble(d) ==
    /\ desk[d].step = "assemble"
    /\ IF AiExportable(Heard(d, "record"), Heard(d, "flag"))
       THEN /\ shelf' = [file |-> FileOf(d),
                         whole |-> /\ desk[d].met = {} /\ damaged = {}
                                   /\ \A k \in DOMAIN ExportReads :
                                        ExportReads[k].at[1] \in DOMAIN desk[d].heard]
            /\ Close(d, TRUE)
       ELSE Close(d, FALSE) /\ UNCHANGED shelf
    /\ UNCHANGED <<cells, minted, revoked, room>>
-----------------------------------------------------------------------------
(***************************************************************************)
(* Import: replace all.                                                      *)
(***************************************************************************)
\* parseEventBundle: each section by its own parser, and one section at least
\* (an export always has its quiz and ai sections, if empty).
ArchiveParses(file) == file.kind = "archive" /\ QuizParses(file.quiz) /\ AiParses(file.ai)

PostArchive(d) == \E file \in Archives \union {shelf.file} :
    /\ ArchiveParses(file) /\ minted < MaxKeys
    /\ Begin(d, [op |-> "restore", file |-> file], <<Get("box")>>, "guard")
    /\ UNCHANGED shelf

Continue(d, step, todo, next) ==
    /\ desk[d].step = step
    /\ Send(d, todo, next)
    /\ UNCHANGED <<cells, minted, revoked, damaged, room, shelf>>

\* Every check is made before anything is written: the pause, the images, the settings.
Passes(file) == LogosSniff(file.sponsors) /\ ImagesSniff(file.images) /\ file.settings \notin BadPolicies
\* Defect: logos are only decoded as they are written, after the reset.
GuardSniffsLate(d) ==
    /\ desk[d].step = "guard"
    /\ IF "frozen" \in DOMAIN Heard(d, "box") /\ desk[d].ask.file.settings \notin BadPolicies
       THEN /\ Send(d, <<HSet("settings", "policy", desk[d].ask.file.settings)>>, "pictures")
            /\ UNCHANGED damaged
       ELSE Close(d, FALSE)
    /\ UNCHANGED <<cells, minted, revoked, room, shelf>>
Guard(d) ==
    /\ desk[d].step = "guard"
    /\ IF "frozen" \in DOMAIN Heard(d, "box") /\ Passes(desk[d].ask.file)
       THEN /\ Send(d, <<HSet("settings", "policy", desk[d].ask.file.settings)>>, "pictures")
            /\ UNCHANGED damaged
       ELSE Close(d, FALSE)
    /\ UNCHANGED <<cells, minted, revoked, room, shelf>>

Pictures(d) == Continue(d, "pictures", ImagesImport(desk[d].ask.file.images), "reset")

\* resetEvent freezes scoring, then sweeps the run state; sponsors go with it and
\* the launch key is kept.
Reset(d) == Continue(d, "reset",
    <<HSet("box", "frozen", TRUE), HDel("box", "progress"), Del("sponsor"), Del("bytes")>>, "clear")

\* clearQuestions, clearAiChallenges.
\* Defect: the bank of questions is left to the import that follows.
ClearAiOnly(d) == Continue(d, "clear",
    <<Del("record"), Del("flag"), Del("norm"), Del("hint"), Del("sign"), Del("list")>>, "quizIds")
Clear(d) == Continue(d, "clear",
    <<Del("question"), Del("key"),
      Del("record"), Del("flag"), Del("norm"), Del("hint"), Del("sign"), Del("list")>>, "quizIds")

QuizIds(d) == Continue(d, "quizIds", <<Get("question")>>, "quiz")
Quiz(d) == Continue(d, "quiz", QuizImport(desk[d].ask.file.quiz), "aiIds")
AiIds(d) == Continue(d, "aiIds", <<Get("record"), Get("list")>>, "ai")
Ai(d) ==
    /\ desk[d].step = "ai"
    /\ Send(d, AiImport(desk[d].ask.file.ai, Categories(d)), "sponsors")
    /\ minted' = minted + 1
    /\ UNCHANGED <<cells, revoked, damaged, room, shelf>>
Section(d) == Continue(d, "sponsors", SponsorsImport(desk[d].ask.file.sponsors), "closed")

\* An organizer opens scoring, and contestants score while it is open.
Resume ==
    /\ room.resume > 0 /\ room' = [room EXCEPT !.resume = @ - 1]
    /\ cells' = Effect(cells, HDel("box", "frozen"))
    /\ desk' = [d \in Desks |-> IF desk[d].step = "idle" THEN desk[d]
                                ELSE [desk[d] EXCEPT !.met = @ \union {"resume"}]]
    /\ UNCHANGED <<minted, revoked, damaged, shelf>>
Score ==
    /\ Cell("box", "frozen") = Absent /\ Cell("box", "progress") = Absent
    /\ cells' = Effect(cells, HSet("box", "progress", TRUE))
    /\ UNCHANGED <<desk, minted, revoked, damaged, room, shelf>>
-----------------------------------------------------------------------------
ArchiveHandlers(d) ==
    \/ ExportArchive(d) \/ Assemble(d) \/ PostArchive(d) \/ Guard(d) \/ Pictures(d) \/ Reset(d)
    \/ Clear(d) \/ QuizIds(d) \/ Quiz(d) \/ AiIds(d) \/ Ai(d) \/ Section(d)

ArchiveNext ==
    \/ \E d \in Desks : (Handlers(d) \/ BrandHandlers(d) \/ Pipelines(d)) /\ UNCHANGED shelf
    \/ \E d \in Desks : ArchiveHandlers(d)
    \/ Resume
    \/ Score
ArchiveSpec == ArchiveInit /\ [][ArchiveNext]_archiveVars
-----------------------------------------------------------------------------
\* The file an export would make of the box as it is.
Now(h) == Hash(cells, h)
Restoring(d) == desk[d].step # "idle" /\ desk[d].ask.op = "restore"

\* A file that does not pass the checks changes nothing
\* ("rejected with NOTHING destructive done yet", event-store.ts).
RefusedLeavesAll == \A d \in Desks :
    Restoring(d) /\ ~Passes(desk[d].ask.file) => ~desk[d].wrote

\* A file that was imported whole is what the box then holds: its sections, and
\* nothing of the event before, but for images it does not carry.
Replaced == \A d \in Desks :
    LET w == desk[d]
        file == w.ask.file
    IN  Restoring(d) /\ w.step = "closed" /\ w.ok /\ w.met = {} =>
          /\ Range(QuizExport(Now("question"), Now("key")))
                 = {[file.quiz[k] EXCEPT !.correct = Canon(@)] : k \in DOMAIN file.quiz}
          /\ Fields(cells, "record") = DOMAIN file.ai.challenges
          /\ \A a \in Targets : Cell("sign", a) # Absent <=> a \in DOMAIN file.ai.challenges
          /\ \A a \in DOMAIN file.ai.challenges :
                 file.ai.challenges[a].sign # Absent => Cell("sign", a) = file.ai.challenges[a].sign
          /\ SponsorsExport(Now("sponsor"), Now("bytes")) = file.sponsors
          /\ \A slot \in DOMAIN file.images : Cell("data", slot) = file.images[slot]
          /\ Cell("box", "progress") = Absent

\* From its first clear to its answer an import runs on a frozen box, whoever else
\* edits or imports, unless an organizer resumes scoring meanwhile.
FrozenWhileReplacing == \A d \in Desks :
    Restoring(d) /\ "resume" \notin desk[d].met /\ desk[d].step \in {"clear", "quizIds", "quiz", "aiIds", "ai", "sponsors"}
        => Cell("box", "frozen") # Absent

\* What a whole export wrote of a box that is not damaged is a file an import takes,
\* if no choice is blank and the category list is one that covers the catalogue.
Exportable(file) ==
    /\ \A k \in DOMAIN file.quiz : ~file.quiz[k].blank
    /\ \A a \in DOMAIN file.ai.challenges : file.ai.challenges[a].cat \in Range(file.ai.list)
    /\ \A j, k \in DOMAIN file.ai.list : Lower[file.ai.list[j]] = Lower[file.ai.list[k]] => j = k
BackupsReadable == shelf.whole /\ Exportable(shelf.file) => ArchiveParses(shelf.file)

\* An archive replaces all or, refused, nothing, and what it replaced is what it held.
ArchiveInv == /\ RefusedLeavesAll /\ Replaced /\ FrozenWhileReplacing
              /\ BackupsReadable
=============================================================================
