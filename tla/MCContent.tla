----------------------------- MODULE MCContent -----------------------------
(***************************************************************************)
(* Instances of Content: two challenges, categories of which two differ in    *)
(* case only, two stories, two file contents and two requests in flight.      *)
(***************************************************************************)
EXTENDS Content

CONSTANTS i1, i2, web, Web, pwn, rev, t1, t2, s1, s2, d1, d2

SameLetters == (web :> web) @@ (Web :> web) @@ (pwn :> pwn) @@ (rev :> rev)
TwoChunks == (Link :> 0) @@ (d1 :> 1) @@ (d2 :> 2)

Row(name, text) == [category |-> name, text |-> text]
Telling(one, other) == (s1 :> one) @@ (s2 :> other)

\* One challenge in the first category and a free place; and a full board.
OneChallenge == [record |-> (i1 :> Row(web, t1)) @@ (i2 :> None),
                 categories |-> <<web, pwn>>, stories |-> Telling(<<i1>>, <<>>)]
TwoChallenges == [record |-> (i1 :> Row(web, t1)) @@ (i2 :> Row(web, t1)),
                  categories |-> <<web, pwn>>, stories |-> Telling(<<i1, i2>>, <<>>)]
EitherBoard == {OneChallenge, TwoChallenges}

SomeTellings == {Telling(<<>>, <<i1>>), Telling(<<i2, i1>>, <<>>)}

\* A bundle that spells a category its own way and brings a file, one that
\* retells a challenge, and one that brings a category more.
Bundle(rows, names, own, carried) == [challenges |-> rows, categories |-> names,
                                      stories |-> own, carried |-> carried]
Line(i, name, text, attach) == [item |-> i, category |-> name, text |-> text, attach |-> attach]
SomeBundles ==
    { Bundle(<<Line(i2, Web, t2, <<d1, Link>>)>>, <<Web>>, Telling(<<>>, <<i2>>), {<<i2, d1>>}),
      Bundle(<<Line(i1, web, t1, <<d2>>)>>, <<web>>, Telling(<<>>, <<i1>>), {}),
      Bundle(<<Line(i1, rev, t2, <<d1>>), Line(i2, pwn, t1, <<d2>>)>>, <<pwn, rev>>,
             Telling(<<i1>>, <<>>), {<<i1, d1>>, <<i2, d2>>}) }

\* Which requests a behaviour has, and how many.
Kinds == BoardKinds \union {"upload", "remove", "fault", "lost"}
Allow(some) == [kind \in Kinds |-> IF kind \in DOMAIN some THEN some[kind] ELSE 0]
SomeAllowances == {Allow(a) : a \in {
    [rename |-> 2, save |-> 1, fault |-> 1],
    [list |-> 1, rename |-> 1, save |-> 1],
    [rename |-> 1, fault |-> 1, export |-> 1, list |-> 1],
    [delete |-> 1, save |-> 1, upload |-> 1, stories |-> 1],
    [delete |-> 1, fault |-> 1, export |-> 1, lost |-> 1],
    [import |-> 1, stories |-> 1, fault |-> 1],
    [import |-> 1, upload |-> 1, remove |-> 1],
    [import |-> 2, fault |-> 1],
    [import |-> 1, delete |-> 1],
    [replace |-> 1, upload |-> 1, fault |-> 1],
    [upload |-> 3, remove |-> 1, lost |-> 1, fault |-> 1] }}
=============================================================================
