------------------------------- MODULE Brand -------------------------------
(***************************************************************************)
(* Sponsors and the event's own images (sponsors-store.ts,                    *)
(* event-images-store.ts): metadata in one hash and bytes in another, on the   *)
(* requests and the store of Banks.  An image is its bytes; the metadata kept   *)
(* of it is its etag, written as the same value.                              *)
(***************************************************************************)
EXTENDS Banks

CONSTANTS
    Sponsors,       \* sponsor ids
    SponsorNames,   \* sponsor names
    ImageSlots,     \* image slots: logo, icon
    Images,         \* images the stores accept
    BadImages,      \* uploads that do not sniff as an image
    Orders          \* sequences of sponsor ids a reorder may send
ASSUME ImagesApart == Images \intersect BadImages = {}
ASSUME OrdersAreLists == \A ids \in Orders : ids \in Seq(Range(ids))

\* A sponsor's form: what becomes of its logo.
Logos == {"keep", "none"} \union Images \union BadImages

SponsorRow(name, place, logo) == [name |-> name, place |-> place, logo |-> logo]
SponsorWrites(s, row) ==
    <<HSet("sponsor", s, row),
      IF row.logo = Absent THEN HDel("bytes", s) ELSE HSet("bytes", s, row.logo)>>

\* upsertSponsor refuses bytes that are no image before it writes anything.
\* Defect: the form's logo is stored with the metadata of the one before.
PostSponsorAsWas(d) == \E s \in Sponsors, n \in SponsorNames, logo \in Logos \ BadImages :
    LET ask == [op |-> "sponsor", id |-> s, name |-> n, logo |-> logo]
    IN  IF logo \in Images
        THEN Begin(d, ask, <<HSet("sponsor", s, SponsorRow(n, 0, Absent)), HSet("bytes", s, logo)>>, "closed")
        ELSE IF logo = "keep" THEN Begin(d, ask, <<Get("sponsor")>>, "keep")
        ELSE Begin(d, ask, SponsorWrites(s, SponsorRow(n, 0, Absent)), "closed")
PostSponsor(d) == \E s \in Sponsors, n \in SponsorNames, logo \in Logos \ BadImages :
    LET ask == [op |-> "sponsor", id |-> s, name |-> n, logo |-> logo]
    IN  IF logo = "keep" THEN Begin(d, ask, <<Get("sponsor")>>, "keep")
        ELSE Begin(d, ask,
                   SponsorWrites(s, SponsorRow(n, 0, IF logo = "none" THEN Absent ELSE logo)), "closed")

\* A form that leaves the logo alone writes the metadata with the logo it read.
KeepLogo(d) ==
    /\ desk[d].step = "keep"
    /\ LET s == desk[d].ask.id
           held == Heard(d, "sponsor")
           logo == IF s \in DOMAIN held THEN held[s].logo ELSE Absent
       IN  Send(d, <<HSet("sponsor", s, SponsorRow(desk[d].ask.name, 0, logo))>>, "closed")
    /\ UNCHANGED <<cells, minted, revoked, damaged, room>>

DropSponsor(d) == \E s \in Sponsors :
    Begin(d, [op |-> "dropSponsor", id |-> s], <<HDel("sponsor", s), HDel("bytes", s)>>, "closed")

\* reorderSponsors writes every row it read again, at its place in the list.
Reorder(d) == \E ids \in Orders :
    Begin(d, [op |-> "reorder", ids |-> ids], <<Get("sponsor")>>, "place")
Place(d) ==
    /\ desk[d].step = "place"
    /\ LET held == Heard(d, "sponsor")
           ids == desk[d].ask.ids
           row(k) == HSet("sponsor", ids[k], [held[ids[k]] EXCEPT !.place = k - 1])
       IN  Send(d, FlattenSeq([k \in DOMAIN ids |-> IF ids[k] \in DOMAIN held THEN <<row(k)>> ELSE <<>>]),
                "closed")
    /\ UNCHANGED <<cells, minted, revoked, damaged, room>>

ImageWrites(slot, image) == <<HSet("meta", slot, image), HSet("data", slot, image)>>
SetImage(d) == \E slot \in ImageSlots, image \in Images :
    Begin(d, [op |-> "image", id |-> slot], ImageWrites(slot, image), "closed")
ClearImage(d) == \E slot \in ImageSlots :
    Begin(d, [op |-> "dropImage", id |-> slot], <<HDel("meta", slot), HDel("data", slot)>>, "closed")
-----------------------------------------------------------------------------
(***************************************************************************)
(* The sections of a file.                                                   *)
(***************************************************************************)
\* exportBundle reads the rows, then each logo; a logo whose bytes are gone is left out.
SponsorsExport(held, bytes) == [s \in DOMAIN held |->
    [held[s] EXCEPT !.logo = IF @ = Absent THEN Absent ELSE At(bytes, s)]]
\* validateBundleLogos: every logo is decoded before anything is written.
LogosSniff(section) == \A s \in DOMAIN section : section[s].logo \notin BadImages
SponsorsImport(section) ==
    LET ids == SetToSeq(DOMAIN section)
        writes(s) == IF section[s].logo = Absent THEN <<HSet("sponsor", s, section[s])>>
                                                 ELSE SponsorWrites(s, section[s])
    IN  FlattenSeq([k \in DOMAIN ids |-> writes(ids[k])])

ImagesExport(data) == data
ImagesSniff(section) == \A slot \in DOMAIN section : section[slot] \notin BadImages
ImagesImport(section) ==
    LET slots == SetToSeq(DOMAIN section)
    IN  FlattenSeq([k \in DOMAIN slots |-> ImageWrites(slots[k], section[slots[k]])])
-----------------------------------------------------------------------------
BrandHandlers(d) ==
    \/ PostSponsor(d) \/ KeepLogo(d) \/ DropSponsor(d) \/ Reorder(d) \/ Place(d)
    \/ SetImage(d) \/ ClearImage(d)

\* A page that shows a logo finds the bytes its row tells of, and no bytes stay
\* of a sponsor that left ("the two hashes can never observably diverge").
LogosMatch == \A s \in Sponsors : Settled(<<"sponsor", s>>) =>
    Cell("bytes", s) = IF Cell("sponsor", s) = Absent THEN Absent ELSE Cell("sponsor", s).logo

\* The event's images: what is served under an etag is the image it was made of.
ImagesMatch == \A slot \in ImageSlots : Settled(<<"image", slot>>) => Cell("meta", slot) = Cell("data", slot)

\* Sponsors and images hold together, whatever requests overlap or break.
BrandInv == LogosMatch /\ ImagesMatch
=============================================================================
