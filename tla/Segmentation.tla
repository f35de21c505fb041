--------------------------- MODULE Segmentation ---------------------------
(* segment.Split: from the blocks of a document to its logical units, and    *)
(* slug.Deduper, which numbers the slugs that repeat.                        *)
EXTENDS Document

\* "%02d-slug", and the name of the only unit of a short document.
ConceptPath(order, slug) == Path("", order, slug)
SingleUnit == ConceptPath(0, Slug("documento"))

HeadingsOf(blocks, level) ==
    {i \in DOMAIN blocks : IsHeading(blocks[i]) /\ blocks[i].level = level}

Lowest(S) == CHOOSE n \in S : \A m \in S : n <= m

\* The lowest of the levels 1..3 that appears twice; failing that, the lowest that
\* appears; failing that 0, for no cut.
SplitLevel(blocks) ==
    LET present  == {l \in 1..3 : HeadingsOf(blocks, l) # {}}
        repeated == {l \in present : Cardinality(HeadingsOf(blocks, l)) >= 2}
    IN  IF repeated # {} THEN Lowest(repeated)
        ELSE IF present # {} THEN Lowest(present) ELSE 0

\* The numbers of a set, from the lowest to the highest.
Ascending(S) ==
    [i \in 1..Cardinality(S) |-> CHOOSE n \in S : Cardinality({m \in S : m < n}) = i - 1]

\* The blocks where a unit begins, in order.
Cuts(blocks) == Ascending(HeadingsOf(blocks, SplitLevel(blocks)))

HasProse(blocks) == \E i \in DOMAIN blocks : IsContent(blocks[i])

\* The titles a unit gets when the document offers none; the slug of "Seccion 3"
\* is "seccion-3".
DocumentTitle == Text(Slug("documento"), <<>>, {})
PreambleTitle == Text(Slug("introduccion"), <<>>, {})
SectionTitle(i) == Text([base |-> "seccion", tail |-> <<i>>], <<>>, {})
Or(title, other) == IF title = NoText THEN other ELSE title

Part(title, blocks) == [title |-> title, blocks |-> blocks]

\* Seeded fault: the document is cut at its headings and nowhere else.
NoPreamble(doc) == <<>>

\* What comes before the first cut is a part of its own when it holds prose.
Preamble(doc) ==
    LET before == SubSeq(doc.blocks, 1, Cuts(doc.blocks)[1] - 1)
    IN  IF HasProse(before) THEN <<Part(Or(doc.title, PreambleTitle), before)>> ELSE <<>>

Sections(doc) ==
    LET cuts == Cuts(doc.blocks)
    IN  [i \in DOMAIN cuts |->
            Part(Or(doc.blocks[cuts[i]].text, SectionTitle(i)),
                 SubSeq(doc.blocks, cuts[i],
                        IF i < Len(cuts) THEN cuts[i + 1] - 1 ELSE Len(doc.blocks)))]

Parts(doc) ==
    IF SplitLevel(doc.blocks) = 0
    THEN <<Part(Or(doc.title, DocumentTitle), doc.blocks)>>
    ELSE Preamble(doc) \o Sections(doc)

\* Deduper.Unique over a sequence: the n-th occurrence of a slug gets "-n".
Dedupe(slugs) ==
    [k \in DOMAIN slugs |->
        LET earlier == Cardinality({i \in 1..(k - 1) : slugs[i] = slugs[k]})
        IN  IF earlier = 0 THEN slugs[k] ELSE [slugs[k] EXCEPT !.tail = Append(@, earlier + 1)]]

\* Number the parts in the order of the document. The order is the first component
\* of a file name, so the second Deduper of the code, over the names, changes none.
Split(doc) ==
    LET parts == Parts(doc)
        slugs == Dedupe([k \in DOMAIN parts |-> parts[k].title.slug])
    IN  [k \in DOMAIN parts |->
            [order  |-> k,
             title  |-> parts[k].title,
             blocks |-> parts[k].blocks,
             anchor |-> slugs[k],
             path   |-> IF Len(parts) = 1 THEN SingleUnit ELSE ConceptPath(k, slugs[k])]]

\* The limit is only looked at while cutting; 0 means none.
TooManyUnits(doc, maxUnits) ==
    maxUnits > 0 /\ SplitLevel(doc.blocks) > 0 /\ Len(Parts(doc)) > maxUnits

\* mapAnchors: the headings of a unit, and its own anchor, lead to its file. A later
\* unit overwrites what an earlier one wrote.
AnchorsOf(unit) ==
    {unit.anchor} \cup {unit.blocks[i].text.slug :
        i \in {j \in DOMAIN unit.blocks : IsHeading(unit.blocks[j]) /\ unit.blocks[j].text # NoText}}

AnchorToFile(units) ==
    [a \in UNION {AnchorsOf(units[k]) : k \in DOMAIN units} |->
        units[CHOOSE k \in DOMAIN units :
                /\ a \in AnchorsOf(units[k])
                /\ \A m \in DOMAIN units : a \in AnchorsOf(units[m]) => m <= k].path]
===========================================================================
