------------------------------- MODULE Bundle -------------------------------
(* The candidate bundle in memory (bundlefs), the extraction of its assets   *)
(* and the rendering of its concepts, its index and its log.                 *)
EXTENDS Segmentation

IndexPath == Path("", 0, Slug("index"))
LogPath == Path("", 0, Slug("log"))
AssetPath(digest) == Path("assets", digest, Slug("sha256"))

EmptyFS == [files |-> [p \in {} |-> 0], next |-> 0]

Has(fs, path) == path \in DOMAIN fs.files
Data(fs, path) == fs.files[path].data

\* A file that is written again keeps its place.
Put(fs, path, data) ==
    IF Has(fs, path) THEN [fs EXCEPT !.files[path].data = data]
    ELSE [next  |-> fs.next + 1,
          files |-> [p \in DOMAIN fs.files \cup {path} |->
                        IF p = path THEN [seq |-> fs.next, data |-> data] ELSE fs.files[p]]]

Delete(fs, path) == [fs EXCEPT !.files = [p \in DOMAIN fs.files \ {path} |-> fs.files[p]]]

\* The Markdown files besides index.md and log.md, in the order they were first written.
ConceptFiles(fs) == {p \in DOMAIN fs.files : p.dir = "" /\ p \notin {IndexPath, LogPath}}
Concepts(fs) ==
    LET places == Ascending({fs.files[p].seq : p \in ConceptFiles(fs)})
    IN  [i \in DOMAIN places |-> CHOOSE p \in ConceptFiles(fs) : fs.files[p].seq = places[i]]
Assets(fs) == {p \in DOMAIN fs.files : p.dir = "assets"}

-----------------------------------------------------------------------------
(* Assets: embedded images become files named by their digest.               *)

\* The blocks of all the units, one unit after the other.
BlocksOf(units) ==
    FlattenSeq([k \in DOMAIN units |-> [i \in DOMAIN units[k].blocks |-> <<k, i>>]])

ImageAt(units, at) == units[at[1]].blocks[at[2]].image

\* The image shows the file of the bundle, and its bytes are let go.
Refer(units, at, path) ==
    [units EXCEPT ![at[1]].blocks[at[2]].image = [@ EXCEPT !.url = FileLink(path), !.data = 0]]

\* Seeded fault: the budget is compared and never spent.
ExtractUnpaid(acc, at) ==
    LET img  == ImageAt(acc.units, at)
        path == AssetPath(img.data)
    IN  IF img.remote \/ img.data = 0 \/ img.size > acc.budget THEN acc
        ELSE [acc EXCEPT !.fs = Put(@, path, img.size), !.units = Refer(@, at, path)]

\* One block. The budget is looked at before the digest, and spent only once per
\* digest.
ExtractOne(acc, at) ==
    LET img  == ImageAt(acc.units, at)
        path == AssetPath(img.data)
        taken == [acc EXCEPT !.units = Refer(@, at, path)]
    IN  IF img = NoImage THEN acc
        ELSE IF img.remote THEN [acc EXCEPT !.remote = @ + 1]
        ELSE IF img.data = 0 \/ img.size > acc.budget THEN [acc EXCEPT !.skipped = @ + 1]
        ELSE IF Has(acc.fs, path) THEN taken
        ELSE [taken EXCEPT !.fs = Put(@, path, img.size),
                           !.budget = @ - img.size,
                           !.extracted = @ + 1]

Extract(units, fs, budget) ==
    LET at == BlocksOf(units)
        start == [units |-> units, fs |-> fs, budget |-> budget, extracted |-> 0, skipped |-> 0, remote |-> 0]
        after[n \in 0..Len(at)] == IF n = 0 THEN start ELSE ExtractOne(after[n - 1], at[n])
    IN  after[Len(at)]

-----------------------------------------------------------------------------
(* Rendering.                                                                *)

Clamp(n, low, high) == IF n < low THEN low ELSE IF n > high THEN high ELSE n

\* Seeded fault: the file of the link is not compared with its own.
RewriteEveryLink(link, anchors, self) ==
    IF link.kind = "anchor" /\ link.frag \in DOMAIN anchors
    THEN Link("file", anchors[link.frag], link.frag, {})
    ELSE link

\* A link to an anchor that ended in another file is given that file.
RewriteLink(link, anchors, self) ==
    IF link.kind = "anchor" /\ link.frag \in DOMAIN anchors /\ anchors[link.frag] # self
    THEN Link("file", anchors[link.frag], link.frag, {})
    ELSE link

RewriteAnchors(text, anchors, self) ==
    [text EXCEPT !.links = [i \in DOMAIN text.links |-> RewriteLink(text.links[i], anchors, self)]]

\* Headings go below the H1 of the concept; anchors are rewritten in paragraphs and
\* lists only.
RenderBlock(b, base, anchors, self) ==
    CASE b.kind = "heading" -> [b EXCEPT !.level = Clamp(b.level + 2 - base, 2, 6)]
      [] b.kind \in {"paragraph", "list"} -> [b EXCEPT !.text = RewriteAnchors(@, anchors, self)]
      [] OTHER -> b

\* The link [title](./path) that index.md and the navigation write.
Titled(title, path) == [title |-> title, link |-> FileLink(path)]
IndexText == Text(Slug("indice"), <<>>, {})

\* The heading that opens the unit is its H1 and is not repeated in the body.
Body(unit) ==
    IF /\ unit.blocks # <<>>
       /\ IsHeading(unit.blocks[1])
       /\ unit.blocks[1].text = unit.title
    THEN Tail(unit.blocks) ELSE unit.blocks

\* The navigation: the previous unit, the index and the next unit.
Navigation(units, k) ==
    (IF k > 1 THEN <<Titled(units[k - 1].title, units[k - 1].path)>> ELSE <<>>)
    \o <<Titled(IndexText, IndexPath)>>
    \o (IF k < Len(units) THEN <<Titled(units[k + 1].title, units[k + 1].path)>> ELSE <<>>)

File(type, order, title, body, toc, nav, broken) ==
    [type |-> type, order |-> order, title |-> title, body |-> body, toc |-> toc,
     nav |-> nav, broken |-> broken]

\* Whether bytes that are not UTF-8 reach the file: titles and blocks are written as
\* they came, but for the front matter, where %q escapes them.
MarksOf(b) == b.text.marks \cup b.image.alt.marks \cup b.image.url.marks
NotUTF8(titles, body) ==
    \/ \E t \in titles : "broken" \in t.marks
    \/ \E i \in DOMAIN body : "broken" \in MarksOf(body[i])

TitlesOf(entries) == {entries[k].title : k \in DOMAIN entries}

Concept(units, k, anchors) ==
    LET body   == Body(units[k])
        levels == {body[i].level : i \in {j \in DOMAIN body : IsHeading(body[j])}}
        base   == IF levels = {} THEN 0 ELSE Lowest(levels)
        nav    == Navigation(units, k)
    IN  File("concept", k, units[k].title,
             [i \in DOMAIN body |-> RenderBlock(body[i], base, anchors, units[k].path)],
             <<>>, nav, NotUTF8({units[k].title} \cup TitlesOf(nav), body))

RenderConcepts(fs, units) ==
    LET anchors == AnchorToFile(units)
        after[k \in 0..Len(units)] ==
            IF k = 0 THEN fs ELSE Put(after[k - 1], units[k].path, Concept(units, k, anchors))
    IN  after[Len(units)]

\* The source name stands in the front matter, as does the title, which is the H1 too.
Index(title, name, units) ==
    File("bundle", 0, title, <<Prose("raw", name)>>,
         [k \in DOMAIN units |-> Titled(units[k].title, units[k].path)], <<>>,
         NotUTF8({title} \cup TitlesOf(units), <<>>))

\* The log repeats the source name, the titles of the units and, once there is a
\* report, the messages of its errors and warnings, where %q shows the target.
\* sanitizeInline cuts them all at 297 bytes, and may cut a character in two; it leaves
\* the brackets of links alone.  (Its notes are fixed texts, shorter than that.)
Log(name, units, findings) ==
    File("log", 0, NoText,
         <<Prose("table", name)>> \o [k \in DOMAIN units |-> Prose("table", units[k].title)], <<>>, <<>>,
         \/ \E t \in {name} \cup TitlesOf(units) : "broken" \in t.marks \/ "wide" \in t.marks
         \/ \E f \in findings : f.severity # "info" /\ "wide" \in f.target.marks)
=============================================================================
