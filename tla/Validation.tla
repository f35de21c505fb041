---------------------------- MODULE Validation ----------------------------
(* validate.Run: the validity of a bundle for the platform, an error of      *)
(* which stops its publication, and validate.Conformance: its OKF score,     *)
(* which never does. Both read only the files of the bundle.                 *)
(*                                                                           *)
(* The renderer writes front matter and safe paths by construction, so the   *)
(* rules about them (FM-001, FM-002, SEC-001, STR-006) have no finding here. *)
EXTENDS Bundle

CONSTANT LargeUnit    \* LargeUnitBytes, in blocks
ASSUME LargeUnitAssumption == LargeUnit \in Nat

\* What the regular expression \[[^\]]*\]\(([^)]+)\) finds in [title](link): the
\* brackets of the title are escaped, but the expression stops at the first closing
\* one, escaped or not. A link inside the title is found in its place.
Matches(title, link) ==
    IF title.links # <<>> THEN title.links
    ELSE IF "bracket" \in title.marks THEN <<>>
    ELSE <<link>>

MatchesAll(entries) == FlattenSeq([i \in DOMAIN entries |-> Matches(entries[i].title, entries[i].link)])

\* The index ends at the first title that holds the comment that closes it, after the
\* links of that title.
Listed(toc) ==
    LET closing == {i \in DOMAIN toc : "close" \in toc[i].title.marks}
    IN  IF closing = {} THEN toc ELSE SubSeq(toc, 1, Lowest(closing))

EntryLinks(entry) ==
    IF "close" \in entry.title.marks THEN entry.title.links ELSE Matches(entry.title, entry.link)

\* It begins in the front matter if the comment that opens it stands there: then the
\* links of the source name, after the title, and those of the H1 belong to it.
EarlyLinks(title, name) ==
    IF "open" \in title.marks THEN name.links \o title.links
    ELSE IF "open" \in name.marks THEN title.links ELSE <<>>

\* The links of the whole file but the delimited index: in its front matter and its
\* H1, its body (images are links too), its navigation, and the titles of an index
\* that comes after what closes it.
BodyLinks(file) ==
    LET of(b) == IF b.image # NoImage THEN Matches(b.image.alt, b.image.url) ELSE b.text.links
        body  == IF file.type = "bundle" /\ "open" \in file.title.marks THEN <<>> ELSE file.body
        rest  == SubSeq(file.toc, Len(Listed(file.toc)) + 1, Len(file.toc))
    IN  ToSet(file.title.links \o FlattenSeq([i \in DOMAIN body |-> of(body[i])])
              \o MatchesAll(file.nav) \o MatchesAll(rest))

\* Seeded fault: FindSubmatch for FindAllSubmatch, the first image of each file.
FirstImageLinks(file) ==
    LET images == SelectSeq(file.body, LAMBDA b : b.image # NoImage)
    IN  IF images = <<>> THEN {} ELSE ToSet(Matches(Head(images).image.alt, Head(images).image.url))

ImageLinks(file) ==
    UNION {ToSet(Matches(file.body[i].image.alt, file.body[i].image.url)) :
              i \in {j \in DOMAIN file.body : file.body[j].image # NoImage}}

IsMarkdown(path) == path.dir = ""
MarkdownFiles(fs) == {p \in DOMAIN fs.files : IsMarkdown(p)}

Finding(code, severity, path, target) ==
    [code |-> code, severity |-> severity, path |-> path, target |-> target]
Error(code, path) == Finding(code, "error", path, External)

TocOf(index) ==
    LET entries == Listed(index.toc)
    IN  EarlyLinks(index.title, index.body[1].text)
        \o FlattenSeq([i \in DOMAIN entries |-> EntryLinks(entries[i])])
TocLinks(fs) == IF Has(fs, IndexPath) THEN TocOf(Data(fs, IndexPath)) ELSE <<>>
Linked(fs) == {TocLinks(fs)[i].path : i \in DOMAIN TocLinks(fs)}

StructureErrors(fs) ==
       (IF ~Has(fs, IndexPath) THEN {Error("PLT-STR-001", IndexPath)} ELSE {})
  \cup (IF ~Has(fs, LogPath) THEN {Error("PLT-STR-002", LogPath)} ELSE {})
  \cup (IF Concepts(fs) = <<>> THEN {Error("PLT-STR-003", NoPath)} ELSE {})
  \cup (IF Has(fs, IndexPath) /\ TocLinks(fs) = <<>> THEN {Error("PLT-STR-004", IndexPath)} ELSE {})

\* Seeded fault: the links of the index are resolved, its coverage is not looked at.
BrokenLinkErrors(fs) ==
    {Finding("PLT-LNK-001", "error", IndexPath, l) :
        l \in {m \in ToSet(TocLinks(fs)) : ~Has(fs, m.path)}}

LinkErrors(fs) ==
       {Finding("PLT-LNK-001", "error", IndexPath, l) :
           l \in {m \in ToSet(TocLinks(fs)) : ~Has(fs, m.path)}}
  \cup {Error("PLT-LNK-002", p) : p \in ToSet(Concepts(fs)) \ Linked(fs)}
  \cup {Error("PLT-STR-005", p) : p \in ToSet(Concepts(fs)) \ Linked(fs)}

\* The orders of the concepts in the order of the index; nothing is compared when a
\* link leads nowhere or to a file without order.
OrderErrors(fs) ==
    LET links == TocLinks(fs)
        order(i) == Data(fs, links[i].path).order
    IN  IF /\ \A i \in DOMAIN links : Has(fs, links[i].path) /\ IsMarkdown(links[i].path)
           /\ \A i \in DOMAIN links : order(i) > 0
           /\ \E i \in 2..Len(links) : order(i) <= order(i - 1)
        THEN {Error("PLT-LNK-003", IndexPath)} ELSE {}

\* Seeded fault: the concepts are checked, the log is taken to be ours.
ConceptEncodingErrors(fs) ==
    {Error("PLT-ENC-001", p) : p \in {q \in ToSet(Concepts(fs)) : Data(fs, q).broken}}

EncodingErrors(fs) == {Error("PLT-ENC-001", p) : p \in {q \in MarkdownFiles(fs) : Data(fs, q).broken}}

Warnings(fs) ==
       {Finding("PLT-CNT-001", "warning", p, External) :
           p \in {q \in ToSet(Concepts(fs)) : Len(Data(fs, q).body) > LargeUnit}}
  \cup (UNION {{Finding("PLT-LNK-004", "warning", p, l) :
           l \in {m \in BodyLinks(Data(fs, p)) : m.kind = "file" /\ ~Has(fs, m.path)}} :
           p \in MarkdownFiles(fs)})
  \cup (UNION {{Finding("PLT-AST-001", "warning", p, l) :
           l \in {m \in ImageLinks(Data(fs, p)) : m.path.dir = "assets" /\ ~Has(fs, m.path)}} :
           p \in MarkdownFiles(fs)})

-----------------------------------------------------------------------------
(* Conformance: eight checks whose weights add up to 100.                    *)

Weight == [SingleH1 |-> 15, FrontMatter |-> 15, ExplicitOrder |-> 15, NavBlocks |-> 15,
           NoRawHTML |-> 10, KebabNames |-> 10, LogStages |-> 10, AssetsUsed |-> 10]

\* A line of the body that begins with "# " counts as one more H1.  In a quote no line
\* does, and in a heading or a description there is one line.
IsH1(b) ==
    \/ "h1" \in b.text.marks /\ b.kind \in {"paragraph", "list", "code", "table", "raw"}
    \/ "h1" \in b.image.url.marks

\* Raw HTML anywhere in a file.  The log has none: sanitizeInline escapes it.
HasHTML(file) ==
    /\ file.type # "log"
    /\ \/ "html" \in file.title.marks
       \/ \E i \in DOMAIN file.body : "html" \in MarksOf(file.body[i])

Passed(fs) ==
    LET concepts == {Data(fs, Concepts(fs)[k]) : k \in DOMAIN Concepts(fs)}
        blocks(file) == {file.body[i] : i \in DOMAIN file.body}
        files == {Data(fs, p) : p \in MarkdownFiles(fs)}
    IN  {c \in DOMAIN Weight :
            CASE c = "SingleH1" -> \A f \in concepts : \A b \in blocks(f) : ~IsH1(b)
              [] c = "ExplicitOrder" -> \A f \in concepts : f.order > 0
              [] c = "NavBlocks" -> \A f \in concepts : f.nav # <<>>
              [] c = "NoRawHTML" -> \A f \in files : ~HasHTML(f)
              [] c = "LogStages" -> Has(fs, LogPath)
              [] c = "AssetsUsed" ->
                    Assets(fs) \subseteq {l.path : l \in UNION {ImageLinks(f) : f \in files}}
              [] OTHER -> TRUE}

Score(fs) == SumFunctionOnSet(Weight, Passed(fs))
Grade(score) == IF score >= 90 THEN "A" ELSE IF score >= 75 THEN "B"
                ELSE IF score >= 60 THEN "C" ELSE "D"

Conformance(fs) ==
    {Finding(c, "info", NoPath, External) : c \in DOMAIN Weight \ Passed(fs)}

-----------------------------------------------------------------------------

\* Publishable: no error. The findings of Conformance are "info".
Publishable(findings) == \A f \in findings : f.severity # "error"

Classify(findings) ==
    IF ~Publishable(findings) THEN "invalid"
    ELSE IF \E f \in findings : f.severity = "warning" THEN "valid_with_warnings"
    ELSE "valid"

Report(findings, score) ==
    [findings |-> findings, verdict |-> Classify(findings), score |-> score, grade |-> Grade(score)]

Run(fs) ==
    Report(StructureErrors(fs) \cup LinkErrors(fs) \cup OrderErrors(fs) \cup EncodingErrors(fs)
             \cup Warnings(fs) \cup Conformance(fs),
           Score(fs))

\* The errors of two reports, counted by code.
SameCodes(a, b) ==
    LET count(r, c) == Cardinality({f \in r.findings : f.severity = "error" /\ f.code = c})
        codes(r) == {f.code : f \in r.findings}
    IN  \A c \in codes(a) \cup codes(b) : count(a, c) = count(b, c)
===========================================================================
