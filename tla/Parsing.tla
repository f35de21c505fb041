------------------------------ MODULE Parsing ------------------------------
(* From an uploaded document to the document model: DetectFormat, the parser  *)
(* of the format, and the document or the fault it returns. What the parsers  *)
(* promise is stated about the source as its author sees it.                  *)
EXTENDS DocxParser, HtmlParser, MarkdownParser, LineParsers

CONSTANTS Uploads,      \* the documents that are uploaded
          Vocabularies  \* format -> what one source of it may be made of: [tokens, length]

LineTags == {"blank", "underline", "numbered", "capitals", "other"}

\* What a token of some format may be: Markdown and HTML have six levels of headings, the
\* underline of a title is one of two, a style of a paragraph is known, a size is no less
\* than 0.
MayBe(f, token) ==
    /\ token.tag \in {"h", "heading"} => token.arg \in 1..6
    /\ token.tag = "underline" => token.arg \in 1..2
    /\ token.tag = "numbered" => token.arg \in Nat \ {0}
    /\ token.tag = "outline" => token.arg \in Int
    /\ token.tag = "style" => token.arg \in DOMAIN Styles
    /\ f = "text" => token.tag \in LineTags
    /\ f = "pdf" => token.tag \in {"other", "inner"} /\ token.arg \in Nat

-----------------------------------------------------------------------------
\* DetectFormat: the signature first, then an extension that fits a textual content
\* (unrecognised bytes count as textual), then what the content looks like.
FormatOf == [md |-> "markdown", markdown |-> "markdown", mdown |-> "markdown", html |-> "html", htm |-> "html",
             txt |-> "text", text |-> "text", docx |-> "docx", pdf |-> "pdf"]
Textual == {"text/html", "text/plain", "text/xml", "application/octet-stream"}

DetectFormat(head, ext) ==
    IF head = "%PDF-" THEN "pdf"
    ELSE IF head = "PK" THEN IF ext = "docx" THEN "docx" ELSE "unknown"
    ELSE IF ext \in DOMAIN FormatOf /\ FormatOf[ext] \in {"markdown", "text", "html"} /\ head \in Textual
         THEN FormatOf[ext]
    ELSE IF head = "text/html" THEN "html"
    ELSE IF head = "text/plain" THEN "text"
    ELSE "unknown"

Formats == {"markdown", "html", "text", "docx", "pdf", "unknown"}

ASSUME VocabulariesAssumption ==
    /\ DOMAIN Vocabularies = Formats \ {"unknown"}
    /\ \A f \in DOMAIN Vocabularies : \A v \in Vocabularies[f] : \A token \in v.tokens : MayBe(f, token)

\* Source.Bytes for the formats that are read whole, the container of the others.
SourceFault(f) ==
    IF f = "unknown" THEN "unsupported"
    ELSE IF f = "docx" THEN ZipFault(upload.zip)
    ELSE IF ParseMaxBytes > 0 /\ upload.size > ParseMaxBytes THEN "source_too_large"
    ELSE "none"

ParsingInit ==
    /\ upload \in Uploads
    /\ format = "undetected"
    /\ vocabulary = [tokens |-> {}, length |-> 0]
    /\ read = <<>> /\ open = <<>>
    /\ local = <<>>
    /\ blocks = <<>> /\ title = <<>>
    /\ outcome = "none"

Locals(f) ==
    CASE f = "docx" -> {DocxStart}
      [] f = "html" -> {HtmlStart(hasMain) : hasMain \in BOOLEAN}
      [] f = "markdown" -> {MarkdownStart}
      [] OTHER -> {LineStart}

\* For, and the checks that come before the first token.
Detect ==
    /\ format = "undetected"
    /\ format' = DetectFormat(upload.head, upload.ext)
    /\ IF SourceFault(format') # "none"
       THEN Finish(SourceFault(format')) /\ UNCHANGED <<vocabulary, local>>
       ELSE /\ vocabulary' \in Vocabularies[format']
            /\ local' \in Locals(format')
            /\ UNCHANGED outcome
    /\ upload' = [upload EXCEPT !.ext = "", !.head = ""]  \* not looked at again
    /\ UNCHANGED <<read, open, blocks, title>>

ParsingNext == Detect \/ DocxNext \/ HtmlNext \/ MdNext \/ LinesNext

ParsingSpec == ParsingInit /\ [][ParsingNext]_parseVars

-----------------------------------------------------------------------------
(* The source, as its author sees it.                                        *)

Tag(i) == read[i].tag
\* The elements around token i, and those of them with some tag.
Around(i) == ToSet(read[i].inside)
Has(i, tags) == \E e \in Around(i) : Tag(e) \in tags
\* What a reader of the source would look for in the document.
Texts == {i \in DOMAIN read : Tag(i) \in {"text", "code", "line", "numbered", "capitals", "other", "underline", "inner"}}
Images == {i \in DOMAIN read : Tag(i) = "image"}

InDocument == UNION {ToSet(blocks[k].words) : k \in DOMAIN blocks}

Parsed == outcome = "parsed"

\* DOCX. A text box that ends inside a paragraph ends the paragraph; the images of a
\* table are not read, one without a file has nothing to show, and the budget of
\* images is spent by each one that is shown.
AfterTextBox(i) ==
    \E p \in DOMAIN read : /\ Tag(p) \in {"p", "tbl"} /\ p < i /\ p \notin Around(i)
                           /\ Last(read[i].inside) \in Around(p)
Cost(i) == IF read[i].arg \in DOMAIN Rels THEN Price(read[i].arg) ELSE 0
Paid(i) == IF i \in Images /\ i \in InDocument THEN Cost(i) ELSE 0
Spent(i) == LET before[k \in 1..i] == IF k = 1 THEN 0 ELSE before[k - 1] + Paid(k - 1)
            IN  before[i]
NotShown(i) ==
    LET rel == read[i].arg
    IN  \/ rel \notin DOMAIN Rels \/ (~Rels[rel].external /\ Rels[rel].size = 0)
        \/ Cost(i) + Spent(i) > ImageBudget
DocxLoses(i) == AfterTextBox(i) \/ (i \in Images /\ (Has(i, {"tbl"}) \/ NotShown(i)))

\* HTML. Whatever is outside of <main>, of the items of a list (another list that stands
\* in it, with its items, too) and of the cells of a table, and in the skipped elements,
\* whose number is noted when they are not part of another block; the images inside other
\* blocks; in a list item, what stands in a block or before one.
Item(i) == CHOOSE e \in Around(i) : Tag(e) = "li" /\ \A d \in Around(i) : Tag(d) = "li" => e <= d
InItem(i) == {k \in DOMAIN read : Item(i) \in Around(k)}
Breaks == Structural \cup {"image", "hr"}
\* In the list e of the page, and in none of its items: another element stands between.
OutOfItems(i, e) ==
    /\ Tag(e) = "list" /\ \A d \in Around(i) : d < e => Tag(d) \notin {"h", "pre", "quote", "table"}
    /\ \A c \in Around(i) : Tag(c) = "li" => \E d \in Around(i) : e < d /\ d < c
HtmlLoses(i) ==
    LET verbatim == {e \in Around(i) : Tag(e) \in {"h", "pre", "quote", "cell"}}
        first(tags) == \A e \in verbatim : \E d \in Around(i) : d < e /\ Tag(d) \in tags
    IN  \/ Has(i, {"skip"}) /\ (local.dropped > 0 \/ Has(i, {"h", "pre", "quote", "table", "list"}))
        \/ local.hasMain /\ ~Has(i, {"main"})
        \/ i \in Images /\ (read[i].arg = "unsafe" \/ Has(i, {"h", "pre", "quote", "table", "list"}))
        \/ Has(i, {"caption"}) /\ first({"caption"})
        \/ \E e \in Around(i) : OutOfItems(i, e)
        \/ Has(i, {"li"}) /\ first({"li"})
           /\ \/ \E e \in Around(i) : e > Item(i) /\ Tag(e) \in Breaks
              \/ \E k \in InItem(i) : k > i /\ Tag(k) \in Breaks /\ ~Has(k, {"skip"})

\* Markdown. The front matter, embedded HTML, the image in a heading, and the code of
\* a list or a quote.
MarkdownLoses(i) ==
    \/ Tag(i) = "line"
    \/ Tag(i) = "code" /\ Has(i, {"list", "quote"})
    \/ i \in Images /\ \E e \in Around(i) : Tag(e) = "heading" /\ ~Has(e, {"list", "quote"})

\* Text: the underline of a title. PDF: the inner text of a line.
Underlines(i) == LET f[k \in 0..i] == /\ k > 1 /\ Tag(k) = "underline"
                                      /\ Tag(k - 1) # "blank" /\ ~f[k - 1]
                 IN  f[i]

Loses(i) ==
    CASE format = "docx" -> DocxLoses(i)
      [] format = "html" -> HtmlLoses(i)
      [] format = "markdown" -> MarkdownLoses(i)
      [] format = "text" -> Underlines(i)
      [] format = "pdf" -> Tag(i) = "inner"

-----------------------------------------------------------------------------
(* Properties.                                                               *)

\* Type invariant: a parser is chosen once, its elements are well nested, and the
\* levels of the headings it writes are those of Markdown.
ParsingTypeOK ==
    /\ format \in Formats \cup {"undetected"}
    /\ \A i \in DOMAIN open : open[i] \in DOMAIN read /\ read[open[i]].inside = SubSeq(open, 1, i - 1)
    /\ \A i \in DOMAIN blocks : /\ (blocks[i].kind = "heading") = (blocks[i].level \in 1..6)
                                /\ ToSet(blocks[i].words) \subseteq DOMAIN read

\* "Nunca se descarta contenido" (segment.go) holds of the parsers but for the cases
\* spelled out above: every other text and image of the source is in the document.
NothingElseIsLost ==
    Parsed => \A i \in Texts \cup Images : i \in InDocument \/ Loses(i)

\* What is in the document is there once, and in the order of the source. The images
\* of a DOCX paragraph come before its text.
InReadingOrder ==
    LET places == UNION {{<<k, i>> : i \in DOMAIN blocks[k].words} : k \in DOMAIN blocks}
        word(p) == blocks[p[1]].words[p[2]]
        before(p, q) == p[1] < q[1] \/ (p[1] = q[1] /\ p[2] < q[2])
        sorted(tokens) == \A p, q \in places :
            word(p) \in tokens /\ word(q) \in tokens /\ before(p, q) => word(p) < word(q)
    IN  Parsed => /\ \A p, q \in places : word(p) = word(q) => p = q
                  /\ IF format = "docx" THEN sorted(Texts) /\ sorted(Images) ELSE sorted(DOMAIN read)

\* Marked as a heading: by its element, by the style or level of its own paragraph or of
\* one around or inside it, by its line or by its size.
Marked(i) ==
    CASE format = "docx" ->
            \E s \in DOMAIN read : /\ Tag(s) \in {"style", "outline"}
                                   /\ \E p \in Around(s) \cap Around(i) : Tag(p) = "p"
      [] format = "html" -> Has(i, {"h"})
      [] format = "markdown" -> Has(i, {"heading"})
      [] format = "text" ->
            Tag(i) \in {"numbered", "capitals"} \/ (i < Len(read) /\ Tag(i + 1) = "underline")
      [] format = "pdf" -> \E k \in DOMAIN read : Tag(k) = "other" /\ read[i].arg > read[k].arg

\* The title that names the bundle: the first heading of level 1; without one, the title
\* of the page; without that, the first heading. Nothing else gives the document a name.
NamedByItsAuthor ==
    LET ones == {k \in DOMAIN blocks : blocks[k].kind = "heading" /\ blocks[k].level = 1}
        page == {i \in DOMAIN read : Tag(i) = "title"}
    IN  title = IF ones # {} THEN blocks[Min(ones)].words
                ELSE IF page # {} THEN <<CHOOSE i \in page : TRUE>>
                ELSE FirstHeading

\* The words of a heading were marked as one, and nothing else becomes the title of a
\* unit or of the bundle.
HeadingsAreMarked ==
    /\ \A k \in DOMAIN blocks : blocks[k].kind = "heading" => \A i \in ToSet(blocks[k].words) : Marked(i)
    /\ Parsed => NamedByItsAuthor
=============================================================================
