---------------------------- MODULE DocxParser ----------------------------
(* DOCXParser: word/document.xml decoded as a stream of tokens. "convert"     *)
(* looks for paragraphs and tables, and each of them consumes the stream up   *)
(* to the first end tag with its own name.                                    *)
EXTENDS ParserState

CONSTANTS Styles,        \* word/styles.xml: style -> [declared, id, name, outline, basedOn];
                         \* id and name are the levels that levelFromName reads in them, 0
                         \* for none, and a style that is only referred to is not declared
          Rels,          \* document.xml.rels: relation -> [external, size]; size 0 when the
                         \* archive has no such file, or an empty one
          ImageBudget,   \* ASSETS_MAX_BYTES
          ZipMaxEntries, ZipMaxRatio,
          ParseMaxBytes  \* PARSE_MAX_BYTES

ASSUME DocxAssumption ==
    {ImageBudget, ZipMaxEntries, ZipMaxRatio, ParseMaxBytes} \subseteq Nat

\* levelFromName reads at most a level 9 in a name; whatever a style is based on is there,
\* declared or not.
ASSUME StylesAssumption ==
    /\ IsFiniteSet(DOMAIN Styles) /\ "" \notin DOMAIN Styles
    /\ \A id \in DOMAIN Styles :
         /\ Styles[id].id \in 0..9 /\ Styles[id].name \in 0..9 /\ Styles[id].outline \in Int
         /\ Styles[id].basedOn \in DOMAIN Styles \cup {""}

\* An archive names the size of each of its files.
ASSUME RelsAssumption ==
    \A rel \in DOMAIN Rels : Rels[rel].external \in BOOLEAN /\ Rels[rel].size \in Nat

-----------------------------------------------------------------------------
\* checkZipQuota, and the lookup of word/document.xml. A limit of 0 is no limit.
ZipFault(zip) ==
    IF ~zip.valid THEN "docx_not_zip"
    ELSE IF ZipMaxEntries > 0 /\ zip.entries > ZipMaxEntries THEN "zip_too_many_entries"
    ELSE IF ZipMaxRatio > 0 /\ zip.packed > 0 /\ zip.unpacked \div zip.packed > ZipMaxRatio THEN "zip_bomb"
    ELSE IF ParseMaxBytes > 0 /\ zip.unpacked > ParseMaxBytes * 20 THEN "zip_too_large"
    ELSE IF ~zip.document THEN "docx_no_document"
    ELSE "none"

\* parseStyles: the outline level is explicit and wins, then the identifier, then the name.
StyleLevel(s) ==
    IF s.outline \in 0..8 THEN s.outline + 1
    ELSE IF s.id > 0 THEN s.id
    ELSE s.name

\* A style that is declared, says nothing and inherits nothing is not kept.
Kept(id) == Styles[id].declared /\ (StyleLevel(Styles[id]) > 0 \/ Styles[id].basedOn # "")

\* levelFor: along w:basedOn until a level, an unknown style or a style seen before.
StyleCount == Cardinality(DOMAIN Styles)
Climb[left \in 0..StyleCount] ==
    [s \in DOMAIN Styles \cup {""} |->
        IF s = "" \/ left = 0 THEN 0
        ELSE IF ~Kept(s) THEN Styles[s].id
        ELSE IF StyleLevel(Styles[s]) > 0 THEN StyleLevel(Styles[s])
        ELSE Climb[left - 1][Styles[s].basedOn]]

LevelFor(style) == Climb[StyleCount][style]

-----------------------------------------------------------------------------
\* The local variables of paragraph and table; mode says which of them is running.
Between(budget) == [mode |-> "body", words |-> <<>>, pics |-> <<>>, style |-> "", outline |-> -1,
                    numbered |-> FALSE, rows |-> 0, budget |-> budget]
DocxStart == Between(ImageBudget)

\* Seeded fault: the variables of paragraph live in its converter.
ResumeWithStyle ==
    [Between(local.budget) EXCEPT !.style = local.style, !.outline = local.outline]

\* A paragraph or a table is over.
Resume == Between(local.budget)

DocxElement ==
    \E tag \in {"p", "tbl", "cell"} :
        /\ format = "docx" /\ Reading
        /\ \/ tag = "p" /\ Parent \in {"root", "cell", "p"}      \* a text box nests paragraphs
           \/ tag = "tbl" /\ Parent \in {"root", "cell", "p"}
           \/ tag = "cell" /\ Parent = "tbl"                     \* a row of one cell
        /\ Write(Token(tag, "")) /\ Enter
        /\ local' = IF local.mode = "body" /\ tag \in {"p", "tbl"}
                    THEN [local EXCEPT !.mode = tag] ELSE local
        /\ UNCHANGED <<upload, format, vocabulary, blocks, title, outcome>>

DocxText ==
    /\ format = "docx" /\ Reading /\ Parent = "p"
    /\ Write(Token("text", ""))
    /\ local' = IF local.mode = "body" THEN local ELSE [local EXCEPT !.words = Append(@, Here)]
    /\ UNCHANGED <<upload, format, vocabulary, open, blocks, title, outcome>>

\* pStyle, outlineLvl and numPr: paragraph reads them, table and convert do not.
DocxProperty ==
    /\ format = "docx" /\ Reading /\ Parent = "p"
    /\ \E token \in vocabulary.tokens :
        /\ token.tag \in {"style", "outline", "numPr"}
        /\ Write(token)
        /\ local' = IF local.mode # "p" THEN local
                    ELSE CASE token.tag = "style" -> [local EXCEPT !.style = token.arg]
                           [] token.tag = "outline" -> [local EXCEPT !.outline = token.arg]
                           [] token.tag = "numPr" -> [local EXCEPT !.numbered = TRUE]
    /\ UNCHANGED <<upload, format, vocabulary, open, blocks, title, outcome>>

\* image: a remote resource is kept as a reference, an embedded one is paid for every
\* time it is shown.
Resolves(rel) == rel \in DOMAIN Rels /\ (Rels[rel].external \/ Rels[rel].size \in 1..local.budget)
Price(rel) == IF Rels[rel].external THEN 0 ELSE Rels[rel].size

DocxImage ==
    /\ format = "docx" /\ Reading /\ Parent = "p"
    /\ \E token \in vocabulary.tokens :
        /\ token.tag = "image"
        /\ Write(token)
        /\ local' = IF local.mode = "p" /\ Resolves(token.arg)
                    THEN [local EXCEPT !.pics = Append(@, Here), !.budget = @ - Price(token.arg)]
                    ELSE local
    /\ UNCHANGED <<upload, format, vocabulary, open, blocks, title, outcome>>

\* emitParagraph: its images first; then its text, as a heading, as one more item of
\* the list before it, or as a paragraph.
ParagraphLevel ==
    IF local.outline \in 0..8 THEN local.outline + 1
    ELSE IF local.style # "" THEN LevelFor(local.style)
    ELSE 0

\* Seeded fault: the nine levels of Word are kept.
WordLevel(level) == level

\* Markdown has six.
MarkdownLevel(level) == IF level > 6 THEN 6 ELSE level

Emit(images) ==
    LET shown == blocks \o images
        level == MarkdownLevel(ParagraphLevel)
    IN  /\ blocks' =
             IF local.words = <<>> THEN shown
             ELSE IF level > 0 THEN Append(shown, Block("heading", level, local.words))
             ELSE IF ~local.numbered THEN Append(shown, Block("paragraph", 0, local.words))
             ELSE IF shown # <<>> /\ Last(shown).kind = "list"
                  THEN [shown EXCEPT ![Len(shown)].words = @ \o local.words]
             ELSE Append(shown, Block("list", 0, local.words))
        /\ title' = TitleAfter(level, local.words)

EmitTable ==
    /\ blocks' = IF local.rows > 0 THEN Append(blocks, Block("table", 0, local.words)) ELSE blocks
    /\ UNCHANGED title

\* An end tag. The first one with the name that paragraph or table waits for ends it,
\* whatever element it closes.
DocxEnd ==
    /\ format = "docx" /\ Reading /\ Leave
    /\ Parent = "tbl" => read[Len(read)].tag # "tbl"  \* no table of Word is without rows
    /\ IF Parent \in {"p", "tbl"} /\ Parent = local.mode
       THEN /\ local' = Resume
            /\ IF Parent = "p" THEN Emit([i \in DOMAIN local.pics |-> Block("image", 0, <<local.pics[i]>>)])
               ELSE EmitTable
       ELSE /\ local' = IF Parent = "cell" /\ local.mode = "tbl" THEN [local EXCEPT !.rows = @ + 1] ELSE local
            /\ UNCHANGED <<blocks, title>>
    /\ UNCHANGED <<upload, format, vocabulary, read, outcome>>

DocxEof ==
    /\ format = "docx" /\ Reading
    /\ EndOfSource(<<>>)
    /\ UNCHANGED <<upload, format, vocabulary, read, open, local, blocks>>

\* The XML is cut or malformed: paragraph and table return without a word, and convert
\* meets the same error.
DocxMalformed ==
    /\ format = "docx" /\ Reading /\ open # <<>>
    /\ Finish("docx_xml")
    /\ UNCHANGED <<upload, format, vocabulary, read, open, local, blocks, title>>

DocxNext == DocxElement \/ DocxText \/ DocxProperty \/ DocxImage \/ DocxEnd \/ DocxEof \/ DocxMalformed
=============================================================================
