---------------------------- MODULE LineParsers ----------------------------
(* TextParser and PDFParser: both read lines and guess which are headings,    *)
(* the first from how a line and the next one look, the second from the size  *)
(* of its font, as pdftohtml reports it.                                      *)
EXTENDS ParserState

\* next: the loop variable, 0 until the source was read whole; para: the paragraph
\* being gathered; body: the size of the body text; inferred: StructureInferred.
LineStart == [next |-> 0, para |-> <<>>, body |-> 0, inferred |-> FALSE]

Looking == local.next > 0
Line(i) == read[i]

\* The author's lines. A line of a text is blank, an underline of "=" or "-", a
\* numbered title, a short line in capitals, or another one; its level is its
\* argument. A line of a PDF has the size of its font; what stands in an element of its
\* own inside it (<b>, <i>), or after a "<" of the text, is an inner one.
ReadLine ==
    /\ format \in {"text", "pdf"} /\ Reading /\ ~Looking
    /\ \E token \in vocabulary.tokens : Write(token)
    /\ UNCHANGED <<upload, format, vocabulary, open, local, blocks, title, outcome>>

\* dominantSize: the size most characters have. How long a line is is left out: a size
\* that some line has may be the one.
Dominant ==
    LET sizes == {read[i].arg : i \in {j \in DOMAIN read : read[j].tag = "other"}} \ {0}
    IN  IF sizes = {} THEN {0} ELSE sizes

StartLooking ==
    /\ format \in {"text", "pdf"} /\ Reading /\ ~Looking
    /\ \E size \in IF format = "pdf" THEN Dominant ELSE {0} :
            local' = [local EXCEPT !.next = 1, !.body = size]
    /\ UNCHANGED <<upload, format, vocabulary, read, open, blocks, title, outcome>>

\* Seeded fault: the paragraph before the heading is not flushed.
AddHeadingUnflushed(level, i, step) ==
    /\ blocks' = Append(blocks, Block("heading", level, <<i>>))
    /\ title' = TitleAfter(level, <<i>>)
    /\ local' = [local EXCEPT !.next = @ + step, !.inferred = TRUE]

AddHeading(level, i, step) ==
    /\ blocks' = blocks \o Paragraph(local.para) \o <<Block("heading", level, <<i>>)>>
    /\ title' = TitleAfter(level, <<i>>)
    /\ local' = [local EXCEPT !.next = @ + step, !.para = <<>>, !.inferred = TRUE]

AddLine(i) ==
    /\ local' = [local EXCEPT !.next = @ + 1, !.para = Append(@, i)]
    /\ UNCHANGED <<blocks, title>>

SkipLine ==
    /\ local' = [local EXCEPT !.next = @ + 1]
    /\ UNCHANGED <<blocks, title>>

\* underlineLevel, of the line after this one.
Underlined(i) == i < Len(read) /\ Line(i + 1).tag = "underline"
\* headingHeuristic.
LooksLikeHeading(i) == Line(i).tag \in {"numbered", "capitals"}
LevelOf(i) == IF Line(i).tag = "capitals" THEN 2 ELSE IF Line(i).arg > 3 THEN 3 ELSE Line(i).arg

TextLine ==
    /\ format = "text" /\ Reading /\ Looking
    /\ local.next <= Len(read)
    /\ LET i == local.next
       IN  IF Line(i).tag = "blank"
           THEN /\ blocks' = blocks \o Paragraph(local.para)
                /\ local' = [local EXCEPT !.next = @ + 1, !.para = <<>>]
                /\ UNCHANGED title
           ELSE IF Underlined(i) THEN AddHeading(Line(i + 1).arg, i, 2)
           ELSE IF LooksLikeHeading(i) THEN AddHeading(LevelOf(i), i, 1)
           ELSE AddLine(i)
    /\ UNCHANGED <<upload, format, vocabulary, read, open, outcome>>

\* Half as large again is a title, a fifth larger a section. The inner text of a line is
\* no part of what is decoded of it.
PdfLine ==
    /\ format = "pdf" /\ Reading /\ Looking
    /\ local.next <= Len(read)
    /\ LET i == local.next
           size == Line(i).arg
       IN  IF Line(i).tag = "inner" THEN SkipLine
           ELSE IF local.body > 0 /\ size >= (local.body * 3) \div 2 THEN AddHeading(1, i, 1)
           ELSE IF local.body > 0 /\ size >= (local.body * 6) \div 5 THEN AddHeading(2, i, 1)
           ELSE AddLine(i)
    /\ UNCHANGED <<upload, format, vocabulary, read, open, outcome>>

LinesEnd ==
    /\ format \in {"text", "pdf"} /\ Reading /\ Looking
    /\ local.next > Len(read)
    /\ EndOfSource(<<>>)
    /\ blocks' = blocks \o Paragraph(local.para)
    /\ local' = [local EXCEPT !.inferred = @ \/ format = "pdf"]
    /\ UNCHANGED <<upload, format, vocabulary, read, open>>

LinesNext == ReadLine \/ StartLooking \/ TextLine \/ PdfLine \/ LinesEnd
=============================================================================
