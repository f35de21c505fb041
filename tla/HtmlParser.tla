---------------------------- MODULE HtmlParser ----------------------------
(* HTMLParser: a depth-first walk over the tree of a page. What an element    *)
(* does with its content is its mode:                                         *)
(*   page   walk of the converter of the document                             *)
(*   item   walk of the converter of one list item, whose document is         *)
(*          discarded                                                         *)
(*   text   textOf                                                            *)
(*   list   children of ul and ol;  rows   walkRows of a table                *)
(*   lost   content that is not read                                          *)
(* Elements that are handled alike are one: p for p, div, section and         *)
(* figcaption; span for strong, em, code, a and the unknown ones; cell for a  *)
(* row of one cell; skip for the tags of skipTags.                            *)
EXTENDS ParserState

\* The content of <main> is preferred; "outside" until it is found.
HtmlStart(hasMain) ==
    [modes |-> <<IF hasMain THEN "outside" ELSE "page">>, hasMain |-> hasMain, inline |-> <<>>,
     item |-> <<>>, text |-> <<>>, rows |-> 0, dropped |-> 0, page |-> <<>>]

Mode == Last(local.modes)

\* Elements that end the paragraph before them.
Structural == {"p", "h", "pre", "list", "quote", "table"}

Contents(tag) ==
    CASE tag \in {"h", "pre", "quote"} -> "text"
      [] tag = "list" -> "list"
      [] tag = "table" -> "rows"
      [] tag = "skip" -> "lost"
      [] OTHER -> "page"

\* The mode of an element inside a parent with mode m. The blocks of a list item are
\* written to a document that nobody reads.
ModeIn(m, tag) ==
    CASE m = "page" -> Contents(tag)
      [] m = "item" -> IF Contents(tag) = "page" THEN "item" ELSE "lost"
      [] m = "text" -> IF tag = "skip" THEN "lost" ELSE "text"
      [] m = "list" -> IF tag = "li" THEN "item" ELSE "lost"
      [] m = "rows" -> IF tag = "cell" THEN "text" ELSE "rows"
      [] m = "outside" -> IF tag = "main" THEN "page" ELSE "outside"
      [] m = "lost" -> "lost"

\* What the tree of a page may hold: x/net/html moves what is not part of a table out of
\* it, and a list may hold anything. An item that is in no list is walked like a span.
\* Only the first <main> is walked; what is around it is outside of it like what is
\* before it, so it opens at the root.
MayContain(parent, tag) ==
    /\ parent = "table" => tag \in {"caption", "cell"}
    /\ tag = "li" => parent = "list"
    /\ tag \in {"caption", "cell"} => parent = "table"
    /\ tag = "main" => parent = "root" /\ \A i \in DOMAIN read : read[i].tag # "main"

\* Flushing the text before an element, and the room for the text inside it.
HtmlElement ==
    \E token \in vocabulary.tokens :
        /\ format = "html" /\ Reading
        /\ token.tag \in Structural \cup {"li", "caption", "cell", "span", "skip", "main"}
        /\ token.tag = "main" => local.hasMain
        /\ MayContain(Parent, token.tag)
        /\ Write(token) /\ Enter
        /\ LET flushes == token.tag \in Structural
               mode == ModeIn(Mode, token.tag)
           IN  /\ blocks' = IF Mode = "page" /\ flushes THEN blocks \o Paragraph(local.inline) ELSE blocks
               /\ local' = [local EXCEPT
                     !.modes = Append(@, mode),
                     !.inline = IF Mode = "page" /\ flushes THEN <<>> ELSE @,
                     !.item = IF (Mode = "item" /\ flushes) \/ (Mode = "list" /\ mode = "item") THEN <<>> ELSE @,
                     !.text = IF Mode = "page" /\ flushes THEN <<>> ELSE @,
                     !.rows = IF Mode = "page" /\ flushes THEN 0 ELSE @,
                     !.dropped = IF Mode = "page" /\ token.tag = "skip" THEN @ + 1 ELSE @]
        /\ UNCHANGED <<upload, format, vocabulary, title, outcome>>

HtmlText ==
    /\ format = "html" /\ Reading /\ Parent # "table"
    /\ Write(Token("text", ""))
    /\ local' = CASE Mode = "page" -> [local EXCEPT !.inline = Append(@, Here)]
                  [] Mode = "item" -> [local EXCEPT !.item = Append(@, Here)]
                  [] Mode = "text" -> [local EXCEPT !.text = Append(@, Here)]
                  [] OTHER -> local
    /\ UNCHANGED <<upload, format, vocabulary, open, blocks, title, outcome>>

\* <title>, in the head of the page.
HtmlTitle ==
    /\ format = "html" /\ Reading /\ read = <<>>
    /\ Write(Token("title", ""))
    /\ local' = [local EXCEPT !.page = <<Here>>]
    /\ UNCHANGED <<upload, format, vocabulary, open, blocks, title, outcome>>

\* An image with an unsafe address is dropped; one with bytes or a reference is kept.
HtmlImage ==
    /\ format = "html" /\ Reading /\ Parent # "table"
    /\ \E token \in vocabulary.tokens :
        /\ token.tag = "image"
        /\ Write(token)
        /\ blocks' = IF Mode # "page" THEN blocks
                     ELSE blocks \o Paragraph(local.inline)
                          \o (IF token.arg = "unsafe" THEN <<>> ELSE <<Block("image", 0, <<Here>>)>>)
    /\ local' = CASE Mode = "page" -> [local EXCEPT !.inline = <<>>]
                  [] Mode = "item" -> [local EXCEPT !.item = <<>>]
                  [] OTHER -> local
    /\ UNCHANGED <<upload, format, vocabulary, open, title, outcome>>

HtmlRule ==
    /\ format = "html" /\ Reading /\ Parent # "table"
    /\ Write(Token("hr", ""))
    /\ blocks' = IF Mode # "page" THEN blocks
                 ELSE blocks \o Paragraph(local.inline) \o <<Block("rule", 0, <<>>)>>
    /\ local' = CASE Mode = "page" -> [local EXCEPT !.inline = <<>>]
                  [] Mode = "item" -> [local EXCEPT !.item = <<>>]
                  [] OTHER -> local
    /\ UNCHANGED <<upload, format, vocabulary, open, title, outcome>>

\* The block that an element of the page leaves behind. A heading, a list or a table
\* without text leaves none.
Written(element) ==
    CASE element.tag = "h" ->
            IF local.text = <<>> THEN <<>> ELSE <<Block("heading", element.arg, local.text)>>
      [] element.tag = "pre" -> <<Block("code", 0, local.text)>>
      [] element.tag = "quote" -> <<Block("quote", 0, local.text)>>
      [] element.tag = "list" -> IF local.text = <<>> THEN <<>> ELSE <<Block("list", 0, local.text)>>
      [] element.tag = "table" -> IF local.rows = 0 THEN <<>> ELSE <<Block("table", 0, local.text)>>
      [] element.tag = "p" -> Paragraph(local.inline)
      [] OTHER -> <<>>

HtmlEnd ==
    /\ format = "html" /\ Reading /\ Leave
    /\ LET element == read[Last(open)]
           mode == Mode
           around == local.modes[Len(local.modes) - 1]
       IN  /\ blocks' = IF around = "page" THEN blocks \o Written(element) ELSE blocks
           /\ title' = IF around = "page" /\ element.tag = "h" THEN TitleAfter(element.arg, local.text) ELSE title
           /\ local' = [local EXCEPT
                 !.modes = Front(@),
                 !.inline = IF around = "page" /\ element.tag = "p" THEN <<>> ELSE @,
                 !.item = IF around = "item" /\ element.tag = "p" THEN <<>> ELSE @,
                 !.text = IF around = "list" /\ mode = "item" THEN @ \o local.item ELSE @,
                 !.rows = IF around = "rows" /\ mode = "text" THEN @ + 1 ELSE @]
    /\ UNCHANGED <<upload, format, vocabulary, read, outcome>>

\* The end of the page: the last flush, and the title.
HtmlEof ==
    /\ format = "html" /\ Reading
    /\ local.hasMain => \E i \in DOMAIN read : read[i].tag = "main"
    /\ EndOfSource(local.page)
    /\ blocks' = blocks \o Paragraph(local.inline)
    /\ UNCHANGED <<upload, format, vocabulary, read, open, local>>

HtmlNext == HtmlElement \/ HtmlText \/ HtmlTitle \/ HtmlImage \/ HtmlRule \/ HtmlEnd \/ HtmlEof
=============================================================================
