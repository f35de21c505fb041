-------------------------- MODULE MarkdownParser --------------------------
(* MarkdownParser: the front matter is cut off the bytes, the rest is parsed  *)
(* by goldmark, and its tree is walked. The mode of an element is what reads  *)
(* its children:                                                              *)
(*   blocks   mdConverter.block                                               *)
(*   plain    inlineText                                                      *)
(*   inline   renderInline, which also descends into blocks                   *)
(* Elements and leaves that are handled alike are one: span for emphasis,     *)
(* links, code spans and strikethrough; item and cell for what a list and a   *)
(* table hold; code for fenced and indented code.                             *)
EXTENDS ParserState

\* fence tells how the "---" that opens the source is read: not seen yet ("first"),
\* the opening of a front matter ("inside"), its end seen ("after"), or no front
\* matter: a rule that no other "---" may follow ("rule") or other text ("none").
MarkdownStart == [modes |-> <<"blocks">>, words |-> <<>>, fence |-> "first"]

MdMode == Last(local.modes)
InBody == local.fence # "inside"
\* After the first token the source has a front matter or it has none.
Past(f) == IF f = "first" THEN "none" ELSE f

\* Seeded fault: inlineText for every block.
MdContentsPlain(tag) == "plain"

MdContents(tag) == IF tag = "heading" THEN "plain" ELSE "inline"

MdMayContain(parent, tag) ==
    CASE tag \in {"heading", "list", "quote"} -> parent \in {"root", "item", "quote"}
      [] tag = "para" -> parent \in {"root", "item", "quote"}
      [] tag = "table" -> parent = "root"
      [] tag = "item" -> parent = "list"
      [] tag = "cell" -> parent = "table"
      [] tag = "span" -> parent \in {"heading", "para", "cell", "span"}

MdElement ==
    \E token \in vocabulary.tokens :
        /\ format = "markdown" /\ Reading /\ InBody
        /\ token.tag \in {"heading", "list", "quote", "para", "table", "item", "cell", "span"}
        /\ MdMayContain(Parent, token.tag)
        /\ Write(token) /\ Enter
        /\ local' = [local EXCEPT
               !.modes = Append(@, IF MdMode = "blocks" THEN MdContents(token.tag) ELSE MdMode),
               !.words = IF MdMode = "blocks" THEN <<>> ELSE @,
               !.fence = Past(@)]
        /\ UNCHANGED <<upload, format, vocabulary, blocks, title, outcome>>

MdText ==
    /\ format = "markdown" /\ Reading /\ InBody
    /\ Parent \in {"heading", "para", "cell", "span"}
    /\ Write(Token("text", ""))
    /\ local' = [local EXCEPT !.words = Append(@, Here)]
    /\ UNCHANGED <<upload, format, vocabulary, open, blocks, title, outcome>>

\* An image among text keeps its Markdown; inlineText has no case for it.
MdImage ==
    /\ format = "markdown" /\ Reading /\ InBody
    /\ Parent \in {"heading", "para", "cell", "span"}
    /\ Write(Token("image", ""))
    /\ local' = IF MdMode = "plain" THEN local ELSE [local EXCEPT !.words = Append(@, Here)]
    /\ UNCHANGED <<upload, format, vocabulary, open, blocks, title, outcome>>

\* Code: a block of the document, or a child of a list item or a quote, where it has
\* lines but no children to descend into. HTML is dropped anywhere.
MdLeaf ==
    \E tag \in {"code", "html"} :
        /\ format = "markdown" /\ Reading /\ InBody
        /\ Parent \in {"root", "item", "quote"}
        /\ Write(Token(tag, ""))
        /\ blocks' = IF tag = "code" /\ MdMode = "blocks"
                     THEN Append(blocks, Block("code", 0, <<Here>>)) ELSE blocks
        /\ local' = [local EXCEPT !.fence = Past(@)]
        /\ UNCHANGED <<upload, format, vocabulary, open, title, outcome>>

\* RawHTML, among text.
MdRawHtml ==
    /\ format = "markdown" /\ Reading /\ InBody
    /\ Parent \in {"heading", "para", "cell", "span"}
    /\ Write(Token("tag", ""))
    /\ UNCHANGED <<upload, format, vocabulary, open, local, blocks, title, outcome>>

\* A line "---" between blocks. splitFrontMatter works on bytes: a source that begins
\* with one and has another has a front matter, whatever its author meant.
MdFence ==
    /\ format = "markdown" /\ Reading /\ Parent = "root"
    /\ Write(Token("hr", ""))
    /\ \E after \in {"rule", "inside", "after", "none"} :
        /\ CASE local.fence = "first" -> after \in {"rule", "inside"}
             [] local.fence = "inside" -> after = "after"
             [] local.fence = "rule" -> FALSE
             [] OTHER -> after = local.fence
        /\ local' = [local EXCEPT !.fence = after]
        /\ blocks' = IF local.fence = "inside" \/ after = "inside" THEN blocks
                     ELSE Append(blocks, Block("rule", 0, <<>>))
    /\ UNCHANGED <<upload, format, vocabulary, open, title, outcome>>

\* The lines up to the "---" that ends the front matter.
MdFrontMatter ==
    /\ format = "markdown" /\ Reading /\ ~InBody
    /\ Write(Token("line", ""))
    /\ UNCHANGED <<upload, format, vocabulary, open, local, blocks, title, outcome>>

Children == {i \in DOMAIN read : read[i].inside # <<>> /\ Last(read[i].inside) = Last(open)}
\* soleImage: the only child of a paragraph.
SoleImage == Cardinality(Children) = 1 /\ \A i \in Children : read[i].tag = "image"

Composed(element) ==
    CASE element.tag = "heading" ->
            IF local.words = <<>> THEN <<>> ELSE <<Block("heading", element.arg, local.words)>>
      [] element.tag = "para" ->
            IF SoleImage THEN <<Block("image", 0, local.words)>> ELSE Paragraph(local.words)
      [] element.tag = "quote" -> <<Block("quote", 0, local.words)>>
      [] element.tag \in {"list", "table"} ->
            IF Children = {} THEN <<>> ELSE <<Block(element.tag, 0, local.words)>>

MdEnd ==
    /\ format = "markdown" /\ Reading /\ Leave
    /\ LET element == read[Last(open)]
           top == Len(local.modes) = 2
       IN  /\ blocks' = IF top THEN blocks \o Composed(element) ELSE blocks
           /\ title' = IF top /\ element.tag = "heading" THEN TitleAfter(element.arg, local.words) ELSE title
    /\ local' = [local EXCEPT !.modes = Front(@)]
    /\ UNCHANGED <<upload, format, vocabulary, read, outcome>>

MdEof ==
    /\ format = "markdown" /\ Reading /\ InBody
    /\ EndOfSource(<<>>)
    /\ UNCHANGED <<upload, format, vocabulary, read, open, local, blocks>>

MdNext == MdElement \/ MdText \/ MdImage \/ MdLeaf \/ MdRawHtml \/ MdFence \/ MdFrontMatter \/ MdEnd \/ MdEof
=============================================================================
