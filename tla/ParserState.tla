---------------------------- MODULE ParserState ----------------------------
(* What the five parsers share: the source they are reading, element by       *)
(* element, and the document they build from it (docmodel, one block for each *)
(* heading, paragraph, list, table...).                                       *)
(*                                                                           *)
(* The source is written by its author while it is read. Each text, image,    *)
(* property and element of it is a token, known by its position in "read";    *)
(* a block holds the positions of the texts that reached it, so that what the *)
(* parser loses, repeats or reorders can be told.                             *)
EXTENDS Integers, Sequences, FiniteSets, SequencesExt

VARIABLES upload,     \* the document as it was uploaded: [ext, head, size, zip]
          format,     \* domain.Format, "undetected" before DetectFormat
          vocabulary, \* [tokens, length]: the tokens the author of this source uses, and
                      \* how many of them at most: a bound of the model
          read,       \* the tokens read so far
          open,       \* the positions of the elements that are open
          local,      \* the local variables of the parser
          blocks,     \* doc.Blocks
          title,      \* doc.Title
          outcome     \* "none" while parsing, then "parsed" or the fault

parseVars == <<upload, format, vocabulary, read, open, local, blocks, title, outcome>>

Reading == outcome = "none"

Token(tag, arg) == [tag |-> tag, arg |-> arg]
\* The next position, for a token about to be read.
Here == Len(read) + 1
\* What the author writes: a token of the vocabulary, inside the open elements.
Write(token) ==
    /\ token \in vocabulary.tokens
    /\ Len(read) < vocabulary.length
    /\ read' = Append(read, [tag |-> token.tag, arg |-> token.arg, inside |-> open])
\* The element that is being read; "root" outside of all of them.
Parent == IF open = <<>> THEN "root" ELSE read[Last(open)].tag
Enter == open' = Append(open, Here)
Leave == open # <<>> /\ open' = Front(open)

Block(kind, level, words) == [kind |-> kind, level |-> level, words |-> words]
\* A paragraph with the words gathered so far, if there are any.
Paragraph(words) == IF words = <<>> THEN <<>> ELSE <<Block("paragraph", 0, words)>>

\* doc.Title: the first heading of level 1.
TitleAfter(level, words) == IF level = 1 /\ title = <<>> THEN words ELSE title

\* firstHeadingText.
FirstHeading ==
    LET headings == {k \in DOMAIN blocks : blocks[k].kind = "heading"}
    IN  IF headings = {} THEN <<>> ELSE blocks[Min(headings)].words

Finish(what) == outcome' = what

\* The source ends, all its elements closed.
EndOfSource(default) ==
    /\ open = <<>>
    /\ title' = IF title # <<>> THEN title
                ELSE IF default # <<>> THEN default
                ELSE FirstHeading
    /\ Finish("parsed")
=============================================================================
