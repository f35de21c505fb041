-------------------------- MODULE ParsingInvariants --------------------------
(* What the proofs about the parsers are about: ParsingInv, of the order of   *)
(* the document, of its headings and its titles, and LossInv, of what is      *)
(* accounted for while a source is read. What a parser holds is in its        *)
(* variables; the elements around a token are those of the source r, so that  *)
(* what is said of a source can be said of any longer one.                    *)
EXTENDS Parsing

-----------------------------------------------------------------------------
(* Styles *)

\* What a style may be based on.
Bases == DOMAIN Styles \cup {""}

-----------------------------------------------------------------------------
(* A document in reading order *)

Kinds == {"heading", "paragraph", "list", "table", "image", "rule", "code", "quote"}
BlockRec == [kind : Kinds, level : Int, words : Seq(Nat)]

Increasing(s) == \A i, j \in DOMAIN s : i < j => s[i] < s[j]
Precedes(s, t) == \A i \in DOMAIN s, j \in DOMAIN t : s[i] < t[j]
\* Words are positions up to n.
Upto(n, s) == \A i \in DOMAIN s : s[i] \in 1..n

\* A block that a parser may write when it has read n tokens.
Fits(n, b) ==
    /\ b \in BlockRec
    /\ (b.kind = "heading") = (b.level \in 1..6)
    /\ b.kind = "heading" => b.words # <<>>
    /\ Increasing(b.words) /\ Upto(n, b.words)

\* The images of a DOCX and its texts are in order, each by themselves.
Apart(f, b, c) == f = "docx" /\ (b.kind = "image") # (c.kind = "image")
InOrder(f, b, c) == Apart(f, b, c) \/ Precedes(b.words, c.words)

Doc(f, n, bs) ==
    /\ bs \in Seq(BlockRec)
    /\ \A k \in DOMAIN bs : Fits(n, bs[k])
    /\ \A k, l \in DOMAIN bs : k < l => InOrder(f, bs[k], bs[l])

\* What comes next.
Behind(f, bs, b) == \A k \in DOMAIN bs : InOrder(f, bs[k], b)

Heads(bs) == {k \in DOMAIN bs : bs[k].kind = "heading"}
Ones(bs) == {k \in DOMAIN bs : bs[k].kind = "heading" /\ bs[k].level = 1}
FirstOf(bs, ks) == IF ks = {} THEN <<>> ELSE bs[Min(ks)].words

\* doc.Title while the source is read.
TitleOf(bs, t) == t = FirstOf(bs, Ones(bs))

Pending(f, n, bs, kind, w) ==
    /\ w \in Seq(Nat) /\ Increasing(w) /\ Upto(n, w)
    /\ Behind(f, bs, Block(kind, 0, w))

-----------------------------------------------------------------------------
(* What is around a token, and what marks a heading *)

AllTokens == UNION {UNION {v.tokens : v \in Vocabularies[f]} : f \in DOMAIN Vocabularies}
Elements == [tag : {t.tag : t \in AllTokens}, arg : {t.arg : t \in AllTokens}, inside : Seq(Nat)]

Inside(r, i) == {r[i].inside[j] : j \in DOMAIN r[i].inside}
\* What is around a token was read before it.
Rooted(r) == \A i \in DOMAIN r : \A j \in DOMAIN r[i].inside : r[i].inside[j] \in DOMAIN r

\* Marked, of the source r.
MarkedIn(f, r, i) ==
    CASE f = "docx" ->
            \E s \in DOMAIN r : /\ r[s].tag \in {"style", "outline"}
                                /\ \E p \in Inside(r, s) \cap Inside(r, i) : r[p].tag = "p"
      [] f = "html" -> \E e \in Inside(r, i) : r[e].tag = "h"
      [] f = "markdown" -> \E e \in Inside(r, i) : r[e].tag = "heading"
      [] f = "text" ->
            r[i].tag \in {"numbered", "capitals"} \/ (i < Len(r) /\ r[i + 1].tag = "underline")
      [] f = "pdf" -> \E k \in DOMAIN r : r[k].tag = "other" /\ r[i].arg > r[k].arg

\* The sizes below 5 of a PDF are equal to a fifth more of them, in integers.
ReadableFonts == \A v \in Vocabularies["pdf"] : \A token \in v.tokens : token.arg \notin 1..4

\* The words of a heading are marked as one, and in a DOCX the images are in the blocks
\* of images, the rest is in the others.
Lawful(f, r, b) ==
    /\ b.kind = "heading" => \A i \in DOMAIN b.words : ReadableFonts => MarkedIn(f, r, b.words[i])
    /\ f = "docx" => \A i \in DOMAIN b.words : (b.kind = "image") = (r[b.words[i]].tag = "image")

Good(f, r, bs) == Doc(f, Len(r), bs) /\ \A k \in DOMAIN bs : Lawful(f, r, bs[k])

Five == {"docx", "html", "markdown", "text", "pdf"}

\* What a token of a format is, and of a PDF whose fonts can be read.
Known(f, token) == /\ MayBe(f, token)
                   /\ f = "pdf" /\ ReadableFonts => token.arg \notin 1..4

Form ==
    /\ format \in Formats \cup {"undetected"}
    /\ \A token \in vocabulary.tokens : token \in AllTokens /\ Known(format, token)
    /\ read \in Seq(Elements) /\ Rooted(read)
    /\ \A i \in DOMAIN read : Known(format, read[i])
    /\ \A i \in DOMAIN read : read[i].tag = "title" => format = "html" /\ i = 1
    /\ open \in Seq(Nat)
    /\ \A i \in DOMAIN open : open[i] \in DOMAIN read /\ read[open[i]].inside = SubSeq(open, 1, i - 1)
    /\ format \notin Five => read = <<>> /\ open = <<>> /\ blocks = <<>> /\ title = <<>>
    /\ format = "undetected" => Reading

TitleTokens(r) == {i \in DOMAIN r : r[i].tag = "title"}
NamedIn(r, bs, t) ==
    t = IF Ones(bs) # {} THEN bs[Min(Ones(bs))].words
        ELSE IF TitleTokens(r) # {} THEN <<CHOOSE i \in TitleTokens(r) : TRUE>>
        ELSE FirstOf(bs, Heads(bs))

Document ==
    /\ Good(format, read, blocks)
    /\ Reading => TitleOf(blocks, title)
    /\ Parsed => NamedIn(read, blocks, title)

-----------------------------------------------------------------------------
(* What each parser holds *)

\* The title of the page is the first token, if it has one.
PageOK(r, page) == \/ page = <<>> /\ TitleTokens(r) = {}
                   \/ page = <<1>> /\ TitleTokens(r) = {1}

\* How many lines are in the document or in the paragraph that waits for it.
Looked(l) == IF l.next = 0 THEN 0 ELSE l.next - 1
LinesOK(f, r, l, bs) ==
    /\ DOMAIN l = {"next", "para", "body", "inferred"}
    /\ l.next \in 0..(Len(r) + 1) /\ l.body \in Nat
    /\ l.next = 0 => bs = <<>> /\ l.para = <<>>
    /\ Doc(f, Looked(l), bs) /\ Pending(f, Looked(l), bs, "paragraph", l.para)
    /\ f = "pdf" /\ l.next > 0 /\ l.body > 0 => \E k \in DOMAIN r : r[k].tag = "other" /\ r[k].arg = l.body

Lines == format \in {"text", "pdf"} /\ Reading => LinesOK(format, read, local, blocks)
LinesInv == Form /\ Document /\ Lines

Tops == {"heading", "list", "quote", "para", "table"}
\* The words that are gathered are inside the element of the document that is open.
MarkdownOK(r, o, l, bs) ==
    /\ DOMAIN l = {"modes", "words", "fence"}
    /\ l.modes \in Seq({"blocks", "plain", "inline"})
    /\ Len(l.modes) = Len(o) + 1 /\ l.modes[1] = "blocks"
    /\ \A k \in 2..Len(l.modes) : l.modes[k] # "blocks"
    /\ Len(o) > 0 => /\ r[o[1]].tag \in Tops
                     /\ Pending("markdown", Len(r), bs, "paragraph", l.words)
                     /\ \A i \in DOMAIN l.words : o[1] \in Inside(r, l.words[i])

Markdown == format = "markdown" /\ Reading => MarkdownOK(read, open, local, blocks)
MarkdownInv == Form /\ Document /\ Markdown

\* The paragraph that is read is one of the open elements; its style is in it.
InParagraph(r, o, l, p) ==
    /\ \E j \in DOMAIN o : o[j] = p
    /\ r[p].tag = "p"
    /\ \A i \in DOMAIN l.words : p \in Inside(r, l.words[i])
    /\ l.style # "" \/ l.outline # -1 =>
         \E s \in DOMAIN r : r[s].tag \in {"style", "outline"} /\ p \in Inside(r, s)

DocxOK(r, o, l, bs) ==
    /\ DOMAIN l = {"mode", "words", "pics", "style", "outline", "numbered", "rows", "budget"}
    /\ l.mode \in {"body", "p", "tbl"} /\ l.style \in Bases /\ l.outline \in Int
    /\ l.mode = "body" => l.words = <<>> /\ l.pics = <<>> /\ l.style = "" /\ l.outline = -1
    /\ Pending("docx", Len(r), bs, "paragraph", l.words)
    /\ \A i \in DOMAIN l.words : r[l.words[i]].tag # "image"
    /\ Pending("docx", Len(r), bs, "image", l.pics)
    /\ \A i \in DOMAIN l.pics : r[l.pics[i]].tag = "image"
    /\ l.mode = "p" => \E p \in DOMAIN r : InParagraph(r, o, l, p)

Docx == format = "docx" /\ Reading => DocxOK(read, open, local, blocks)
DocxInv == Form /\ Document /\ Docx

Modes == {"outside", "page", "item", "text", "list", "rows", "lost"}
\* What the content of an element may be read as, deep inside one that is read as m.
Later(m) ==
    CASE m = "outside" -> Modes
      [] m = "page" -> Modes \ {"outside"}
      [] m = "list" -> {"item", "lost"}
      [] m = "item" -> {"item", "lost"}
      [] m = "text" -> {"text", "lost"}
      [] m = "rows" -> {"rows", "text", "lost"}
      [] m = "lost" -> {"lost"}

\* The modes of the open elements, the first of all of them the page itself.
Nested(r, o, ms) ==
    /\ ms \in Seq(Modes) /\ Len(ms) = Len(o) + 1
    /\ \A k, m \in DOMAIN ms : k < m => ms[m] \in Later(ms[k])
    /\ \A k \in DOMAIN o : ms[k] = "page" => ms[k + 1] = Contents(r[o[k]].tag)

\* An element of the page that is read as text, up to its end.
Verbatim(ms, k) == ms[k] = "page" /\ ms[k + 1] \in {"text", "list", "rows"}
\* The words are inside of it.
Holds(r, o, ms, w) == \A k \in DOMAIN o : Verbatim(ms, k) => \A i \in DOMAIN w : o[k] \in Inside(r, w[i])

Among(ms, S) == \E m \in DOMAIN ms : ms[m] \in S
Gathers == {"text", "list", "rows", "item"}

TextOK(r, o, l, bs) ==
    Among(l.modes, Gathers) =>
        /\ l.inline = <<>>
        /\ Pending("html", Len(r), bs, "paragraph", l.text) /\ Holds(r, o, l.modes, l.text)
ItemOK(r, o, l, bs) ==
    Among(l.modes, {"item"}) =>
        /\ Pending("html", Len(r), bs, "paragraph", l.item) /\ Holds(r, o, l.modes, l.item)
        /\ Precedes(l.text, l.item)

HtmlOK(r, o, l, bs) ==
    /\ DOMAIN l = {"modes", "hasMain", "inline", "item", "text", "rows", "dropped", "page"}
    /\ Nested(r, o, l.modes)
    /\ Pending("html", Len(r), bs, "paragraph", l.inline)
    /\ TextOK(r, o, l, bs) /\ ItemOK(r, o, l, bs)

Html == format = "html" /\ Reading => HtmlOK(read, open, local, blocks) /\ PageOK(read, local.page)
HtmlInv == Form /\ Document /\ Html

HtmlTokens == Structural \cup {"li", "caption", "cell", "span", "skip", "main", "text", "image", "hr"}

-----------------------------------------------------------------------------
(* The invariant of the order, the headings and the titles *)

\* Nothing is known of the author before the format is.
Undetected == format = "undetected" => vocabulary.tokens = {}
ParsingInv == Form /\ Document /\ Lines /\ Markdown /\ Docx /\ Html /\ Undetected

-----------------------------------------------------------------------------
(* Where a word is: in the document, held by the parser, or lost *)

In(w, i) == \E j \in DOMAIN w : w[j] = i
Says(bs, i) == \E k \in DOMAIN bs : In(bs[k].words, i)

\* Underlines, of the source r.
Rules(r, f, k) == /\ k > 1 /\ r[k].tag = "underline"
                  /\ r[k - 1].tag # "blank" /\ ~f[k - 1]
Ruled(r, n, f) == f = [k \in 0..n |-> Rules(r, f, k)]
UnderlinesIn(r, i) == (CHOOSE f : Ruled(r, i, f))[i]

\* A line that was looked at is blank, in the document, in the paragraph that waits for it,
\* an underline or inside a line; the next line is no underline, it would have been looked
\* at.
Seen(f, r, bs, w, i) ==
    \/ r[i].tag = "blank" \/ Says(bs, i) \/ In(w, i)
    \/ (f = "text" /\ UnderlinesIn(r, i)) \/ (f = "pdf" /\ r[i].tag = "inner")
SeenUpto(f, r, bs, w, n) == /\ \A i \in 1..n : Seen(f, r, bs, w, i)
                            /\ f = "text" /\ n + 1 <= Len(r) => ~UnderlinesIn(r, n + 1)
LinesLoss == format \in {"text", "pdf"} /\ Reading /\ local.next > 0 =>
                 SeenUpto(format, read, blocks, local.para, local.next - 1)

\* MarkdownLoses, of the source r.
MarkdownLosesIn(r, i) ==
    \/ r[i].tag = "line"
    \/ r[i].tag = "code" /\ \E e \in Inside(r, i) : r[e].tag \in {"list", "quote"}
    \/ r[i].tag = "image" /\ \E e \in Inside(r, i) :
           r[e].tag = "heading" /\ \A d \in Inside(r, e) : r[d].tag \notin {"list", "quote"}

\* The tokens of Markdown that are no text and no image.
Wordless == {"heading", "list", "quote", "para", "table", "item", "cell", "span", "html", "tag", "hr"}
\* The words that wait for the element of the document that is open.
Held(o, l) == IF o = <<>> THEN <<>> ELSE l.words
MdFound(r, bs, w, i) == r[i].tag \in Wordless \/ Says(bs, i) \/ In(w, i) \/ MarkdownLosesIn(r, i)
HasChild(r, e) == \E i \in DOMAIN r : r[i].inside # <<>> /\ Last(r[i].inside) = e

\* Every token is found; the element whose words are held is not empty; only in a heading
\* are images dropped; an item is in a list.
MarkdownFinds(r, o, l, bs) ==
    /\ \A i \in DOMAIN r : MdFound(r, bs, Held(o, l), i)
    /\ Held(o, l) # <<>> => HasChild(r, o[1])
    /\ \A k \in 2..Len(l.modes) : l.modes[k] = "plain" => r[o[1]].tag = "heading"
    /\ \A k \in DOMAIN o : /\ r[o[k]].tag \in Wordless
                           /\ r[o[k]].tag = "item" => k > 1 /\ r[o[k - 1]].tag = "list"

MarkdownLoss == format = "markdown" /\ Reading => MarkdownFinds(read, open, local, blocks)

CostOf(rel) == IF rel \in DOMAIN Rels THEN Price(rel) ELSE 0

\* What is paid for an image that is shown, and g[k], what was paid for the tokens up to k.
PaidFor(r, bs, pics, k) == IF r[k].tag = "image" /\ (Says(bs, k) \/ In(pics, k)) THEN CostOf(r[k].arg) ELSE 0
Pays(r, bs, pics, g) == /\ g \in [0..Len(r) -> Nat] /\ g[0] = 0
                        /\ \A k \in 1..Len(r) : g[k] = g[k - 1] + PaidFor(r, bs, pics, k)

\* DocxLoses of the source r, but for the images there was no budget for.
ClosesIn(r, i) == \E p \in DOMAIN r : /\ r[p].tag \in {"p", "tbl"} /\ p < i /\ p \notin Inside(r, i)
                                      /\ Last(r[i].inside) \in Inside(r, p)
Hidden(rel) == rel \notin DOMAIN Rels \/ (~Rels[rel].external /\ Rels[rel].size = 0)
DocxDrops(r, i) ==
    \/ ClosesIn(r, i)
    \/ r[i].tag = "image" /\ (Hidden(r[i].arg) \/ \E e \in Inside(r, i) : r[e].tag = "tbl")

DocxWordless == {"p", "tbl", "cell", "style", "outline", "numPr"}
TooDear(r, g, i) == r[i].tag = "image" /\ CostOf(r[i].arg) + g[i - 1] > ImageBudget
DocxFound(r, bs, l, g, i) ==
    \/ r[i].tag \in DocxWordless
    \/ Says(bs, i) \/ In(l.words, i) \/ In(l.pics, i)
    \/ DocxDrops(r, i) \/ TooDear(r, g, i)

\* Every token is found, and the budget is what the images have left.
DocxFinds(r, l, bs) ==
    \E g : /\ Pays(r, bs, l.pics, g)
           /\ l.budget = ImageBudget - g[Len(r)]
           /\ \A i \in DOMAIN r : DocxFound(r, bs, l, g, i)

\* In a paragraph that goes on after it ended, another one is over.
HasParagraph(r, o, e) == \E q \in DOMAIN r : /\ r[q].tag \in {"p", "tbl"} /\ e \in Inside(r, q)
                                             /\ \A j \in DOMAIN o : o[j] # q
DocxPlaced(r, o, l) ==
    /\ l.rows \in Nat
    /\ l.mode # "p" => l.pics = <<>>
    /\ l.mode # "body" => \E k \in DOMAIN o : r[o[k]].tag = l.mode
    /\ l.mode = "body" => \A k \in DOMAIN o : r[o[k]].tag = "p" => HasParagraph(r, o, o[k])
    /\ \A k \in DOMAIN o : k > 1 /\ r[o[k]].tag # "cell" => r[o[k - 1]].tag # "tbl"
    /\ l.mode = "tbl" /\ l.rows = 0 /\ o # <<>> /\ r[o[Len(o)]].tag = "tbl" => r[Len(r)].tag = "tbl"

DocxLoss == format = "docx" /\ Reading => DocxFinds(read, local, blocks) /\ DocxPlaced(read, open, local)

\* The elements around token i of the source r, by their tags.
Amid(r, i, tags) == \E e \in Inside(r, i) : r[e].tag \in tags
Verbal == {"h", "pre", "quote", "cell"}
Boxes == {"h", "pre", "quote", "table", "list"}

\* The list item that token i is read in.
FirstLi(r, e, i) == /\ e \in Inside(r, i) /\ r[e].tag = "li"
                    /\ \A d \in Inside(r, i) : r[d].tag \in Verbal \cup {"li"} => e <= d

\* HtmlLoses of the source r, whose walk noted d elements that it skipped.
Broken(r, i) ==
    \E e : /\ FirstLi(r, e, i)
           /\ \/ \E b \in Inside(r, i) : b > e /\ r[b].tag \in Breaks
              \/ \E k \in DOMAIN r : e \in Inside(r, k) /\ k > i /\ r[k].tag \in Breaks /\ ~Amid(r, k, {"skip"})
Captioned(r, i) == \E c \in Inside(r, i) : /\ r[c].tag = "caption"
                                           /\ \A v \in Inside(r, i) : r[v].tag \in Verbal => c < v
Listed(r, i) ==
    \E e \in Inside(r, i) :
        /\ r[e].tag = "list" /\ \A d \in Inside(r, i) : d < e => r[d].tag \notin {"h", "pre", "quote", "table"}
        /\ \A c \in Inside(r, i) : r[c].tag = "li" => \E d \in Inside(r, i) : e < d /\ d < c
HtmlDrops(r, hasMain, d, i) ==
    \/ Amid(r, i, {"skip"}) /\ (d > 0 \/ Amid(r, i, Boxes))
    \/ hasMain /\ ~Amid(r, i, {"main"})
    \/ r[i].tag = "image" /\ (r[i].arg = "unsafe" \/ Amid(r, i, Boxes))
    \/ Captioned(r, i) \/ Listed(r, i) \/ Broken(r, i)

\* The first k of the elements o that are open: those of the page itself,
Plain(r, o, k) == \A j \in 1..k : r[o[j]].tag \in {"p", "span", "main"}
\* a list of the page with an element in it that is no item,
ListAt(r, o, x) == r[o[x]].tag = "list" /\ Plain(r, o, x - 1) /\ r[o[x + 1]].tag # "li"
\* a list item of the page, with its list,
LiAt(r, o, ms, x) == /\ x > 1 /\ ms[x] = "list" /\ ms[x + 1] = "item"
                     /\ r[o[x]].tag = "li" /\ r[o[x - 1]].tag = "list" /\ Plain(r, o, x - 2)
\* and how they came to be read as they are.
ShapeOf(r, o, l, k) ==
    /\ l.modes[k + 1] = "outside" => l.hasMain /\ \A j \in 1..k : r[o[j]].tag # "main"
    /\ l.modes[k + 1] = "page" => Plain(r, o, k)
    /\ l.modes[k + 1] = "list" => k > 0 /\ r[o[k]].tag = "list" /\ Plain(r, o, k - 1)
    /\ l.modes[k + 1] = "item" => /\ \E x \in 1..k : LiAt(r, o, l.modes, x)
                                  /\ \A j \in 1..k : r[o[j]].tag # "skip"
    /\ l.modes[k + 1] = "text" => \E j \in 1..k : r[o[j]].tag \in {"h", "pre", "quote", "table"}
    /\ l.modes[k + 1] = "rows" =>
           \E t \in 1..k : r[o[t]].tag = "table" /\ Plain(r, o, t - 1) /\ (t < k => r[o[t + 1]].tag = "caption")
    /\ l.modes[k + 1] = "lost" =>
           \/ (\E j \in 1..k : r[o[j]].tag = "skip") /\ (l.dropped > 0 \/ \E j \in 1..k : r[o[j]].tag \in Boxes)
           \/ \E x \in 1..k : LiAt(r, o, l.modes, x) /\ \E b \in (x + 1)..k : r[o[b]].tag \in Structural
           \/ \E x \in 1..(k - 1) : ListAt(r, o, x)

\* Where everything of a page is while it is read: the elements that are open, and how each
\* came to be read as it is; a table whose text is not empty has a row; the words of a
\* list item are in it.
Covers(r, o) == /\ \A k \in DOMAIN o : \A i \in DOMAIN r : o[k] < i => o[k] \in Inside(r, i)
                /\ \A j, k \in DOMAIN o : j < k => o[j] < o[k]
                /\ \A i \in DOMAIN r : r[i].tag \in HtmlTokens \cup {"title"}
Steps(r, o, ms) == \A k \in DOMAIN o : ms[k + 1] = ModeIn(ms[k], r[o[k]].tag)
RowsOf(l) == Among(l.modes, {"rows"}) /\ ~Among(l.modes, {"text"}) => l.rows > 0 \/ l.text = <<>>
ItemsOf(r, o, l) ==
    \A j \in DOMAIN o : l.modes[j] = "list" /\ l.modes[j + 1] = "item"
                        => \A i \in DOMAIN r : In(l.item, i) => FirstLi(r, o[j], i)
HtmlPlaced(r, o, l) ==
    /\ l.rows \in Nat /\ l.dropped \in Nat
    /\ Covers(r, o) /\ Steps(r, o, l.modes)
    /\ \A k \in 0..Len(o) : ShapeOf(r, o, l, k)
    /\ RowsOf(l) /\ ItemsOf(r, o, l)

\* What has no words of its own, and what gathers those of others.
Silent == (HtmlTokens \cup {"title"}) \ {"text", "image"}
Texting == {"text", "list", "rows"}

\* Every text and image that was read is in the document, is about to be, or is dropped.
HtmlFound(r, bs, l, i) ==
    \/ r[i].tag \in Silent
    \/ Says(bs, i) \/ In(l.inline, i)
    \/ In(l.text, i) /\ Among(l.modes, Texting)
    \/ In(l.item, i) /\ Among(l.modes, {"item"})
    \/ HtmlDrops(r, l.hasMain, l.dropped, i)
HtmlFinds(r, bs, l) == \A i \in DOMAIN r : HtmlFound(r, bs, l, i)
HtmlLoss == format = "html" /\ Reading => HtmlPlaced(read, open, local) /\ HtmlFinds(read, blocks, local)

-----------------------------------------------------------------------------
(* The invariant of what is lost *)

\* While a source is read, all that was read is accounted for.
LossInv == LinesLoss /\ MarkdownLoss /\ DocxLoss /\ HtmlLoss /\ NothingElseIsLost
=============================================================================
