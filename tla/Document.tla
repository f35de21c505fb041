----------------------------- MODULE Document -----------------------------
(* The intermediate representation every parser delivers and every later    *)
(* stage reads (docmodel), with the texts, slugs and links it is made of.    *)
(*                                                                           *)
(* A text is abstracted to what the pipeline tells apart: the slug that      *)
(* slug.Make gives it, the links its Markdown holds, and its marks: whether   *)
(* a closing bracket, a line that begins with "# ", raw HTML, bytes that are  *)
(* not UTF-8 (no parser looks) or one of the two comments that delimit the   *)
(* index (after its links) occur in it, and whether cutting it at 297 bytes  *)
(* splits a multi-byte character.                                           *)
EXTENDS Naturals, Sequences, FiniteSets, SequencesExt

Kinds == {"heading", "paragraph", "list", "code", "quote", "table", "image", "rule", "raw"}

\* Kebab-case ASCII: the words of a text and the numbers that follow them.
Slug(words) == [base |-> words, tail |-> <<>>]

\* A path of a bundle. "assets" holds the files named by their hash.
Path(dir, order, slug) == [dir |-> dir, order |-> order, slug |-> slug]

\* Where a link leads: a file of the bundle, an anchor of its own file, a
\* relative path that is not in the bundle, or another site.
Link(kind, path, frag, marks) == [kind |-> kind, path |-> path, frag |-> frag, marks |-> marks]
NoPath == Path("", 0, Slug(""))
FileLink(path) == Link("file", path, Slug(""), {})
AnchorLink(slug) == Link("anchor", NoPath, slug, {})
External == Link("external", NoPath, Slug(""), {})
\* A relative link of the author to a file that was not uploaded.
Missing(name, marks) == Link("file", Path("", 0, Slug(name)), Slug(""), marks)

Text(slug, links, marks) == [slug |-> slug, links |-> links, marks |-> marks]
\* slug.Make never answers an empty name: an empty text becomes "seccion".
NoText == Text(Slug("seccion"), <<>>, {"empty"})

\* A resource: the digest of its embedded bytes (0 when it has none), their size,
\* the reference it came with, and whether that reference is remote.
Image(alt, data, size, url, remote) ==
    [alt |-> alt, data |-> data, size |-> size, url |-> url, remote |-> remote]
NoImage == Image(NoText, 0, 0, External, FALSE)

\* A list, a quote and a table stand for their items, lines and cells with one
\* text, and so does code for its language and its lines; an image has no text.
Block(kind, level, text, image) == [kind |-> kind, level |-> level, text |-> text, image |-> image]
Heading(level, text) == Block("heading", level, text, NoImage)
Prose(kind, text) == Block(kind, 0, text, NoImage)
Picture(image) == Block("image", 0, NoText, image)
Rule == Block("rule", 0, NoText, NoImage)

\* What parsers deliver.
Marks == {"empty", "bracket", "h1", "html", "broken", "open", "close", "wide"}
Slugs == [base : STRING, tail : Seq(Nat)]
Paths == [dir : STRING, order : Nat, slug : Slugs]
Links == [kind : {"file", "anchor", "external"}, path : Paths, frag : Slugs, marks : SUBSET Marks]
Texts == [slug : Slugs, links : Seq(Links), marks : SUBSET Marks]
Images == [alt : Texts, data : Nat, size : Nat, url : Links, remote : BOOLEAN]
Blocks == [kind : Kinds, level : Nat, text : Texts, image : Images]
Documents == [title : Texts, blocks : Seq(Blocks)]

IsHeading(b) == b.kind = "heading"

\* Something besides headings and rules.
IsContent(b) == b.kind \notin {"heading", "rule"} /\ (b.text # NoText \/ b.image # NoImage)

\* Anything besides empty headings and rules.
HasContent(blocks) ==
    \E i \in DOMAIN blocks : IsContent(blocks[i]) \/ (IsHeading(blocks[i]) /\ blocks[i].text # NoText)
===========================================================================
