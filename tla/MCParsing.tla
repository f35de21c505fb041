----------------------------- MODULE MCParsing -----------------------------
(* Small sources of every format, each written with one small vocabulary.    *)
EXTENDS Parsing

Tokens(tags) == {Token(tag, "") : tag \in tags}
Levels(tag, levels) == {Token(tag, level) : level \in levels}
Pics(args) == {Token("image", a) : a \in args}

GoodZip == [valid |-> TRUE, entries |-> 2, packed |-> 1, unpacked |-> 2, document |-> TRUE]
Uploaded(ext, head) == [ext |-> ext, head |-> head, size |-> 1, zip |-> GoodZip]

MCUploads ==
    {Uploaded(ext, head) : ext \in {"md", "html", "txt", "docx", "pdf", "exe"},
                           head \in {"%PDF-", "PK", "text/html", "text/plain", "text/xml", "application/octet-stream", "image/png"}}
    \cup {[Uploaded("md", "text/plain") EXCEPT !.size = 2]}
    \cup {[Uploaded("docx", "PK") EXCEPT !.zip = zip] :
            zip \in {[GoodZip EXCEPT !.valid = FALSE], [GoodZip EXCEPT !.entries = 3],
                     [GoodZip EXCEPT !.unpacked = 5], [GoodZip EXCEPT !.packed = 7, !.unpacked = 21],
                     [GoodZip EXCEPT !.document = FALSE]}}

Style(declared, id, name, outline, basedOn) ==
    [declared |-> declared, id |-> id, name |-> name, outline |-> outline, basedOn |-> basedOn]
\* A heading in Spanish, one that inherits from it, a level 9, a cycle, and a style
\* that is only referred to.
MCStyles == [Ttulo1 |-> Style(TRUE, 1, 1, -1, ""), Derived |-> Style(TRUE, 0, 0, -1, "Ttulo1"),
             Deep |-> Style(TRUE, 0, 0, 8, ""), Loop |-> Style(TRUE, 0, 0, -1, "Pool"),
             Pool |-> Style(TRUE, 0, 0, -1, "Loop"), Heading2 |-> Style(FALSE, 2, 0, -1, "")]
MCRels == [logo |-> [external |-> FALSE, size |-> 2], icon |-> [external |-> FALSE, size |-> 1],
           web |-> [external |-> TRUE, size |-> 0], gone |-> [external |-> FALSE, size |-> 0]]

UpTo(length, tokens) == [tokens |-> tokens, length |-> length]

MCVocabularies ==
    [docx |-> {UpTo(7, Tokens({"p", "text", "tbl", "cell"})),
               UpTo(5, Tokens({"p", "text", "numPr"}) \cup {Token("style", "Ttulo1"), Token("outline", 1)}),
               UpTo(4, Tokens({"p", "text"}) \cup Levels("outline", {0, 9})
                       \cup Levels("style", {"Derived", "Deep", "Loop", "Heading2"})),
               UpTo(6, Tokens({"p", "tbl", "cell"}) \cup Pics({"logo"})),
               UpTo(4, Tokens({"p", "text"}) \cup Pics({"logo", "icon", "web", "gone", "nowhere"}))},
     html |-> {UpTo(6, Tokens({"list", "li", "p", "text"})),
               UpTo(5, Tokens({"list", "li", "text", "span"}) \cup Levels("h", {2})),
               UpTo(5, Tokens({"list", "li", "text", "hr", "skip"}) \cup Pics({"ref"})),
               UpTo(5, Tokens({"table", "caption", "cell", "text", "skip"})),
               UpTo(5, Tokens({"list", "li", "table", "cell", "text"})),
               UpTo(5, Tokens({"title", "text", "p", "main"}) \cup Levels("h", {1, 2})),
               UpTo(4, Tokens({"quote", "pre", "text", "skip", "span"}) \cup Pics({"ref", "unsafe"}))},
     markdown |-> {UpTo(6, Tokens({"list", "item", "para", "text", "code"})),
                   UpTo(5, Tokens({"quote", "para", "text", "html", "tag", "span"})),
                   UpTo(5, Tokens({"para", "image", "text", "span", "tag"}) \cup Levels("heading", {1})),
                   UpTo(5, Tokens({"hr", "line", "para", "text", "code"}) \cup Levels("heading", {1, 2})),
                   UpTo(5, Tokens({"table", "cell", "text", "image"}))},
     text |-> {UpTo(5, Tokens({"blank", "capitals", "other"})
                       \cup Levels("underline", {1, 2}) \cup Levels("numbered", {1, 4}))},
     pdf |-> {UpTo(5, Levels("other", {0, 8, 10, 12, 15}) \cup Levels("inner", {0}))}]
=============================================================================
