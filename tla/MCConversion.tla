---------------------------- MODULE MCConversion ----------------------------
(* Families of small documents, each about one concern of the pipeline.      *)
EXTENDS Conversion

Marked(words, marks) == Text(Slug(words), <<>>, marks)
Plain(words) == Marked(words, {})
A == Plain("a")
B == Plain("b")
\* "A 2": the slug that Deduper gives to the second "A".
A2 == Text([base |-> "a", tail |-> <<2>>], <<>>, {})
Bracketed == Marked("c", {"bracket"})
WithLink(words, marks) == Text(Slug(words), <<Missing("guide", {})>>, marks)
\* A link to the name that the only file of a short document gets.
Inward == Text(Slug("d"), <<Missing("documento", {})>>, {})
Words == Plain("words")

To(slug) == Prose("paragraph", Text(Slug("see"), <<AnchorLink(slug)>>, {}))
ToFile(marks) == Prose("paragraph", Text(Slug("see"), <<Missing("contributing", marks)>>, {}))

Docs(titles, blocks, n) == [title : titles, blocks : BoundedSeq(blocks, n)]
Given(docs, names, faults, hurries) == [doc : docs, name : names, inject : faults, hurried : hurries]
SourceName == Plain("source")

\* How a document is cut: levels, repeated, absent and empty titles, preambles.
Outlines == Docs({NoText, A},
                 {Heading(1, A), Heading(2, A), Heading(2, A2), Heading(3, B), Heading(4, B),
                  Heading(2, NoText), Prose("paragraph", Words), Rule}, 4)

\* Where its links lead.
Crossing == {Heading(1, A), Heading(2, A2), Heading(2, B), To(A.slug), To(A2.slug), To(B.slug),
             Prose("list", To(B.slug).text), Prose("quote", To(B.slug).text)}
Crossed == Docs({NoText}, Crossing, 4) \cup Docs({A}, Crossing, 3)

\* Its images: embedded, repeated, too large, remote, without bytes.
Img(alt, data, size, url) == Picture(Image(alt, data, size, url, FALSE))
Media == Missing("media", {})
Pictures == Docs({NoText},
                 {Heading(1, A), Img(Words, 1, 1, Media), Img(Bracketed, 1, 1, Media), Img(Words, 2, 2, Media),
                  Img(Words, 3, 4, Media), Img(Words, 0, 0, Media),
                  Picture(Image(Words, 0, 0, External, TRUE))}, 4)

\* What its titles do to the index and the log.
Headed == {Heading(1, A), Heading(1, Bracketed), Heading(1, WithLink("d", {})), Heading(1, Inward),
            Heading(1, Marked("f", {"close"})), Heading(2, Marked("e", {"wide"})),
            Heading(1, Marked("e", {"broken"})), Heading(1, Marked("d", {"html"})), ToFile({})}

\* What its blocks do to the file they are in, and to the log.
Bodies == {Heading(1, A), Heading(3, Marked("e", {"broken"})), ToFile({"wide"}),
           Prose("code", Marked("x", {"h1"})), Prose("list", Marked("x", {"h1"})),
           Prose("quote", Marked("x", {"h1", "html"})), Prose("raw", Marked("x", {"broken"})),
           Img(Marked("x", {"html"}), 1, 1, Media), Img(Words, 0, 0, Missing("media", {"broken", "h1"}))}

\* What its name and its title do, with and without a fault injected.
Names == {SourceName, Marked("source", {"wide"}), Marked("source", {"html"}), Marked("source", {"open"}),
          WithLink("source", {})}
Titles == {NoText, A, Bracketed, WithLink("d", {}), WithLink("d", {"open"}), Marked("d", {"open"}),
           Marked("d", {"broken"})}
Few == {Heading(1, A), Heading(1, WithLink("d", {})), ToFile({})}

\* A few of them under way when the user cancels or JOB_TIMEOUT expires.
Short == Docs({A}, {Heading(1, A), Img(Words, 1, 1, Media), ToFile({"wide"})}, 2)

MCInputs == Given(Outlines \cup Crossed \cup Pictures \cup Docs({NoText}, Headed, 3) \cup Docs({NoText}, Bodies, 3),
                  {SourceName}, {""}, {FALSE})
            \cup Given(Docs(Titles, Few, 2), Names, {"", "drop_index", "drop_log"}, {FALSE})
            \cup Given(Short, {SourceName}, {""}, {TRUE})
=============================================================================
