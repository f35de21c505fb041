----------------------------- MODULE Conversion -----------------------------
(* okf.Convert: one conversion, from the document a parser delivered to a    *)
(* candidate bundle that was validated twice, or to an error. The user may   *)
(* ask for its cancellation, and JOB_TIMEOUT may expire, at any moment; the  *)
(* pipeline looks at both at its checkpoints only.                           *)
EXTENDS Validation

CONSTANTS Inputs,       \* records [doc, name, inject, hurried]: what a worker is given to
                        \* convert, and the name of its source; hurried bounds the
                        \* environment: only such a conversion may be canceled or expire
          MaxUnits,     \* MAX_UNITS, 0 for no limit
          AssetsBudget, \* ASSETS_MAX_BYTES
          MaxBundle     \* eight times PARSE_MAX_BYTES, in blocks; 0 for no limit

ASSUME ConversionAssumption ==
    /\ Inputs \subseteq [doc : Documents, name : Texts, inject : {"", "drop_index", "drop_log"},
                   hurried : BOOLEAN]
    /\ MaxUnits \in Nat /\ AssetsBudget \in Nat /\ MaxBundle \in Nat

VARIABLES phase,     \* the stage that comes next
          input,     \* what is converted
          units,     \* seg.Units
          fs,        \* out.FS
          first,     \* the report of the first validation
          report,    \* out.Report
          outcome,   \* what Convert returns
          canceling, \* the stage during which the user asked for the cancellation
          expired    \* the stage during which ctx was done; "never" for both until then

vars == <<phase, input, units, fs, first, report, outcome, canceling, expired>>

Stages == {"parse", "segment", "assets", "render", "index", "log", "validate", "done"}
NoReport == [findings |-> {}, verdict |-> "pending", score |-> 0, grade |-> ""]
Faults == {"empty_document", "too_many_units", "bundle_too_large"}

ConversionInit ==
    /\ phase = "parse"
    /\ input \in Inputs
    /\ units = <<>>
    /\ fs = EmptyFS
    /\ first = NoReport
    /\ report = NoReport
    /\ outcome = "none"
    /\ canceling = "never"
    /\ expired = "never"

Return(what) ==
    /\ phase' = "done"
    /\ outcome' = what

\* Seeded fault: checkCancel returns ctx.Err() alone.
CheckpointOfContext(next) ==
    IF expired # "never" THEN Return("expired")
    ELSE phase' = next /\ UNCHANGED outcome

\* checkCancel at the end of a stage: the cancellation first, then the context.
Checkpoint(next) ==
    IF canceling # "never" THEN Return("canceled")
    ELSE IF expired # "never" THEN Return("expired")
    ELSE phase' = next /\ UNCHANGED outcome

Parse ==
    /\ phase = "parse"
    /\ IF HasContent(input.doc.blocks) THEN Checkpoint("segment") ELSE Return("empty_document")
    /\ UNCHANGED <<input, units, fs, first, report, canceling, expired>>

Segment ==
    /\ phase = "segment"
    /\ IF TooManyUnits(input.doc, MaxUnits)
       THEN Return("too_many_units") /\ UNCHANGED units
       ELSE units' = Split(input.doc) /\ Checkpoint("assets")
    /\ UNCHANGED <<input, fs, first, report, canceling, expired>>

ExtractAssets ==
    /\ phase = "assets"
    /\ LET res == Extract(units, fs, AssetsBudget)
       IN  units' = res.units /\ fs' = res.fs
    /\ phase' = "render"
    /\ UNCHANGED <<input, first, report, outcome, canceling, expired>>

Render ==
    /\ phase = "render"
    /\ fs' = RenderConcepts(fs, units)
    /\ phase' = "index"
    /\ UNCHANGED <<input, units, first, report, outcome, canceling, expired>>

BundleTitle == Or(input.doc.title, input.name)

WriteIndex ==
    /\ phase = "index"
    /\ fs' = Put(fs, IndexPath, Index(BundleTitle, input.name, units))
    /\ Checkpoint("log")
    /\ UNCHANGED <<input, units, first, report, canceling, expired>>

\* The first validation, over a log whose verdict is still pending.
ValidateDraft ==
    /\ phase = "log"
    /\ fs' = Put(fs, LogPath, Log(input.name, units, {}))
    /\ first' = Run(fs')
    /\ phase' = "validate"
    /\ UNCHANGED <<input, units, report, outcome, canceling, expired>>

\* OKF_FAULT_INJECT, for demonstrations: a file is removed from the complete bundle.
Inject(files) ==
    CASE input.inject = "drop_index" -> Delete(files, IndexPath)
      [] input.inject = "drop_log" -> Delete(files, LogPath)
      [] OTHER -> files

FixedPointError == Error("PLT-VAL-001", NoPath)

\* The same rules again, over the bytes to publish; a fixed point is only demanded
\* when nothing was removed on purpose.
SecondReport(files) ==
    LET second == Run(files)
    IN  IF input.inject = "" /\ ~SameCodes(first, second)
        THEN Report(second.findings \cup {FixedPointError}, second.score)
        ELSE second

\* TotalBytes, in blocks.
BundleSize(files) ==
    FoldSet(LAMBDA p, n : n + (IF IsMarkdown(p) THEN 1 + Len(Data(files, p).body) ELSE Data(files, p)),
            0, DOMAIN files.files)

\* The final log, the fault injection, the second validation and the size limit.
ValidateFinal ==
    /\ phase = "validate"
    /\ fs' = Inject(Put(fs, LogPath, Log(input.name, units, first.findings)))
    /\ report' = SecondReport(fs')
    /\ Return(IF MaxBundle > 0 /\ BundleSize(fs') > MaxBundle THEN "bundle_too_large" ELSE "converted")
    /\ UNCHANGED <<input, units, first, canceling, expired>>

RequestCancel ==
    /\ canceling = "never" /\ input.hurried
    /\ phase # "done"
    /\ canceling' = phase
    /\ UNCHANGED <<phase, input, units, fs, first, report, outcome, expired>>

Timeout ==
    /\ expired = "never" /\ input.hurried
    /\ phase # "done"
    /\ expired' = phase
    /\ UNCHANGED <<phase, input, units, fs, first, report, outcome, canceling>>

Step == Parse \/ Segment \/ ExtractAssets \/ Render \/ WriteIndex \/ ValidateDraft \/ ValidateFinal

ConversionNext == Step \/ RequestCancel \/ Timeout

ConversionSpec == ConversionInit /\ [][ConversionNext]_vars

-----------------------------------------------------------------------------
(* Properties.                                                               *)

\* segment.Split promises that no content is lost: one after another the units are
\* the document, but for what stands before the first cut when that holds no prose.
\* Their files have different names and no unit passes MAX_UNITS.
UnitsKeepTheProse ==
    phase = "assets" =>
        LET kept == FlattenSeq([k \in DOMAIN units |-> units[k].blocks])
            lost == Len(input.doc.blocks) - Len(kept)
        IN  /\ IsSuffix(kept, input.doc.blocks)
            /\ ~HasProse(SubSeq(input.doc.blocks, 1, lost))
            /\ \A k, m \in DOMAIN units : units[k].path = units[m].path => k = m
            /\ MaxUnits > 0 => Len(units) <= MaxUnits

Converted == outcome = "converted"

\* What the author of a title linked to is not one of the files the titles are given,
\* nor is what the title of the document or its name link to a file of the bundle.
TitlesLeadOut ==
    /\ \A k, m \in DOMAIN units : \A l \in ToSet(units[k].title.links) : l.path # units[m].path
    /\ \A l \in ToSet(input.name.links \o BundleTitle.links) : ~Has(fs, l.path)

\* What the validator lets through can be walked: the concepts are the units in the
\* order of the document, and, if the links inside the titles lead out, the links found
\* in the index are their files in that order and the navigation of every concept leads
\* to its neighbours.
PublishableIsNavigable ==
    Converted =>
        /\ Concepts(fs) = [k \in DOMAIN units |-> units[k].path]
        /\ TitlesLeadOut /\ Publishable(report.findings) =>
              /\ TocLinks(fs) = [k \in DOMAIN units |-> FileLink(units[k].path)]
              /\ \A k \in DOMAIN units : \A m \in {k - 1, k + 1} \cap DOMAIN units :
                    FileLink(units[m].path) \in ToSet(MatchesAll(Data(fs, units[k].path).nav))

\* rewriteAnchors: when the slugs of the headings of the document are all different, and
\* none is the anchor that a later unit got, a link of a paragraph or a list to a heading
\* is written as a link to the file where that heading is, whatever way the document was
\* cut. Nothing can be linked to a heading without text.
AnchorsLand ==
    LET blocks == input.doc.blocks
        names(b, slug) == IsHeading(b) /\ b.text # NoText /\ b.text.slug = slug
        holds(k, slug) == \E i \in DOMAIN units[k].blocks : names(units[k].blocks[i], slug)
        links(body, i) == body[i].text.links
        lands(link, k, m) ==
            IF k = m THEN link ELSE Link("file", units[m].path, link.frag, {})
    IN  /\ Converted
        /\ \A i, j \in DOMAIN blocks : \A slug \in {blocks[i].text.slug} :
              names(blocks[i], slug) /\ names(blocks[j], slug) => i = j
        /\ \A j, k \in DOMAIN units : j < k => ~holds(j, units[k].anchor)
        => \A k, m \in DOMAIN units : \A i \in DOMAIN Body(units[k]) :
              Body(units[k])[i].kind \in {"paragraph", "list"} =>
                  \A n \in DOMAIN links(Body(units[k]), i) :
                      LET link == links(Body(units[k]), i)[n]
                      IN  link.kind = "anchor" /\ holds(m, link.frag) =>
                              links(Data(fs, units[k].path).body, i)[n] = lands(link, k, m)

\* The assets of a bundle fit in ASSETS_MAX_BYTES. They are the files shown by the images
\* whose bytes were taken out; every other image is as the parser delivered it.
AssetsAccountedFor ==
    Converted =>
        LET given == Split(input.doc)
            images == ToSet(BlocksOf(given))
            taken == {at \in images : ImageAt(given, at).data # 0 /\ ImageAt(units, at).data = 0}
        IN  /\ SumFunction([p \in Assets(fs) |-> Data(fs, p)]) <= AssetsBudget
            /\ Assets(fs) = {ImageAt(units, at).url.path : at \in taken}
            /\ \A at \in images \ taken : ImageAt(units, at) = ImageAt(given, at)

\* Why a bundle is refused: a file was removed on purpose; a title that the index
\* cannot hold (with a link, a closing bracket, or the comment that ends the index); a
\* link in the title or the name of the document, after the comment that begins it; a
\* title, a name or the target of a link that the log cuts in the middle of a character;
\* or a text that is not UTF-8.  Nothing else that a document contains makes its bundle
\* invalid, and each of these does, unless a title links to a file of the bundle.
BreaksTheIndex(title) == title.links # <<>> \/ "bracket" \in title.marks \/ "close" \in title.marks
CutInTheLog ==
    \/ "wide" \in input.name.marks
    \/ \E k \in DOMAIN units : "wide" \in units[k].title.marks
    \/ \E f \in first.findings : f.severity = "warning" /\ "wide" \in f.target.marks
BadBytes ==
    \/ "broken" \in input.name.marks \cup input.doc.title.marks
    \/ \E k \in DOMAIN units : \/ "broken" \in units[k].title.marks
                              \/ \E b \in ToSet(Body(units[k])) : "broken" \in MarksOf(b)
CauseOfRefusal ==
    \/ input.inject # ""
    \/ \E k \in DOMAIN units : BreaksTheIndex(units[k].title)
    \/ EarlyLinks(BundleTitle, input.name) # <<>>
    \/ CutInTheLog
    \/ BadBytes

InvalidHasACause ==
    Converted =>
        /\ report.verdict = "invalid" => CauseOfRefusal
        /\ CauseOfRefusal /\ TitlesLeadOut => report.verdict = "invalid"

\* The OKF score of a bundle the pipeline wrote is 100 unless a line of the author's text
\* reads as a second H1; his text, a description, an address, a title or, in the index,
\* the name of the source holds raw HTML; no image shows an asset under a description
\* that the expression of the validator can read; or the log was removed.  The index may
\* be missing.  (Texts that themselves link to an asset are left aside.)
Unreadable(alt) == alt.links # <<>> \/ "bracket" \in alt.marks
ScoreExplained ==
    LET bodies == UNION {ToSet(Data(fs, units[k].path).body) : k \in DOMAIN units}
        titles == {units[k].title : k \in DOMAIN units}
                  \cup (IF Has(fs, IndexPath) THEN {BundleTitle, input.name} ELSE {})
    IN  /\ Converted
        /\ \A t \in titles : \A l \in ToSet(t.links) : l.path.dir # "assets"
        /\ \A b \in bodies : \A l \in ToSet(b.text.links) \cup ToSet(b.image.alt.links) : l.path.dir # "assets"
        => (report.score = 100 <=>
                /\ ~\E b \in bodies : IsH1(b) \/ "html" \in MarksOf(b)
                /\ ~\E t \in titles : "html" \in t.marks
                /\ \A p \in Assets(fs) : \E b \in bodies :
                        b.image.url.path = p /\ ~Unreadable(b.image.alt)
                /\ input.inject # "drop_log")

\* A cancellation, or an expired context, that comes before the last checkpoint never
\* gives a candidate; one that comes later is left to the statement that publishes.
CancelInTime == Converted => {canceling, expired} \subseteq {"never", "log", "validate"}
=============================================================================
