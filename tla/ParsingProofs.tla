--------------------------- MODULE ParsingProofs ---------------------------
(* The properties of the parsers for every source: whatever an author writes  *)
(* with any vocabulary, in any of the five formats, whatever the styles and   *)
(* the images of its document are.                                            *)
(*                                                                           *)
(* The argument is the same for the five. Words are positions of the source,  *)
(* so a word that is read now is behind all the others; ParsingInv says that  *)
(* the blocks already written are in order (Doc) and that the words each      *)
(* parser is holding are in order behind them (Pending), which is what every  *)
(* parser must take care of when it flushes, drops or merges what it holds.   *)
(* Whether a heading was marked is settled while its element is open          *)
(* (Lawful), because what is around a token never changes. Each format adds   *)
(* what it knows of its own variables: LinesOK, MarkdownOK, DocxOK, HtmlOK.   *)
(*                                                                           *)
(* That nothing else is lost takes an invariant of its own. LossInv says of   *)
(* every token that was read where its words are: in a block, held by the     *)
(* parser, or dropped for a reason that is seen already and that nothing read *)
(* later takes back. At the end of the source the parsers hold nothing.       *)
EXTENDS ParsingInvariants, FiniteSetTheorems, SequenceTheorems, TLAPS

---------------------------------------------------------------------------
(* The level of a style *)

\* Of the numbers with some property one is the least.
LEMMA LeastNumber ==
    ASSUME NEW T, T \subseteq Nat, T # {}
    PROVE  \E n \in T : \A m \in T : n <= m
<1>1. PICK n \in T : \A m \in T : <<m, n>> \notin OpToRel(<, Nat)
  BY NatLessThanWellFounded, WFMin
<1>2. \A m \in T : ~(m < n)
  BY <1>1 DEF OpToRel
<1>3. QED
  BY <1>2

\* What Climb is for one number of steps, given what it is for one less.
Climbed(before, left) ==
    [s \in Bases |->
        IF s = "" \/ left = 0 THEN 0
        ELSE IF ~Kept(s) THEN Styles[s].id
        ELSE IF StyleLevel(Styles[s]) > 0 THEN StyleLevel(Styles[s])
        ELSE before[Styles[s].basedOn]]

\* It gives levels, if it gave levels a step before.
LEMMA ClimbedLevel ==
    ASSUME NEW before, NEW left \in Nat, left > 0 => before \in [Bases -> 0..9]
    PROVE  Climbed(before, left) \in [Bases -> 0..9]
<1>1. ASSUME NEW s \in DOMAIN Styles PROVE StyleLevel(Styles[s]) \in 0..9
  <2>1. PICK o \in Int, i \in 0..9, n \in 0..9 :
           Styles[s].outline = o /\ Styles[s].id = i /\ Styles[s].name = n
    BY StylesAssumption
  <2>2. StyleLevel(Styles[s]) = IF o \in 0..8 THEN o + 1 ELSE IF i > 0 THEN i ELSE n
    BY <2>1 DEF StyleLevel
  <2>3. QED
    BY <2>2
<1>2. ASSUME NEW s \in DOMAIN Styles, left > 0 PROVE before[Styles[s].basedOn] \in 0..9
  BY <1>2, StylesAssumption DEF Bases
<1>3. ASSUME NEW s \in Bases PROVE Climbed(before, left)[s] \in 0..9
  <2> DEFINE level == IF s = "" \/ left = 0 THEN 0
                      ELSE IF ~Kept(s) THEN Styles[s].id
                      ELSE IF StyleLevel(Styles[s]) > 0 THEN StyleLevel(Styles[s])
                      ELSE before[Styles[s].basedOn]
  <2>1. Climbed(before, left)[s] = level
    BY DEF Climbed
  <2>2. s = "" \/ s \in DOMAIN Styles
    BY DEF Bases
  <2>3. 0 \in 0..9 /\ (left # 0 => left > 0)
    OBVIOUS
  <2>4. s # "" => Styles[s].id \in 0..9
    BY <2>2, StylesAssumption
  <2>5. level \in 0..9
    BY <1>1, <1>2, <2>2, <2>3, <2>4, Zenon
  <2>6. QED
    BY <2>1, <2>5
<1>4. DOMAIN Climbed(before, left) = Bases /\ Climbed(before, left) = [s \in Bases |-> Climbed(before, left)[s]]
  BY DEF Climbed
<1>5. QED
  BY <1>3, <1>4

Solves(f, n) == /\ f \in [0..n -> [Bases -> 0..9]]
                /\ \A left \in 0..n : f[left] = Climbed(f[left - 1], left)

\* So it can be solved for any number of steps,
LEMMA ClimbExists == ASSUME NEW n \in Nat PROVE \E f : Solves(f, n)
<1> DEFINE Unsolved == {m \in Nat : \A f : ~Solves(f, m)}
<1> SUFFICES ASSUME Unsolved # {} PROVE FALSE
  OBVIOUS
<1>1. PICK m \in Unsolved : \A k \in Unsolved : m <= k
  BY LeastNumber, Unsolved \subseteq Nat
<1>2. CASE m = 0
  <2> DEFINE f == [left \in 0..0 |-> Climbed(left, 0)]
  <2>1. \A b : Climbed(b, 0) = Climbed(0, 0)
    BY Zenon DEF Climbed
  <2>2. Climbed(0, 0) \in [Bases -> 0..9]
    BY ClimbedLevel, 0 \in Nat, ~(0 > 0)
  <2>3. Solves(f, 0)
    BY <2>1, <2>2 DEF Solves
  <2>4. QED
    BY <1>1, <1>2, <2>3
<1>3. CASE m > 0
  <2>1. m \in Nat /\ m - 1 \in Nat /\ m - 1 \notin Unsolved
    BY <1>1, <1>3
  <2>2. PICK g : Solves(g, m - 1)
    BY <2>1
  <2> DEFINE f == [left \in 0..m |-> IF left = m THEN Climbed(g[m - 1], m) ELSE g[left]]
  <2>3. Climbed(g[m - 1], m) \in [Bases -> 0..9]
    BY <1>3, <2>1, <2>2, ClimbedLevel DEF Solves
  <2>4. f \in [0..m -> [Bases -> 0..9]]
    BY <1>3, <2>1, <2>2, <2>3 DEF Solves
  <2>5. ASSUME NEW left \in 0..m PROVE f[left] = Climbed(f[left - 1], left)
    <3>1. CASE left = m
      BY <1>3, <2>1, <3>1
    <3>2. CASE left = 0
      <4>1. f[0] = g[0] /\ g[0] = Climbed(g[0 - 1], 0)
        BY <1>3, <2>1, <2>2 DEF Solves
      <4>2. Climbed(g[0 - 1], 0) = Climbed(f[0 - 1], 0)
        BY Zenon DEF Climbed
      <4>3. QED
        BY <3>2, <4>1, <4>2
    <3>3. CASE left \in 1..(m - 1)
      BY <1>3, <2>1, <2>2, <3>3 DEF Solves
    <3>4. QED
      BY <2>1, <3>1, <3>2, <3>3
  <2>6. QED
    BY <1>1, <2>4, <2>5 DEF Solves
<1>4. QED
  BY <1>1, <1>2, <1>3

\* and Climb is such a solution.
LEMMA ClimbIs == Climb = [left \in 0..StyleCount |-> Climbed(Climb[left - 1], left)]
<1>1. StyleCount \in Nat
  BY StylesAssumption, FS_CardinalityType DEF StyleCount
<1>2. PICK f : Solves(f, StyleCount)
  BY <1>1, ClimbExists
<1>3. f = [left \in 0..StyleCount |-> Climbed(f[left - 1], left)]
  BY <1>2 DEF Solves
<1>4. QED
  BY <1>3 DEF Climb, Climbed, Bases

\* A style has no level, or one of the nine of Word.
LEMMA LevelForRange == ASSUME NEW style \in Bases PROVE LevelFor(style) \in 0..9
<1>1. StyleCount \in Nat
  BY StylesAssumption, FS_CardinalityType DEF StyleCount
<1> DEFINE Wild == {n \in Nat : n <= StyleCount /\ Climb[n] \notin [Bases -> 0..9]}
<1>2. ASSUME NEW n \in Wild, \A k \in Wild : n <= k PROVE FALSE
  <2>1. n \in 0..StyleCount /\ Climb[n] = Climbed(Climb[n - 1], n)
    BY <1>1, ClimbIs
  <2>2. n > 0 => Climb[n - 1] \in [Bases -> 0..9]
    BY <1>1, <1>2
  <2>3. QED
    BY <1>1, <2>1, <2>2, ClimbedLevel
<1>3. Wild = {}
  BY <1>2, LeastNumber, Wild \subseteq Nat
<1>4. Climb[StyleCount] \in [Bases -> 0..9]
  BY <1>1, <1>3
<1>5. QED
  BY <1>4 DEF LevelFor

---------------------------------------------------------------------------
(* Documents *)

\* More tokens do not hurt.
LEMMA DocWider ==
    ASSUME NEW f, NEW n \in Nat, NEW m \in Nat, n <= m, NEW bs, Doc(f, n, bs)
    PROVE  Doc(f, m, bs)
<1>1. ASSUME NEW k \in DOMAIN bs PROVE Fits(m, bs[k])
  <2>1. Fits(n, bs[k])
    BY DEF Doc
  <2>2. QED
    BY <2>1 DEF Fits, Upto, BlockRec
<1>2. QED
  BY <1>1 DEF Doc

\* A block that fits, behind the others, makes a document with them.
LEMMA DocAppend ==
    ASSUME NEW f, NEW n \in Nat, NEW bs, Doc(f, n, bs), NEW b, Fits(n, b), Behind(f, bs, b)
    PROVE  Doc(f, n, Append(bs, b))
<1> DEFINE cs == Append(bs, b)
<1>1. bs \in Seq(BlockRec) /\ b \in BlockRec
  BY DEF Doc, Fits
<1>2. /\ cs \in Seq(BlockRec) /\ Len(cs) = Len(bs) + 1 /\ DOMAIN cs = 1..(Len(bs) + 1)
      /\ Len(bs) \in Nat /\ DOMAIN bs = 1..Len(bs)
      /\ \A k \in 1..Len(bs) : cs[k] = bs[k]
      /\ cs[Len(bs) + 1] = b
  BY <1>1
<1> HIDE DEF cs
<1>3. ASSUME NEW k \in DOMAIN cs PROVE Fits(n, cs[k])
  BY <1>2 DEF Doc
<1>4. ASSUME NEW k \in DOMAIN cs, NEW l \in DOMAIN cs, k < l PROVE InOrder(f, cs[k], cs[l])
  BY <1>2, <1>4 DEF Doc, Behind
<1>5. QED
  BY <1>2, <1>3, <1>4 DEF Doc, cs

---------------------------------------------------------------------------
(* Titles *)

\* Min is the least member of a set of numbers.
LEMMA MinIs ==
    ASSUME NEW S, S \subseteq Nat, S # {}
    PROVE  Min(S) \in S /\ \A m \in S : Min(S) <= m
  BY LeastNumber DEF Min

\* A block added at the end is the first of its kind only if there is no other.
LEMMA FirstAppend ==
    ASSUME NEW bs \in Seq(BlockRec), NEW b \in BlockRec, NEW ks, NEW ls, ks \subseteq DOMAIN bs,
           ls = ks \/ ls = ks \cup {Len(bs) + 1}
    PROVE  FirstOf(Append(bs, b), ls) =
              IF ks # {} \/ ls = ks THEN FirstOf(bs, ks) ELSE b.words
<1>1. /\ Len(bs) \in Nat /\ DOMAIN bs = 1..Len(bs)
      /\ \A k \in 1..Len(bs) : Append(bs, b)[k] = bs[k]
      /\ Append(bs, b)[Len(bs) + 1] = b
  OBVIOUS
<1>2. CASE ks = {} /\ ls = ks
  BY <1>2 DEF FirstOf
<1>3. CASE ks = {} /\ ls # ks
  <2>1. ls = {Len(bs) + 1}
    BY <1>3
  <2>2. Min(ls) \in ls
    BY <1>1, <2>1, MinIs
  <2>3. QED
    BY <1>1, <1>3, <2>1, <2>2 DEF FirstOf
<1>4. CASE ks # {}
  <2>1. ls # {} /\ ls \subseteq Nat /\ ks \subseteq Nat
    BY <1>1, <1>4
  <2>2. Min(ks) \in ks /\ \A m \in ks : Min(ks) <= m
    BY <1>4, <2>1, MinIs
  <2>3. Min(ls) \in ls /\ \A m \in ls : Min(ls) <= m
    BY <2>1, MinIs
  <2>4. Min(ls) = Min(ks)
    BY <1>1, <1>4, <2>1, <2>2, <2>3
  <2>5. QED
    BY <1>1, <1>4, <2>1, <2>2, <2>4 DEF FirstOf
<1>5. QED
  BY <1>2, <1>3, <1>4

\* While the source is read the document has a title once it has a heading of level 1.
LEMMA TitleSome ==
    ASSUME NEW f, NEW n, NEW bs, Doc(f, n, bs), NEW t, TitleOf(bs, t)
    PROVE  t = <<>> <=> Ones(bs) = {}
<1>1. bs \in Seq(BlockRec) /\ Ones(bs) \subseteq DOMAIN bs
  BY DEF Doc, Ones
<1>2. CASE Ones(bs) # {}
  <2>1. Min(Ones(bs)) \in Ones(bs)
    BY <1>1, <1>2, MinIs
  <2>2. bs[Min(Ones(bs))].words # <<>>
    BY <2>1 DEF Ones, Doc, Fits
  <2>3. QED
    BY <1>2, <2>2 DEF TitleOf, FirstOf
<1>3. QED
  BY <1>2 DEF TitleOf, FirstOf

\* A block added at the end becomes the title if it is the first heading of level 1.
LEMMA TitleAppend ==
    ASSUME NEW f, NEW n \in Nat, NEW bs, Doc(f, n, bs), NEW t, TitleOf(bs, t),
           NEW b, Fits(n, b)
    PROVE  TitleOf(Append(bs, b),
                   IF b.kind = "heading" /\ b.level = 1 /\ t = <<>> THEN b.words ELSE t)
<1>1. bs \in Seq(BlockRec) /\ b \in BlockRec
  BY DEF Doc, Fits
<1>2. Ones(Append(bs, b)) = IF b.kind = "heading" /\ b.level = 1
                            THEN Ones(bs) \cup {Len(bs) + 1} ELSE Ones(bs)
  BY <1>1 DEF Ones
<1>3. Ones(bs) \subseteq DOMAIN bs /\ Len(bs) + 1 \notin Ones(bs)
  BY <1>1 DEF Ones
<1>4. t = <<>> <=> Ones(bs) = {}
  BY TitleSome
<1>5. QED
  BY <1>1, <1>2, <1>3, <1>4, FirstAppend DEF TitleOf

\* A block that is no heading changes neither title.
LEMMA PlainAppend ==
    ASSUME NEW bs \in Seq(BlockRec), NEW b \in BlockRec, b.kind # "heading"
    PROVE  /\ Heads(Append(bs, b)) = Heads(bs) /\ Ones(Append(bs, b)) = Ones(bs)
           /\ FirstOf(Append(bs, b), Heads(bs)) = FirstOf(bs, Heads(bs))
           /\ FirstOf(Append(bs, b), Ones(bs)) = FirstOf(bs, Ones(bs))
<1>1. Heads(Append(bs, b)) = Heads(bs) /\ Heads(bs) \subseteq DOMAIN bs
  BY DEF Heads
<1>2. Ones(Append(bs, b)) = Ones(bs) /\ Ones(bs) \subseteq DOMAIN bs
  BY DEF Ones
<1>3. QED
  BY <1>1, <1>2, FirstAppend

---------------------------------------------------------------------------
(* Words that wait for their block *)

\* No words are in order anywhere.
LEMMA NothingPending ==
    ASSUME NEW f, NEW n, NEW bs, NEW kind
    PROVE  Pending(f, n, bs, kind, <<>>)
  BY DEF Pending, Increasing, Upto, Behind, InOrder, Precedes, Block

\* What waits after n tokens still does after more of them.
LEMMA PendingWider ==
    ASSUME NEW f, NEW n \in Nat, NEW m \in Nat, n <= m, NEW bs, NEW kind, NEW w,
           Pending(f, n, bs, kind, w)
    PROVE  Pending(f, m, bs, kind, w)
  BY DEF Pending, Upto

\* One more word, the token that is being read.
LEMMA PendingMore ==
    ASSUME NEW f, NEW n \in Nat, NEW bs, Doc(f, n, bs), NEW kind, NEW w,
           Pending(f, n, bs, kind, w)
    PROVE  Pending(f, n + 1, bs, kind, Append(w, n + 1))
<1> DEFINE v == Append(w, n + 1)
<1>1. /\ v \in Seq(Nat) /\ DOMAIN v = 1..(Len(w) + 1) /\ Len(w) \in Nat /\ DOMAIN w = 1..Len(w)
      /\ \A i \in 1..Len(w) : v[i] = w[i] /\ w[i] \in 1..n
      /\ v[Len(w) + 1] = n + 1
  BY DEF Pending, Upto
<1> HIDE DEF v
<1>2. ASSUME NEW i \in DOMAIN v, NEW j \in DOMAIN v, i < j PROVE v[i] < v[j]
  <2>1. CASE j = Len(w) + 1
    BY <1>1, <1>2, <2>1
  <2>2. CASE j # Len(w) + 1
    <3>1. i \in DOMAIN w /\ j \in DOMAIN w
      BY <1>1, <1>2, <2>2
    <3>2. w[i] < w[j]
      BY <1>2, <3>1 DEF Pending, Increasing
    <3>3. QED
      BY <1>1, <3>1, <3>2
  <2>3. QED
    BY <2>1, <2>2
<1>5. ASSUME NEW i \in DOMAIN v PROVE v[i] \in 1..(n + 1)
  BY <1>1
<1>3. ASSUME NEW k \in DOMAIN bs PROVE InOrder(f, bs[k], Block(kind, 0, v))
  <2>1. InOrder(f, bs[k], Block(kind, 0, w)) /\ Upto(n, bs[k].words)
    BY DEF Pending, Behind, Doc, Fits
  <2>2. CASE Apart(f, bs[k], Block(kind, 0, w))
    BY <2>2 DEF Apart, InOrder, Block
  <2>3. CASE Precedes(bs[k].words, w)
    <3>1. Precedes(bs[k].words, v)
      BY <1>1, <2>1, <2>3 DEF Precedes, Upto
    <3>2. QED
      BY <3>1 DEF InOrder, Block
  <2>4. QED
    BY <2>1, <2>2, <2>3 DEF InOrder, Block
<1>4. QED
  BY <1>1, <1>2, <1>3, <1>5 DEF Pending, Behind, Increasing, Upto, v

\* The same blocks by another name, or words for a block of another kind: only the
\* images of a DOCX are apart.
LEMMA PendingFor ==
    ASSUME NEW f, NEW n, NEW bs, NEW kind, NEW other, NEW level, NEW w,
           Pending(f, n, bs, kind, w),
           f = "docx" => (kind = "image") = (other = "image")
    PROVE  Behind(f, bs, Block(other, level, w)) /\ Pending(f, n, bs, other, w)
  BY DEF Pending, Behind, InOrder, Apart, Block

\* Blocks added at the end, none of them a heading.
SameHeads(bs, cs) ==
    /\ \A k \in DOMAIN cs : cs[k].kind = "heading" => k \in DOMAIN bs /\ cs[k] = bs[k]
    /\ FirstOf(cs, Heads(cs)) = FirstOf(bs, Heads(bs))
    /\ FirstOf(cs, Ones(cs)) = FirstOf(bs, Ones(bs))
    /\ (Heads(cs) = {}) = (Heads(bs) = {}) /\ (Ones(cs) = {}) = (Ones(bs) = {})

\* A block that is no heading, added at the end, leaves the headings as they were.
LEMMA PlainSameHeads ==
    ASSUME NEW bs \in Seq(BlockRec), NEW b \in BlockRec, b.kind # "heading"
    PROVE  SameHeads(bs, Append(bs, b))
<1>1. \A k \in DOMAIN Append(bs, b) : Append(bs, b)[k].kind = "heading" =>
         k \in DOMAIN bs /\ Append(bs, b)[k] = bs[k]
  OBVIOUS
<1>2. QED
  BY <1>1, PlainAppend DEF SameHeads

\* Two ways to add a block at the end.
LEMMA AppendConcat ==
    ASSUME NEW bs \in Seq(BlockRec), NEW b \in BlockRec
    PROVE  bs \o <<b>> = Append(bs, b)
  OBVIOUS

\* The paragraph that is flushed.
LEMMA DocParagraph ==
    ASSUME NEW f, NEW n \in Nat, NEW bs, Doc(f, n, bs), NEW w,
           Pending(f, n, bs, "paragraph", w)
    PROVE  Doc(f, n, bs \o Paragraph(w)) /\ SameHeads(bs, bs \o Paragraph(w))
<1>1. bs \in Seq(BlockRec) /\ bs \o <<>> = bs
  BY DEF Doc
<1>2. CASE w = <<>>
  BY <1>1, <1>2 DEF Paragraph, SameHeads
<1>3. CASE w # <<>>
  <2> DEFINE b == Block("paragraph", 0, w)
  <2>1. Fits(n, b)
    BY DEF Pending, Fits, Block, BlockRec, Kinds
  <2>2. Behind(f, bs, b)
    BY DEF Pending
  <2>3. bs \o Paragraph(w) = Append(bs, b)
    BY <1>1, <1>3, <2>1, AppendConcat DEF Paragraph, Fits
  <2>4. b \in BlockRec /\ b.kind # "heading"
    BY <2>1 DEF Fits, Block
  <2>5. QED
    BY <1>1, <2>1, <2>2, <2>3, <2>4, DocAppend, PlainSameHeads
<1>4. QED
  BY <1>2, <1>3

---------------------------------------------------------------------------
(* Sources *)

\* s is r, and perhaps more.
Grows(r, s) == /\ r \in Seq(Elements) /\ s \in Seq(Elements) /\ Len(r) <= Len(s)
               /\ \A i \in DOMAIN r : s[i] = r[i]

\* Marked of the model is MarkedIn of the source read so far.
LEMMA MarkedIs ==
    ASSUME format \in {"docx", "html", "markdown", "text", "pdf"}, NEW i
    PROVE  Marked(i) <=> MarkedIn(format, read, i)
<1>1. \A j : ToSet(read[j].inside) = Inside(read, j)
  BY DEF ToSet, Inside
<1>2. QED
  BY <1>1 DEF Marked, MarkedIn, Around, Has, Tag

\* A token that is marked stays marked when more of the source is read.
LEMMA MarkedGrows ==
    ASSUME NEW f, f \in {"docx", "html", "markdown", "text", "pdf"},
           NEW r, NEW s, Grows(r, s), Rooted(r), NEW i \in DOMAIN r, MarkedIn(f, r, i)
    PROVE  MarkedIn(f, s, i)
<1>1. /\ DOMAIN r = 1..Len(r) /\ DOMAIN s = 1..Len(s) /\ Len(r) \in Nat /\ Len(s) \in Nat
      /\ \A j \in DOMAIN r : j \in DOMAIN s
  BY DEF Grows
<1>2. ASSUME NEW j \in DOMAIN r
      PROVE  Inside(s, j) = Inside(r, j) /\ \A e \in Inside(r, j) : e \in DOMAIN r /\ s[e] = r[e]
  BY DEF Grows, Inside, Rooted
<1>3. CASE f = "docx"
  <2>1. PICK q \in DOMAIN r : /\ r[q].tag \in {"style", "outline"}
                              /\ \E p \in Inside(r, q) \cap Inside(r, i) : r[p].tag = "p"
    BY <1>3 DEF MarkedIn
  <2>2. PICK p \in Inside(r, q) \cap Inside(r, i) : r[p].tag = "p"
    BY <2>1
  <2>3. s[p].tag = "p" /\ s[q] = r[q]
    BY <1>2, <2>2 DEF Grows
  <2>4. p \in Inside(s, q) \cap Inside(s, i) /\ q \in DOMAIN s
    BY <1>1, <1>2, <2>2
  <2>5. QED
    BY <1>3, <2>1, <2>3, <2>4 DEF MarkedIn
<1>4. CASE f = "html"
  BY <1>2, <1>4 DEF MarkedIn
<1>5. CASE f = "markdown"
  BY <1>2, <1>5 DEF MarkedIn
<1>6. CASE f = "text"
  <2>1. s[i] = r[i]
    BY DEF Grows
  <2>2. CASE r[i].tag \in {"numbered", "capitals"}
    BY <1>6, <2>1, <2>2 DEF MarkedIn
  <2>3. CASE i < Len(r) /\ r[i + 1].tag = "underline"
    <3>1. i + 1 \in DOMAIN r /\ i < Len(s)
      BY <1>1, <2>3 DEF Grows
    <3>2. s[i + 1] = r[i + 1]
      BY <3>1 DEF Grows
    <3>3. QED
      BY <1>6, <2>3, <3>1, <3>2 DEF MarkedIn
  <2>4. QED
    BY <1>6, <2>2, <2>3 DEF MarkedIn
<1>7. CASE f = "pdf"
  <2>1. PICK k \in DOMAIN r : r[k].tag = "other" /\ r[i].arg > r[k].arg
    BY <1>7 DEF MarkedIn
  <2>2. s[i] = r[i] /\ s[k] = r[k] /\ k \in DOMAIN s
    BY <1>1 DEF Grows
  <2>3. QED
    BY <1>7, <2>1, <2>2 DEF MarkedIn
<1>8. QED
  BY <1>3, <1>4, <1>5, <1>6, <1>7

---------------------------------------------------------------------------
(* What is written of a source *)

\* So a block that was lawful stays lawful,
LEMMA LawfulGrows ==
    ASSUME NEW f, f \in {"docx", "html", "markdown", "text", "pdf"},
           NEW r, NEW s, Grows(r, s), Rooted(r), NEW b, Upto(Len(r), b.words), Lawful(f, r, b)
    PROVE  Lawful(f, s, b)
<1>1. ASSUME NEW i \in DOMAIN b.words PROVE b.words[i] \in DOMAIN r /\ s[b.words[i]] = r[b.words[i]]
  BY DEF Grows, Upto
<1>2. ASSUME NEW i \in DOMAIN b.words, b.kind = "heading", ReadableFonts
      PROVE  MarkedIn(f, s, b.words[i])
  <2>1. MarkedIn(f, r, b.words[i])
    BY <1>2 DEF Lawful
  <2>2. QED
    BY <1>1, <2>1, MarkedGrows
<1>3. QED
  BY <1>1, <1>2 DEF Lawful

\* and a document that was good stays good.
LEMMA GoodGrows ==
    ASSUME NEW f, f \in {"docx", "html", "markdown", "text", "pdf"},
           NEW r, NEW s, Grows(r, s), Rooted(r), NEW bs, Good(f, r, bs)
    PROVE  Good(f, s, bs)
<1>1. Len(r) \in Nat /\ Len(s) \in Nat /\ Len(r) <= Len(s)
  BY DEF Grows
<1>2. Doc(f, Len(s), bs)
  BY <1>1, DocWider DEF Good
<1>3. ASSUME NEW k \in DOMAIN bs PROVE Lawful(f, s, bs[k])
  <2>1. Upto(Len(r), bs[k].words) /\ Lawful(f, r, bs[k])
    BY DEF Good, Doc, Fits
  <2>2. QED
    BY <2>1, LawfulGrows
<1>4. QED
  BY <1>2, <1>3 DEF Good

\* A good document with one more lawful block is good.
LEMMA GoodAppend ==
    ASSUME NEW f, NEW r, Len(r) \in Nat, NEW bs, Good(f, r, bs),
           NEW b, Fits(Len(r), b), Behind(f, bs, b), Lawful(f, r, b)
    PROVE  Good(f, r, Append(bs, b)) /\ bs \in Seq(BlockRec) /\ b \in BlockRec
<1>1. bs \in Seq(BlockRec) /\ b \in BlockRec
  BY DEF Good, Doc, Fits
<1>2. Doc(f, Len(r), Append(bs, b))
  BY DocAppend DEF Good
<1>3. ASSUME NEW k \in DOMAIN Append(bs, b) PROVE Lawful(f, r, Append(bs, b)[k])
  <2>1. \/ k = Len(bs) + 1 /\ Append(bs, b)[k] = b
        \/ k \in DOMAIN bs /\ Append(bs, b)[k] = bs[k]
    <3>1. /\ DOMAIN Append(bs, b) = 1..(Len(bs) + 1) /\ DOMAIN bs = 1..Len(bs) /\ Len(bs) \in Nat
          /\ \A j \in 1..Len(bs) : Append(bs, b)[j] = bs[j]
          /\ Append(bs, b)[Len(bs) + 1] = b
      BY <1>1
    <3>2. k = Len(bs) + 1 \/ k \in DOMAIN bs
      BY <3>1
    <3>3. QED
      BY <3>1, <3>2
  <2>2. QED
    BY <2>1 DEF Good
<1>4. QED
  BY <1>1, <1>2, <1>3 DEF Good

\* Paragraphs are flushed by all the formats but DOCX.
LEMMA GoodParagraph ==
    ASSUME NEW f, f # "docx", NEW r, Len(r) \in Nat, NEW bs, Good(f, r, bs),
           NEW w, Pending(f, Len(r), bs, "paragraph", w)
    PROVE  Good(f, r, bs \o Paragraph(w)) /\ SameHeads(bs, bs \o Paragraph(w))
<1>2. bs \in Seq(BlockRec) /\ bs \o <<>> = bs
  BY DEF Good, Doc
<1>3. SameHeads(bs, bs \o Paragraph(w)) /\ Doc(f, Len(r), bs \o Paragraph(w))
  BY DocParagraph DEF Good
<1>4. CASE w = <<>>
  BY <1>2, <1>3, <1>4 DEF Paragraph
<1>5. CASE w # <<>>
  <2> DEFINE b == Block("paragraph", 0, w)
  <2>1. Lawful(f, r, b)
    BY DEF Lawful, Block
  <2>2. Fits(Len(r), b)
    BY DEF Pending, Fits, Block, BlockRec, Kinds
  <2>3. Behind(f, bs, b)
    BY DEF Pending
  <2>4. b \in BlockRec
    BY <2>2 DEF Fits
  <2> HIDE DEF b
  <2>5. bs \o <<b>> = Append(bs, b)
    BY <1>2, <2>4, AppendConcat
  <2>6. Good(f, r, Append(bs, b))
    BY <2>1, <2>2, <2>3, GoodAppend
  <2>7. bs \o Paragraph(w) = bs \o <<b>>
    BY <1>5 DEF Paragraph, b
  <2>8. QED
    BY <1>3, <2>5, <2>6, <2>7
<1>6. QED
  BY <1>4, <1>5

\* The titles of a document that is the same but for what is not a heading.
LEMMA SameTitle ==
    ASSUME NEW bs, NEW cs, SameHeads(bs, cs), NEW t, TitleOf(bs, t)
    PROVE  TitleOf(cs, t)
  BY DEF SameHeads, TitleOf

---------------------------------------------------------------------------
(* The invariant: what all the formats share *)

\* The form of the source and of the elements that are open, for the provers.
LEMMA FormFacts ==
    ASSUME Form
    PROVE  /\ read \in Seq(Elements) /\ Len(read) \in Nat /\ DOMAIN read = 1..Len(read)
           /\ open \in Seq(Nat) /\ Len(open) \in Nat /\ DOMAIN open = 1..Len(open)
           /\ \A i \in DOMAIN open : open[i] \in DOMAIN read
<1>1. read \in Seq(Elements) /\ open \in Seq(Nat) /\ \A i \in DOMAIN open : open[i] \in DOMAIN read
  BY DEF Form
<1>2. QED
  BY <1>1

\* Sequences that begin alike.
LEMMA SamePrefix ==
    ASSUME NEW s \in Seq(Nat), NEW t \in Seq(Nat), NEW n \in Nat, n <= Len(s), n <= Len(t),
           \A i \in 1..n : s[i] = t[i]
    PROVE  SubSeq(s, 1, n) = SubSeq(t, 1, n)
<1>1. (\A i \in 1..n : s[i] \in Nat) /\ (\A i \in 1..n : t[i] \in Nat)
  OBVIOUS
<1>2. /\ SubSeq(s, 1, n) \in Seq(Nat) /\ Len(SubSeq(s, 1, n)) = n
      /\ \A i \in 1..n : SubSeq(s, 1, n)[i] = s[i]
  BY <1>1, SubSeqProperties
<1>3. /\ SubSeq(t, 1, n) \in Seq(Nat) /\ Len(SubSeq(t, 1, n)) = n
      /\ \A i \in 1..n : SubSeq(t, 1, n)[i] = t[i]
  BY <1>1, SubSeqProperties
<1>4. QED
  BY <1>2, <1>3, SeqEqual

\* A token is written, inside the elements that are open; it may open one.
LEMMA WriteForm ==
    ASSUME Form, NEW token, Write(token), open' = open \/ Enter, UNCHANGED <<format, vocabulary>>,
           format \in Five, token.tag = "title" => format = "html" /\ read = <<>>
    PROVE  /\ Form' /\ Grows(read, read') /\ Here \in Nat /\ Here = Len(read) + 1 /\ Len(read') = Here
           /\ read'[Here] = [tag |-> token.tag, arg |-> token.arg, inside |-> open]
           /\ Inside(read', Here) = {open[j] : j \in DOMAIN open}
           /\ MayBe(format, token)
<1> DEFINE x == [tag |-> token.tag, arg |-> token.arg, inside |-> open]
<1>1. x \in Elements /\ Known(format, token)
  BY DEF Form, Write, Elements
<1>2. /\ read \in Seq(Elements) /\ Len(read) \in Nat /\ DOMAIN read = 1..Len(read)
      /\ read' = Append(read, x) /\ read' \in Seq(Elements) /\ Len(read') = Len(read) + 1
      /\ DOMAIN read' = 1..(Len(read) + 1)
      /\ \A i \in DOMAIN read : read'[i] = read[i]
      /\ read'[Len(read) + 1] = x
  BY <1>1 DEF Form, Write
<1>3. Here = Len(read) + 1 /\ Here \in Nat /\ Grows(read, read')
  BY <1>2 DEF Here, Grows
<1>4. ASSUME NEW i \in DOMAIN read' PROVE (i \in DOMAIN read /\ read'[i] = read[i]) \/ (i = Here /\ read'[i] = x)
  <2>1. i \in DOMAIN read \/ i = Len(read) + 1
    BY <1>2
  <2>2. QED
    BY <1>2, <1>3, <2>1
<1>5. x.tag = token.tag /\ x.arg = token.arg /\ x.inside = open
  OBVIOUS
<1> HIDE DEF x
<1>6. Rooted(read')
  <2>1. ASSUME NEW i \in DOMAIN read', NEW j \in DOMAIN read'[i].inside
        PROVE  read'[i].inside[j] \in DOMAIN read
    BY <1>4, <1>5, <2>1 DEF Form, Rooted
  <2>2. DOMAIN read \subseteq DOMAIN read'
    BY <1>2
  <2>3. QED
    BY <2>1, <2>2 DEF Rooted
<1>7. ASSUME NEW i \in DOMAIN read' PROVE Known(format, read'[i])
  <2>1. Known(format, x)
    BY <1>1, <1>5 DEF MayBe, Known
  <2>2. QED
    BY <1>4, <2>1 DEF Form
<1>8. ASSUME NEW i \in DOMAIN read', read'[i].tag = "title" PROVE format = "html" /\ i = 1
  <2>1. CASE i \in DOMAIN read /\ read'[i] = read[i]
    BY <1>8, <2>1 DEF Form
  <2>2. CASE i = Here /\ read'[i] = x
    <3>1. token.tag = "title"
      BY <1>5, <1>8, <2>2
    <3>2. format = "html" /\ Len(read) = 0
      BY <3>1
    <3>3. QED
      BY <1>3, <2>2, <3>2
  <2>3. QED
    BY <1>4, <2>1, <2>2
<1>9. /\ open' \in Seq(Nat)
      /\ \A i \in DOMAIN open' : open'[i] \in DOMAIN read' /\ read'[open'[i]].inside = SubSeq(open', 1, i - 1)
  <2>1. /\ open \in Seq(Nat) /\ Len(open) \in Nat /\ DOMAIN open = 1..Len(open)
        /\ \A i \in DOMAIN open : open[i] \in DOMAIN read /\ read[open[i]].inside = SubSeq(open, 1, i - 1)
    BY DEF Form
  <2>2. CASE open' = open
    BY <1>2, <2>1, <2>2
  <2>3. CASE Enter
    <3>1. /\ open' = Append(open, Here) /\ open' \in Seq(Nat) /\ DOMAIN open' = 1..(Len(open) + 1)
          /\ Len(open') = Len(open) + 1
          /\ \A i \in DOMAIN open : open'[i] = open[i]
          /\ open'[Len(open) + 1] = Here
      BY <1>3, <2>1, <2>3 DEF Enter
    <3>6. /\ Len(open) \in Nat /\ Len(open') = Len(open) + 1
          /\ DOMAIN open = 1..Len(open) /\ DOMAIN open' = 1..(Len(open) + 1)
      BY <2>1, <3>1
    <3>2. ASSUME NEW i \in 1..(Len(open) + 1) PROVE SubSeq(open', 1, i - 1) = SubSeq(open, 1, i - 1)
      <4>1. i - 1 \in Nat /\ i - 1 <= Len(open) /\ i - 1 <= Len(open') /\ \A j \in 1..(i - 1) : j \in DOMAIN open
        BY <3>6
      <4>2. QED
        BY <2>1, <3>1, <4>1, SamePrefix
    <3>3. SubSeq(open, 1, Len(open)) = open
      BY <2>1, SubSeqFull
    <3>4. ASSUME NEW i \in DOMAIN open'
          PROVE  open'[i] \in DOMAIN read' /\ read'[open'[i]].inside = SubSeq(open', 1, i - 1)
      <4>1. CASE i \in DOMAIN open
        <5>1. open'[i] = open[i] /\ open[i] \in DOMAIN read /\ read[open[i]].inside = SubSeq(open, 1, i - 1)
          BY <2>1, <3>1, <4>1
        <5>2. SubSeq(open', 1, i - 1) = SubSeq(open, 1, i - 1)
          BY <2>1, <3>2, <4>1
        <5>3. DOMAIN read \subseteq DOMAIN read' /\ read'[open[i]] = read[open[i]]
          BY <1>2, <5>1
        <5>4. QED
          BY <5>1, <5>2, <5>3
      <4>2. CASE i = Len(open) + 1
        <5>1. i - 1 = Len(open) /\ open'[i] = Here /\ read'[Here] = x /\ Here \in DOMAIN read'
          <6>1. open'[i] = Here
            BY <3>1, <4>2
          <6>2. read'[Here] = x /\ Here \in DOMAIN read'
            BY <1>2, <1>3
          <6>3. QED
            BY <2>1, <4>2, <6>1, <6>2
        <5>2. SubSeq(open', 1, i - 1) = open
          BY <3>2, <3>3, <4>2, <5>1
        <5>3. QED
          BY <1>5, <5>1, <5>2
      <4>3. i \in DOMAIN open \/ i = Len(open) + 1
        BY <3>6
      <4>4. QED
        BY <4>1, <4>2, <4>3
    <3>5. QED
      BY <3>1, <3>4
  <2>4. QED
    BY <2>2, <2>3
<1>10. Form'
  BY <1>2, <1>6, <1>7, <1>8, <1>9 DEF Form, Five
<1>11. Inside(read', Here) = {open[j] : j \in DOMAIN open}
  BY <1>2, <1>3, <1>5 DEF Inside
<1>12. QED
  BY <1>1, <1>2, <1>3, <1>10, <1>11 DEF x, Known

\* The elements around the token that is being read stay what they are.
LEMMA SameForm ==
    ASSUME Form, UNCHANGED <<format, vocabulary, read, open>>, format \in Five
    PROVE  Form' /\ Grows(read, read')
  BY DEF Form, Five, Grows

\* The element that is read is over; those around it are still open.
LEMMA LeaveForm ==
    ASSUME Form, Leave, UNCHANGED <<format, vocabulary, read>>, format \in Five
    PROVE  /\ Form' /\ Grows(read, read') /\ Len(open) \in Nat \ {0} /\ Len(open') = Len(open) - 1
           /\ \A i \in 1..(Len(open) - 1) : open'[i] = open[i]
           /\ DOMAIN open = 1..Len(open) /\ DOMAIN open' = 1..(Len(open) - 1)
           /\ Last(open) = open[Len(open)] /\ Last(open) \in DOMAIN read
<1>1. /\ open \in Seq(Nat) /\ Len(open) \in Nat \ {0} /\ DOMAIN open = 1..Len(open)
      /\ open' = SubSeq(open, 1, Len(open) - 1)
  BY DEF Form, Leave, Front
<1>2. /\ open' \in Seq(Nat) /\ Len(open') = Len(open) - 1 /\ DOMAIN open' = 1..(Len(open) - 1)
      /\ \A i \in 1..(Len(open) - 1) : open'[i] = open[i]
  BY <1>1
<1>3. ASSUME NEW i \in DOMAIN open' PROVE SubSeq(open', 1, i - 1) = SubSeq(open, 1, i - 1)
  <2>1. /\ i - 1 \in Nat /\ i - 1 <= Len(open) /\ i - 1 <= Len(open')
        /\ \A j \in 1..(i - 1) : j \in 1..(Len(open) - 1)
    BY <1>1, <1>2
  <2>2. QED
    BY <1>1, <1>2, <2>1, SamePrefix
<1>4. \A i \in DOMAIN open' : open'[i] \in DOMAIN read' /\ read'[open'[i]].inside = SubSeq(open', 1, i - 1)
  <2>1. ASSUME NEW i \in DOMAIN open' PROVE open[i] \in DOMAIN read /\ read[open[i]].inside = SubSeq(open, 1, i - 1)
    <3>1. i \in DOMAIN open
      BY <1>1, <1>2
    <3>2. QED
      BY <3>1 DEF Form
  <2>2. QED
    BY <1>2, <1>3, <2>1
<1>5. Form' /\ Grows(read, read')
  BY <1>2, <1>4 DEF Form, Five, Grows
<1>6. QED
  BY <1>1, <1>2, <1>5 DEF Last, Form

---------------------------------------------------------------------------
(* The document and its title *)

\* NamedByItsAuthor of the model is NamedIn of the document and its title.
LEMMA NamedIs == NamedByItsAuthor <=> NamedIn(read, blocks, title)
  BY DEF NamedByItsAuthor, NamedIn, TitleTokens, FirstHeading, FirstOf, Heads, Ones, Tag

\* A step that writes no heading keeps the document and its title.
LEMMA QuietDocument ==
    ASSUME Form, Document, Reading, format \in Five, Grows(read, read'), UNCHANGED format,
           SameHeads(blocks, blocks') \/ blocks' = blocks, title' = title, outcome' # "parsed",
           blocks' # blocks => Good(format, read', blocks')
    PROVE  Document'
<1>1. Good(format, read', blocks')
  BY GoodGrows DEF Form, Document, Five
<1>2. TitleOf(blocks', title')
  BY SameTitle DEF Document
<1>3. QED
  BY <1>1, <1>2 DEF Document, Reading, Parsed

\* The end of the source, with the title of the page if it has one.
LEMMA EndDocument ==
    ASSUME Form, Document, Reading, format \in Five, NEW default, EndOfSource(default),
           UNCHANGED <<format, read>>, SameHeads(blocks, blocks') \/ blocks' = blocks,
           blocks' # blocks => Good(format, read, blocks'), PageOK(read, default)
    PROVE  Document' /\ outcome' = "parsed"
<1>1. Good(format, read, blocks') /\ outcome' = "parsed"
  BY DEF Document, EndOfSource, Finish
<1>2. /\ FirstOf(blocks', Ones(blocks')) = FirstOf(blocks, Ones(blocks))
      /\ FirstOf(blocks', Heads(blocks')) = FirstOf(blocks, Heads(blocks))
      /\ (Ones(blocks') = {}) = (Ones(blocks) = {})
  BY DEF SameHeads
<1>3. title = FirstOf(blocks, Ones(blocks)) /\ (title = <<>> <=> Ones(blocks) = {})
  BY TitleSome DEF Document, Good, TitleOf
<1>4. title' = IF title # <<>> THEN title ELSE IF default # <<>> THEN default
               ELSE FirstOf(blocks, Heads(blocks))
  BY DEF EndOfSource, FirstHeading, FirstOf, Heads
<1>5. NamedIn(read, blocks', title')
  <2>1. CASE Ones(blocks) # {}
    BY <1>2, <1>3, <1>4, <2>1 DEF NamedIn, FirstOf
  <2>2. CASE Ones(blocks) = {} /\ default = <<>> /\ TitleTokens(read) = {}
    BY <1>2, <1>3, <1>4, <2>2 DEF NamedIn
  <2>3. CASE Ones(blocks) = {} /\ default = <<1>> /\ TitleTokens(read) = {1}
    <3>1. (CHOOSE i \in {1} : TRUE) = 1
      OBVIOUS
    <3>2. default # <<>> /\ title' = <<1>>
      BY <1>3, <1>4, <2>3
    <3>3. QED
      BY <1>2, <2>3, <3>1, <3>2 DEF NamedIn
  <2>4. QED
    BY <2>1, <2>2, <2>3 DEF PageOK
<1>6. QED
  BY <1>1, <1>5 DEF Document, Reading, Parsed

\* Only a page has the token of a title.
LEMMA NoTitleTokens ==
    ASSUME Form, format # "html"
    PROVE  TitleTokens(read) = {}
  BY DEF Form, TitleTokens

---------------------------------------------------------------------------
(* Texts and PDF: line by line *)

\* A block of one token that comes after all the words of the document.
LEMMA BehindNext ==
    ASSUME NEW f, NEW n \in Nat, NEW bs, Doc(f, n, bs), NEW x \in Nat, n < x, NEW kind, NEW level
    PROVE  Behind(f, bs, Block(kind, level, <<x>>))
<1>1. ASSUME NEW k \in DOMAIN bs PROVE Precedes(bs[k].words, <<x>>)
  <2>1. Upto(n, bs[k].words)
    BY DEF Doc, Fits
  <2>2. QED
    BY <2>1 DEF Precedes, Upto
<1>2. QED
  BY <1>1 DEF Behind, InOrder, Block

\* A block of one token that was read fits.
LEMMA FitsOne ==
    ASSUME NEW n \in Nat, NEW x \in 1..n, NEW kind \in Kinds, NEW level \in Int,
           (kind = "heading") = (level \in 1..6)
    PROVE  Fits(n, Block(kind, level, <<x>>))
  BY DEF Fits, Block, BlockRec, Increasing, Upto

\* What the invariant says of lines, for the steps over them.
LEMMA LinesFacts ==
    ASSUME LinesInv, format \in {"text", "pdf"}, Reading
    PROVE  /\ local.next \in 0..(Len(read) + 1) /\ local.next \in Nat /\ local.body \in Nat
           /\ Len(read) \in Nat /\ Good(format, read, blocks) /\ TitleOf(blocks, title)
           /\ format \in Five /\ format # "docx"
           /\ local.next = 0 => blocks = <<>> /\ local.para = <<>>
           /\ local.next > 0 =>
                /\ local.next - 1 \in Nat /\ local.next = local.next - 1 + 1
                /\ Doc(format, local.next - 1, blocks)
                /\ Pending(format, local.next - 1, blocks, "paragraph", local.para)
<1>1. LinesOK(format, read, local, blocks) /\ Len(read) \in Nat
  BY FormFacts DEF LinesInv, Lines
<1>2. local.next \in 0..(Len(read) + 1) /\ local.body \in Nat /\ local.next \in Nat
  BY <1>1 DEF LinesOK
<1>3. local.next = 0 => blocks = <<>> /\ local.para = <<>>
  BY <1>1 DEF LinesOK
<1>4. ASSUME local.next > 0
      PROVE  /\ Doc(format, local.next - 1, blocks)
             /\ Pending(format, local.next - 1, blocks, "paragraph", local.para)
  <2>1. Looked(local) = local.next - 1
    BY <1>2, <1>4 DEF Looked
  <2>2. QED
    BY <1>1, <2>1 DEF LinesOK
<1>5. Good(format, read, blocks) /\ TitleOf(blocks, title)
  BY DEF LinesInv, Document
<1>6. QED
  BY <1>1, <1>2, <1>3, <1>4, <1>5 DEF Five

\* What is left to show of a step over lines.
LEMMA LinesStep ==
    ASSUME LinesInv, format \in {"text", "pdf"}, Reading, UNCHANGED <<format, read>>,
           DOMAIN local' = DOMAIN local, local'.body = local.body, local.next > 0,
           local'.next \in Nat, local'.next > 0, local'.next <= Len(read) + 1,
           Doc(format, local'.next - 1, blocks'),
           Pending(format, local'.next - 1, blocks', "paragraph", local'.para)
    PROVE  Lines'
<1>1. Len(read) \in Nat /\ LinesOK(format, read, local, blocks)
  BY FormFacts DEF LinesInv, Lines
<1>2. local'.next \in 0..(Len(read) + 1) /\ local'.next # 0 /\ Looked(local') = local'.next - 1
  BY <1>1 DEF Looked
<1>3. LinesOK(format, read, local', blocks')
  BY <1>1, <1>2 DEF LinesOK
<1>4. QED
  BY <1>3 DEF Lines

\* The paragraph before a heading is flushed.
LEMMA LineHeading ==
    ASSUME LinesInv, format \in {"text", "pdf"}, Reading, NEW level \in 1..6, NEW step \in 1..2,
           local.next > 0, local.next + step <= Len(read) + 1,
           AddHeading(level, local.next, step),
           ReadableFonts => MarkedIn(format, read, local.next),
           UNCHANGED <<upload, format, vocabulary, read, open, outcome>>
    PROVE  LinesInv'
<1> DEFINE i == local.next
           n == local.next - 1
           mid == blocks \o Paragraph(local.para)
           h == Block("heading", level, <<i>>)
<1>1. /\ i \in Nat /\ n \in Nat /\ i = n + 1 /\ Len(read) \in Nat /\ i <= Len(read)
      /\ i + step \in Nat /\ i + step <= Len(read) + 1 /\ i <= i + step - 1 /\ i + step > 0
      /\ i + step - 1 \in Nat
      /\ Doc(format, n, blocks) /\ Pending(format, n, blocks, "paragraph", local.para)
      /\ Good(format, read, blocks) /\ TitleOf(blocks, title) /\ format # "docx"
  BY LinesFacts
<1>2. /\ blocks' = mid \o <<h>> /\ title' = TitleAfter(level, <<i>>)
      /\ local' = [local EXCEPT !.next = @ + step, !.para = <<>>, !.inferred = TRUE]
  BY DEF AddHeading
<1>3. /\ local'.next = i + step /\ local'.para = <<>> /\ local'.body = local.body
      /\ DOMAIN local' = DOMAIN local
  <2>1. DOMAIN local = {"next", "para", "body", "inferred"}
    BY DEF LinesInv, Lines, LinesOK
  <2>2. QED
    BY <1>2, <2>1
<1>4. Form' /\ Grows(read, read') /\ format \in Five
  BY SameForm DEF LinesInv, Five
<1> HIDE DEF i, n, mid, h
<1>5. Doc(format, n, mid) /\ SameHeads(blocks, mid)
  BY <1>1, DocParagraph DEF mid
<1>6. Good(format, read, mid)
  <2>1. n <= Len(read)
    BY <1>1
  <2>2. Pending(format, Len(read), blocks, "paragraph", local.para)
    BY <1>1, <2>1, PendingWider
  <2>3. QED
    BY <1>1, <2>2, GoodParagraph DEF mid
<1>7. /\ h.kind = "heading" /\ h.level = level /\ h.words = <<i>>
      /\ Fits(i, h) /\ Fits(Len(read), h) /\ Behind(format, mid, h)
  <2>1. ("heading" = "heading") = (level \in 1..6) /\ "heading" \in Kinds /\ level \in Int
    BY DEF Kinds
  <2>2. Fits(i, h) /\ Fits(Len(read), h)
    BY <1>1, <2>1, FitsOne DEF h
  <2>3. Behind(format, mid, h)
    <3>1. n \in Nat /\ i \in Nat /\ n < i
      BY <1>1
    <3>2. QED
      BY <1>5, <3>1, BehindNext DEF h
  <2>4. QED
    BY <2>2, <2>3 DEF h, Block
<1>8. blocks' = Append(mid, h)
  <2>1. mid \in Seq(BlockRec) /\ h \in BlockRec
    BY <1>5, <1>7 DEF Doc, Fits
  <2>2. QED
    BY <1>2, <2>1, AppendConcat
<1>9. Doc(format, i + step - 1, blocks')
  <2>1. n \in Nat /\ i \in Nat /\ n <= i
    BY <1>1
  <2>2. Doc(format, i, mid)
    BY <1>5, <2>1, DocWider
  <2>3. Doc(format, i, blocks')
    BY <1>7, <1>8, <2>1, <2>2, DocAppend
  <2>4. QED
    BY <1>1, <2>3, DocWider
<1>10. Good(format, read, blocks')
  <2>1. Lawful(format, read, h)
    <3>1. ReadableFonts => MarkedIn(format, read, i)
      BY DEF i
    <3>2. QED
      BY <1>1, <1>7, <3>1 DEF Lawful
  <2>3. QED
    BY <1>1, <1>6, <1>7, <1>8, <2>1, GoodAppend
<1>11. TitleOf(blocks', title')
  <2>1. TitleOf(mid, title)
    BY <1>1, <1>5, SameTitle
  <2>2. Doc(format, Len(read), mid)
    BY <1>1, <1>6 DEF Good
  <2>3. QED
    BY <1>1, <1>2, <1>7, <1>8, <2>1, <2>2, TitleAppend DEF TitleAfter
<1>12. Document'
  BY <1>4, <1>10, <1>11 DEF Document, Reading, Parsed
<1>13. Lines'
  <2>1. Pending(format, i + step - 1, blocks', "paragraph", <<>>)
    BY NothingPending
  <2>2. i > 0
    BY <1>1
  <2>3. QED
    BY <1>1, <1>3, <1>9, <2>1, <2>2, LinesStep DEF i
<1>14. QED
  BY <1>4, <1>12, <1>13 DEF LinesInv

\* A line is added to the paragraph.
LEMMA LineAdded ==
    ASSUME LinesInv, format \in {"text", "pdf"}, Reading,
           local.next > 0, local.next <= Len(read), AddLine(local.next),
           UNCHANGED <<upload, format, vocabulary, read, open, outcome>>
    PROVE  LinesInv'
<1> DEFINE i == local.next
           n == local.next - 1
<1>1. /\ i \in Nat /\ n \in Nat /\ i = n + 1 /\ Len(read) \in Nat /\ i <= Len(read) /\ n <= i
      /\ Doc(format, n, blocks) /\ Pending(format, n, blocks, "paragraph", local.para)
  BY LinesFacts
<1>2. UNCHANGED <<blocks, title>>
      /\ local' = [local EXCEPT !.next = @ + 1, !.para = Append(@, i)]
  BY DEF AddLine
<1>8. /\ local'.next = i + 1 /\ local'.para = Append(local.para, i) /\ local'.body = local.body
      /\ DOMAIN local' = DOMAIN local
  <2>1. DOMAIN local = {"next", "para", "body", "inferred"}
    BY DEF LinesInv, Lines, LinesOK
  <2>2. QED
    BY <1>2, <2>1
<1>3. Form' /\ Grows(read, read') /\ format \in Five
  BY SameForm DEF LinesInv, Five
<1>4. Document'
  BY <1>2, <1>3, QuietDocument DEF LinesInv, Reading
<1> HIDE DEF i, n
<1>5. Doc(format, i, blocks') /\ Pending(format, i, blocks', "paragraph", Append(local.para, i))
  <2>1. Doc(format, i, blocks)
    BY <1>1, DocWider
  <2>2. Pending(format, n + 1, blocks, "paragraph", Append(local.para, n + 1))
    BY <1>1, PendingMore
  <2>3. QED
    BY <1>1, <1>2, <2>1, <2>2
<1>6. Lines'
  <2>1. /\ local'.next \in Nat /\ local'.next > 0 /\ local'.next <= Len(read) + 1
        /\ local'.next - 1 = i /\ local.next > 0
    BY <1>1, <1>8
  <2>2. Doc(format, local'.next - 1, blocks') /\ Pending(format, local'.next - 1, blocks', "paragraph", local'.para)
    BY <1>5, <1>8, <2>1
  <2>3. QED
    BY <1>8, <2>1, <2>2, LinesStep
<1>7. QED
  BY <1>3, <1>4, <1>6 DEF LinesInv

\* The paragraph is flushed: by a blank line, or at the end.
LEMMA LineFlushed ==
    ASSUME LinesInv, format \in {"text", "pdf"}, Reading, local.next > 0
    PROVE  /\ Good(format, read, blocks \o Paragraph(local.para))
           /\ SameHeads(blocks, blocks \o Paragraph(local.para))
           /\ Doc(format, local.next - 1, blocks \o Paragraph(local.para))
<1> DEFINE n == local.next - 1
<1>1. /\ n \in Nat /\ Len(read) \in Nat /\ n <= Len(read) /\ format # "docx"
      /\ Doc(format, n, blocks) /\ Pending(format, n, blocks, "paragraph", local.para)
      /\ Good(format, read, blocks)
  BY LinesFacts
<1> HIDE DEF n
<1>2. Doc(format, n, blocks \o Paragraph(local.para)) /\ SameHeads(blocks, blocks \o Paragraph(local.para))
  BY <1>1, DocParagraph
<1>3. Pending(format, Len(read), blocks, "paragraph", local.para)
  BY <1>1, PendingWider
<1>4. QED
  BY <1>1, <1>2, <1>3, GoodParagraph DEF n

LEMMA LineSkipped ==
    ASSUME LinesInv, format \in {"text", "pdf"}, Reading,
           local.next > 0, local.next <= Len(read), SkipLine,
           UNCHANGED <<upload, format, vocabulary, read, open, outcome>>
    PROVE  LinesInv'
<1> DEFINE i == local.next
           n == local.next - 1
<1>1. /\ i \in Nat /\ n \in Nat /\ i = n + 1 /\ Len(read) \in Nat /\ i <= Len(read) /\ n <= i
      /\ Doc(format, n, blocks) /\ Pending(format, n, blocks, "paragraph", local.para)
  BY LinesFacts
<1>2. UNCHANGED <<blocks, title>> /\ local' = [local EXCEPT !.next = @ + 1]
  BY DEF SkipLine
<1>3. /\ local'.next = i + 1 /\ local'.para = local.para /\ local'.body = local.body
      /\ DOMAIN local' = DOMAIN local
  <2>1. DOMAIN local = {"next", "para", "body", "inferred"}
    BY DEF LinesInv, Lines, LinesOK
  <2>2. QED
    BY <1>2, <2>1
<1>4. Form' /\ Grows(read, read') /\ format \in Five
  BY SameForm DEF LinesInv, Five
<1>5. Document'
  BY <1>2, <1>4, QuietDocument DEF LinesInv, Reading
<1> HIDE DEF i, n
<1>6. Doc(format, i, blocks') /\ Pending(format, i, blocks', "paragraph", local.para)
  BY <1>1, <1>2, DocWider, PendingWider
<1>7. Lines'
  <2>1. /\ local'.next \in Nat /\ local'.next > 0 /\ local'.next <= Len(read) + 1
        /\ local'.next - 1 = i /\ local.next > 0
    BY <1>1, <1>3
  <2>2. Doc(format, local'.next - 1, blocks') /\ Pending(format, local'.next - 1, blocks', "paragraph", local'.para)
    BY <1>3, <1>6, <2>1
  <2>3. QED
    BY <1>3, <2>1, <2>2, LinesStep
<1>8. QED
  BY <1>4, <1>5, <1>7 DEF LinesInv

\* Every step keeps the invariant of the lines.
LEMMA LinesKept == LinesInv /\ LinesNext => LinesInv'
<1> SUFFICES ASSUME LinesInv, LinesNext PROVE LinesInv'
  OBVIOUS
<1>1. format \in {"text", "pdf"} /\ Reading /\ format \in Five /\ UNCHANGED <<upload, format, vocabulary, open>>
  BY DEF LinesNext, ReadLine, StartLooking, TextLine, PdfLine, LinesEnd, Five
<1>2. LinesOK(format, read, local, blocks) /\ DOMAIN local = {"next", "para", "body", "inferred"}
  BY <1>1 DEF LinesInv, Lines, LinesOK
<1>3. CASE ReadLine
  <2>1. PICK token \in vocabulary.tokens : Write(token)
    BY <1>3 DEF ReadLine
  <2>2. local.next = 0 /\ UNCHANGED <<local, blocks, title, outcome>>
    BY <1>1, <1>3, LinesFacts DEF ReadLine, Looking
  <2>3. token.tag # "title"
    BY <1>1 DEF LinesInv, Form, Known, MayBe, LineTags
  <2>4. Form' /\ Grows(read, read')
    BY <1>1, <2>1, <2>3, WriteForm DEF LinesInv
  <2>5. Document'
    BY <1>1, <2>2, <2>4, QuietDocument DEF LinesInv, Reading
  <2>6. LinesOK(format, read', local, blocks)
    BY <1>2, <2>2, <2>4 DEF LinesOK, Grows
  <2>7. QED
    BY <1>1, <2>2, <2>4, <2>5, <2>6 DEF LinesInv, Lines
<1>4. CASE StartLooking
  <2>1. Form' /\ Grows(read, read') /\ UNCHANGED <<read, blocks, title, outcome>>
    BY <1>1, <1>4, SameForm DEF StartLooking, LinesInv
  <2>2. Document'
    BY <1>1, <2>1, QuietDocument DEF LinesInv, Reading
  <2>3. PICK size \in IF format = "pdf" THEN Dominant ELSE {0} :
           local' = [local EXCEPT !.next = 1, !.body = size]
    BY <1>4 DEF StartLooking
  <2>4. /\ local'.next = 1 /\ local'.body = size /\ local'.para = local.para
        /\ DOMAIN local' = {"next", "para", "body", "inferred"}
    BY <1>2, <2>3
  <2>5. local.next = 0 /\ blocks = <<>> /\ local.para = <<>> /\ Len(read) \in Nat
    BY <1>1, <1>4, LinesFacts DEF StartLooking, Looking
  <2>6. size \in Nat /\ (format = "pdf" /\ size > 0 => \E k \in DOMAIN read : read[k].tag = "other" /\ read[k].arg = size)
    <3>1. CASE format = "pdf"
      <4>1. size \in {read[i].arg : i \in {j \in DOMAIN read : read[j].tag = "other"}} \cup {0}
        BY <2>3, <3>1 DEF Dominant
      <4>2. \A i \in DOMAIN read : read[i].arg \in Nat
        BY <3>1 DEF LinesInv, Form, Known, MayBe
      <4>3. QED
        BY <4>1, <4>2
    <3>2. CASE format # "pdf"
      BY <2>3, <3>2
    <3>3. QED
      BY <3>1, <3>2
  <2>7. Looked(local) = 0 /\ Looked(local') = 0
    BY <2>4, <2>5 DEF Looked
  <2>8. LinesOK(format, read, local', blocks)
    BY <1>2, <2>4, <2>5, <2>6, <2>7 DEF LinesOK
  <2>9. QED
    BY <1>1, <2>1, <2>2, <2>8 DEF LinesInv, Lines
<1>5. CASE TextLine
  <2> DEFINE i == local.next
  <2>1. /\ format = "text" /\ i \in Nat /\ i > 0 /\ i <= Len(read) /\ Len(read) \in Nat
        /\ i \in DOMAIN read /\ UNCHANGED <<upload, format, vocabulary, read, open, outcome>>
    BY <1>1, <1>5, LinesFacts, FormFacts DEF TextLine, Looking, LinesInv
  <2>2. CASE Line(i).tag = "blank"
    <3>1. /\ blocks' = blocks \o Paragraph(local.para) /\ title' = title
          /\ local' = [local EXCEPT !.next = @ + 1, !.para = <<>>]
      BY <1>5, <2>2 DEF TextLine
    <3>2. /\ Good(format, read, blocks') /\ SameHeads(blocks, blocks')
          /\ Doc(format, i - 1, blocks')
      BY <1>1, <2>1, <3>1, LineFlushed
    <3>3. Form' /\ Grows(read, read')
      BY <1>1, <2>1, SameForm DEF LinesInv
    <3>4. Document'
      BY <1>1, <2>1, <3>1, <3>2, <3>3, QuietDocument DEF LinesInv, Reading
    <3>5. /\ local'.next = i + 1 /\ local'.para = <<>> /\ local'.body = local.body
          /\ DOMAIN local' = DOMAIN local
      BY <1>2, <3>1
    <3>6. Doc(format, i, blocks') /\ Pending(format, i, blocks', "paragraph", <<>>)
      <4>1. i - 1 \in Nat /\ i - 1 <= i
        BY <2>1
      <4>2. QED
        BY <2>1, <3>2, <4>1, DocWider, NothingPending
    <3>7. /\ local'.next \in Nat /\ local'.next > 0 /\ local'.next <= Len(read) + 1
          /\ local'.next - 1 = i /\ local.next > 0
      BY <2>1, <3>5
    <3>8. Lines'
      BY <1>1, <2>1, <3>5, <3>6, <3>7, LinesStep
    <3>9. QED
      BY <3>3, <3>4, <3>8 DEF LinesInv
  <2>3. CASE Line(i).tag # "blank" /\ Underlined(i)
    <3>1. AddHeading(Line(i + 1).arg, i, 2)
      BY <1>5, <2>3 DEF TextLine
    <3>2. i < Len(read) /\ read[i + 1].tag = "underline" /\ i + 1 \in DOMAIN read
      BY <2>1, <2>3, FormFacts DEF Underlined, Line, LinesInv
    <3>3. read[i + 1].arg \in 1..6
      BY <3>2 DEF LinesInv, Form, Known, MayBe
    <3>4. MarkedIn(format, read, i)
      BY <2>1, <3>2 DEF MarkedIn
    <3>5. QED
      BY <1>1, <2>1, <3>1, <3>2, <3>3, <3>4, LineHeading DEF Line
  <2>4. CASE Line(i).tag # "blank" /\ ~Underlined(i) /\ LooksLikeHeading(i)
    <3>1. AddHeading(LevelOf(i), i, 1)
      BY <1>5, <2>4 DEF TextLine
    <3>2. MayBe(format, read[i]) /\ read[i].tag \in {"numbered", "capitals"}
      BY <2>1, <2>4 DEF LinesInv, Form, Known, LooksLikeHeading, Line
    <3>3. LevelOf(i) \in 1..6
      <4>1. CASE read[i].tag = "capitals"
        BY <4>1 DEF LevelOf, Line
      <4>2. CASE read[i].tag = "numbered"
        <5>1. read[i].arg \in Nat \ {0}
          BY <3>2, <4>2 DEF MayBe
        <5>2. QED
          BY <4>2, <5>1 DEF LevelOf, Line
      <4>3. QED
        BY <3>2, <4>1, <4>2
    <3>4. MarkedIn(format, read, i)
      BY <2>1, <3>2 DEF MarkedIn
    <3>5. QED
      BY <1>1, <2>1, <3>1, <3>3, <3>4, LineHeading
  <2>5. CASE Line(i).tag # "blank" /\ ~Underlined(i) /\ ~LooksLikeHeading(i)
    <3>1. AddLine(i)
      BY <1>5, <2>5 DEF TextLine
    <3>2. QED
      BY <1>1, <2>1, <3>1, LineAdded
  <2>6. QED
    BY <2>2, <2>3, <2>4, <2>5
<1>6. CASE PdfLine
  <2> DEFINE i == local.next
             size == read[i].arg
             body == local.body
  <2>1. /\ format = "pdf" /\ i \in Nat /\ i > 0 /\ i <= Len(read) /\ Len(read) \in Nat
        /\ i \in DOMAIN read /\ UNCHANGED <<upload, format, vocabulary, read, open, outcome>>
    BY <1>1, <1>6, LinesFacts, FormFacts DEF PdfLine, Looking, LinesInv
  <2>2. size \in Nat /\ body \in Nat
    BY <1>1, <2>1, LinesFacts DEF LinesInv, Form, Known, MayBe
  <2>3. ASSUME body > 0, size >= (body * 6) \div 5, ReadableFonts PROVE MarkedIn(format, read, i)
    <3>1. PICK k \in DOMAIN read : read[k].tag = "other" /\ read[k].arg = body
      BY <1>2, <2>1, <2>3 DEF LinesOK
    <3>2. body \notin 1..4
      BY <2>1, <2>3, <3>1 DEF LinesInv, Form, Known
    <3>3. size > body
      BY <2>2, <2>3, <3>2
    <3>4. QED
      BY <2>1, <3>1, <3>3 DEF MarkedIn
  <2>8. CASE read[i].tag = "inner"
    <3>1. SkipLine
      BY <1>6, <2>8 DEF PdfLine, Line
    <3>2. QED
      BY <1>1, <2>1, <3>1, LineSkipped
  <2>4. CASE read[i].tag # "inner" /\ body > 0 /\ size >= (body * 3) \div 2
    <3>1. AddHeading(1, i, 1)
      BY <1>6, <2>4 DEF PdfLine, Line
    <3>2. size >= (body * 6) \div 5
      BY <2>2, <2>4
    <3>3. QED
      BY <1>1, <2>1, <2>3, <2>4, <3>1, <3>2, LineHeading
  <2>5. CASE read[i].tag # "inner" /\ body > 0 /\ ~(size >= (body * 3) \div 2) /\ size >= (body * 6) \div 5
    <3>1. AddHeading(2, i, 1)
      BY <1>6, <2>5 DEF PdfLine, Line
    <3>2. QED
      BY <1>1, <2>1, <2>3, <2>5, <3>1, LineHeading
  <2>6. CASE /\ read[i].tag # "inner"
             /\ ~(body > 0 /\ size >= (body * 3) \div 2) /\ ~(body > 0 /\ size >= (body * 6) \div 5)
    <3>1. AddLine(i)
      BY <1>6, <2>6 DEF PdfLine, Line
    <3>2. QED
      BY <1>1, <2>1, <3>1, LineAdded
  <2>7. QED
    BY <2>4, <2>5, <2>6, <2>8
<1>7. CASE LinesEnd
  <2>1. /\ blocks' = blocks \o Paragraph(local.para) /\ EndOfSource(<<>>) /\ read' = read
        /\ local.next > 0
    BY <1>7 DEF LinesEnd, Looking
  <2>2. Good(format, read, blocks') /\ SameHeads(blocks, blocks')
    BY <1>1, <2>1, LineFlushed
  <2>3. TitleTokens(read) = {}
    BY <1>1, NoTitleTokens DEF LinesInv
  <2>4. Document' /\ outcome' = "parsed"
    BY <1>1, <2>1, <2>2, <2>3, EndDocument DEF LinesInv, PageOK
  <2>5. Form'
    BY <1>1, <2>1, SameForm DEF LinesInv
  <2>6. QED
    BY <2>4, <2>5 DEF LinesInv, Lines, Reading
<1>8. QED
  BY <1>3, <1>4, <1>5, <1>6, <1>7 DEF LinesNext

---------------------------------------------------------------------------
(* Markdown *)

\* A step that adds a block to a document.
LEMMA AppendDocument ==
    ASSUME Reading, format \in Five, UNCHANGED <<format, outcome>>, Len(read') \in Nat,
           NEW bs, Good(format, read', bs), TitleOf(bs, title),
           NEW b, Fits(Len(read'), b), Behind(format, bs, b), Lawful(format, read', b),
           blocks' = Append(bs, b),
           title' = IF b.kind = "heading" /\ b.level = 1 /\ title = <<>> THEN b.words ELSE title
    PROVE  Document'
<1>1. Good(format, read', blocks')
  BY GoodAppend
<1>2. TitleOf(blocks', title')
  BY TitleAppend DEF Good
<1>3. QED
  BY <1>1, <1>2 DEF Document, Reading, Parsed

\* Words wait for a block that comes after a new one without words, or with words that
\* all come before.
LEMMA PendingAfter ==
    ASSUME NEW f, NEW n, NEW bs \in Seq(BlockRec), NEW b \in BlockRec, NEW kind, NEW w,
           Pending(f, n, bs, kind, w), Precedes(b.words, w)
    PROVE  Pending(f, n, Append(bs, b), kind, w)
<1>1. /\ DOMAIN Append(bs, b) = 1..(Len(bs) + 1) /\ DOMAIN bs = 1..Len(bs) /\ Len(bs) \in Nat
      /\ \A j \in 1..Len(bs) : Append(bs, b)[j] = bs[j]
      /\ Append(bs, b)[Len(bs) + 1] = b
  OBVIOUS
<1>2. ASSUME NEW k \in DOMAIN Append(bs, b) PROVE InOrder(f, Append(bs, b)[k], Block(kind, 0, w))
  <2>1. CASE k \in DOMAIN bs
    BY <1>1, <2>1 DEF Pending, Behind
  <2>2. CASE k = Len(bs) + 1
    BY <1>1, <2>2 DEF InOrder, Block
  <2>3. k \in DOMAIN bs \/ k = Len(bs) + 1
    BY <1>1
  <2>4. QED
    BY <2>1, <2>2, <2>3
<1>3. QED
  BY <1>2 DEF Pending, Behind

\* What the invariant says of Markdown, for its steps.
LEMMA MarkdownFacts ==
    ASSUME MarkdownInv, format = "markdown", Reading
    PROVE  /\ DOMAIN local = {"modes", "words", "fence"}
           /\ local.modes \in Seq({"blocks", "plain", "inline"})
           /\ Len(local.modes) = Len(open) + 1 /\ MdMode = local.modes[Len(open) + 1]
           /\ (MdMode = "blocks") <=> (open = <<>>)
           /\ (open = <<>>) <=> (Len(open) = 0)
           /\ Len(open) \in Nat /\ Len(read) \in Nat /\ open \in Seq(Nat)
           /\ Parent = "root" \/ Len(open) > 0
           /\ Good(format, read, blocks) /\ TitleOf(blocks, title) /\ format \in Five
           /\ blocks \in Seq(BlockRec) /\ Doc(format, Len(read), blocks)
<1>1. MarkdownOK(read, open, local, blocks)
  BY DEF MarkdownInv, Markdown
<1>2. Len(open) \in Nat /\ Len(read) \in Nat /\ open \in Seq(Nat) /\ ((open = <<>>) <=> (Len(open) = 0))
  BY FormFacts DEF MarkdownInv
<1>3. /\ local.modes \in Seq({"blocks", "plain", "inline"}) /\ Len(local.modes) = Len(open) + 1
      /\ local.modes[1] = "blocks" /\ \A k \in 2..Len(local.modes) : local.modes[k] # "blocks"
      /\ DOMAIN local = {"modes", "words", "fence"}
  BY <1>1 DEF MarkdownOK
<1>4. MdMode = local.modes[Len(open) + 1]
  BY <1>3 DEF MdMode, Last
<1>5. (MdMode = "blocks") <=> (Len(open) = 0)
  BY <1>2, <1>3, <1>4
<1>6. Parent = "root" \/ Len(open) > 0
  BY <1>2 DEF Parent
<1>7. Good(format, read, blocks) /\ TitleOf(blocks, title) /\ format \in Five
  BY DEF MarkdownInv, Document, Five
<1>8. QED
  BY <1>2, <1>3, <1>4, <1>5, <1>6, <1>7 DEF Good, Doc

\* The words that were gathered before the source grew.
LEMMA MarkdownGrows ==
    ASSUME NEW r, NEW s, Grows(r, s), NEW o \in Seq(Nat), \A i \in DOMAIN o : o[i] \in DOMAIN r,
           NEW l, NEW m, NEW bs, MarkdownOK(r, o, l, bs),
           DOMAIN m = DOMAIN l, m.modes = l.modes, m.words = l.words
    PROVE  MarkdownOK(s, o, m, bs)
<1>1. Len(r) \in Nat /\ Len(s) \in Nat /\ Len(r) <= Len(s) /\ DOMAIN r = 1..Len(r)
  BY DEF Grows
<1>2. ASSUME Len(o) > 0
      PROVE  /\ s[o[1]].tag \in Tops
             /\ Pending("markdown", Len(s), bs, "paragraph", m.words)
             /\ \A i \in DOMAIN m.words : o[1] \in Inside(s, m.words[i])
  <2>1. /\ r[o[1]].tag \in Tops /\ Pending("markdown", Len(r), bs, "paragraph", l.words)
        /\ \A i \in DOMAIN l.words : o[1] \in Inside(r, l.words[i])
    BY <1>2 DEF MarkdownOK
  <2>2. o[1] \in DOMAIN r
    BY <1>2
  <2>3. Pending("markdown", Len(s), bs, "paragraph", l.words)
    BY <1>1, <2>1, PendingWider
  <2>4. \A i \in DOMAIN l.words : l.words[i] \in DOMAIN r
    BY <1>1, <2>1 DEF Pending, Upto
  <2>5. \A i \in DOMAIN l.words : Inside(s, l.words[i]) = Inside(r, l.words[i])
    BY <2>4 DEF Grows, Inside
  <2>6. s[o[1]] = r[o[1]]
    BY <2>2 DEF Grows
  <2>7. QED
    BY <2>1, <2>3, <2>5, <2>6
<1>3. QED
  BY <1>2 DEF MarkdownOK

\* A token that is not written to the document, inside what is open.
LEMMA MarkdownQuiet ==
    ASSUME MarkdownInv, format = "markdown", Reading, NEW token, Write(token), token.tag # "title",
           UNCHANGED <<format, vocabulary, open, blocks, title, outcome>>,
           DOMAIN local' = DOMAIN local, local'.modes = local.modes, local'.words = local.words
    PROVE  MarkdownInv'
<1>1. Form' /\ Grows(read, read') /\ format \in Five
  BY WriteForm DEF MarkdownInv, Five
<1>2. Document'
  BY <1>1, QuietDocument DEF MarkdownInv, Reading
<1>3. MarkdownOK(read', open, local', blocks)
  BY <1>1, MarkdownGrows, FormFacts DEF MarkdownInv, Markdown
<1>4. QED
  BY <1>1, <1>2, <1>3 DEF MarkdownInv, Markdown

\* A word is gathered.
LEMMA MarkdownWord ==
    ASSUME MarkdownInv, format = "markdown", Reading, NEW token, Write(token), token.tag # "title",
           UNCHANGED <<format, vocabulary, open, blocks, title, outcome>>, Len(open) > 0,
           DOMAIN local' = DOMAIN local, local'.modes = local.modes,
           local'.words = Append(local.words, Here)
    PROVE  MarkdownInv'
<1>1. /\ Form' /\ Grows(read, read') /\ format \in Five /\ Here = Len(read) + 1 /\ Len(read') = Here
      /\ Inside(read', Here) = {open[j] : j \in DOMAIN open}
  BY WriteForm DEF MarkdownInv, Five
<1>2. Document'
  BY <1>1, QuietDocument DEF MarkdownInv, Reading
<1>3. MarkdownOK(read', open, local, blocks)
  BY <1>1, MarkdownGrows, FormFacts DEF MarkdownInv, Markdown
<1>4. MarkdownOK(read, open, local, blocks) /\ Doc("markdown", Len(read), blocks) /\ Len(read) \in Nat
  BY MarkdownFacts DEF MarkdownInv, Markdown
<1>5. Pending("markdown", Len(read'), blocks, "paragraph", local'.words)
  <2>1. Pending("markdown", Len(read), blocks, "paragraph", local.words)
    BY <1>4 DEF MarkdownOK
  <2>2. Pending("markdown", Len(read) + 1, blocks, "paragraph", Append(local.words, Len(read) + 1))
    BY <1>4, <2>1, PendingMore
  <2>3. QED
    BY <1>1, <2>2
<1>6. ASSUME NEW i \in DOMAIN local'.words PROVE open[1] \in Inside(read', local'.words[i])
  <2>1. local.words \in Seq(Nat) /\ Here \in Nat
    BY <1>1, <1>4 DEF MarkdownOK, Pending
  <2>2. CASE i \in DOMAIN local.words
    <3>1. local'.words[i] = local.words[i]
      BY <2>1, <2>2
    <3>2. QED
      BY <1>3, <2>2, <3>1 DEF MarkdownOK
  <2>3. CASE i = Len(local.words) + 1
    <3>1. local'.words[i] = Here
      BY <2>1, <2>3
    <3>2. 1 \in DOMAIN open
      BY FormFacts DEF MarkdownInv
    <3>3. QED
      BY <1>1, <3>1, <3>2
  <2>4. i \in DOMAIN local.words \/ i = Len(local.words) + 1
    BY <2>1
  <2>5. QED
    BY <2>2, <2>3, <2>4
<1>7. MarkdownOK(read', open, local', blocks)
  BY <1>3, <1>5, <1>6 DEF MarkdownOK
<1>8. QED
  BY <1>1, <1>2, <1>7 DEF MarkdownInv, Markdown

\* All of a sequence but its last.
LEMMA FrontFacts ==
    ASSUME NEW S, NEW s \in Seq(S), Len(s) > 0
    PROVE  /\ Front(s) \in Seq(S) /\ Len(Front(s)) = Len(s) - 1 /\ DOMAIN Front(s) = 1..(Len(s) - 1)
           /\ \A i \in 1..(Len(s) - 1) : Front(s)[i] = s[i]
<1> DEFINE n == Len(s) - 1
           t == SubSeq(s, 1, n)
<1>1. n \in Nat /\ n \in Int /\ 1 \in Int /\ n - 1 + 1 = n /\ \A i \in 1..n : s[i] \in S /\ 1 + i - 1 = i
  OBVIOUS
<1>2. t = Front(s)
  BY DEF Front
<1> HIDE DEF n
<1>3. /\ t \in Seq(S) /\ Len(t) = IF 1 <= n THEN n - 1 + 1 ELSE 0
      /\ \A i \in 1..(n - 1 + 1) : t[i] = s[1 + i - 1]
  BY <1>1, SubSeqProperties
<1> HIDE DEF t
<1>4. Len(t) = n
  BY <1>1, <1>3
<1>5. \A i \in 1..n : t[i] = s[i]
  BY <1>1, <1>3
<1>6. DOMAIN t = 1..n
  BY <1>3, <1>4
<1>7. QED
  BY <1>2, <1>3, <1>4, <1>5, <1>6 DEF n

\* The block of an element of the document.
LEMMA MarkdownBlock ==
    ASSUME MarkdownInv, format = "markdown", Reading, Len(open) = 1,
           UNCHANGED <<format, vocabulary, read, outcome>>,
           NEW kind \in Kinds, NEW level \in Int, (kind = "heading") = (level \in 1..6),
           kind = "heading" => local.words # <<>> /\ read[open[1]].tag = "heading",
           blocks' = Append(blocks, Block(kind, level, local.words)),
           title' = IF kind = "heading" THEN TitleAfter(level, local.words) ELSE title
    PROVE  Document'
<1> DEFINE b == Block(kind, level, local.words)
<1>1. MarkdownOK(read, open, local, blocks) /\ Len(read) \in Nat
  BY MarkdownFacts DEF MarkdownInv, Markdown
<1>2. /\ Pending("markdown", Len(read), blocks, "paragraph", local.words)
      /\ \A i \in DOMAIN local.words : open[1] \in Inside(read, local.words[i])
  BY <1>1 DEF MarkdownOK
<1>3. Behind(format, blocks, b)
  BY <1>2, PendingFor
<1>4. Fits(Len(read), b)
  BY <1>2 DEF Pending, Fits, Block, BlockRec
<1>5. b.kind = kind /\ b.level = level /\ b.words = local.words
  BY DEF Block
<1>6. Lawful(format, read, b)
  BY <1>2, <1>5 DEF Lawful, MarkedIn
<1>7. title' = IF b.kind = "heading" /\ b.level = 1 /\ title = <<>> THEN b.words ELSE title
  BY <1>5 DEF TitleAfter
<1> HIDE DEF b
<1>8. Good(format, read', blocks) /\ TitleOf(blocks, title) /\ format \in Five
  BY MarkdownFacts
<1>9. QED
  BY <1>1, <1>3, <1>4, <1>6, <1>7, <1>8, AppendDocument DEF b

\* What the end of an element of the document writes.
LEMMA MarkdownTop ==
    ASSUME MarkdownInv, format = "markdown", Reading, Len(open) = 1,
           UNCHANGED <<format, vocabulary, read, outcome>>, NEW element, element = read[open[1]],
           blocks' = blocks \o Composed(element),
           title' = IF element.tag = "heading" THEN TitleAfter(element.arg, local.words) ELSE title
    PROVE  Document'
<1>1. MarkdownOK(read, open, local, blocks) /\ blocks \in Seq(BlockRec) /\ Len(read) \in Nat
  BY MarkdownFacts DEF MarkdownInv, Markdown
<1>2. element.tag \in Tops /\ Pending("markdown", Len(read), blocks, "paragraph", local.words)
  BY <1>1 DEF MarkdownOK
<1>3. 1 \in DOMAIN open /\ open[1] \in DOMAIN read
  BY FormFacts DEF MarkdownInv
<1>4. element.tag = "heading" => element.arg \in 1..6
  BY <1>3 DEF MarkdownInv, Form, Known, MayBe
<1>5. ASSUME blocks' = blocks \o <<>>, title' = title PROVE Document'
  <2>1. blocks' = blocks
    BY <1>1, <1>5
  <2>2. Grows(read, read') /\ format \in Five
    BY SameForm DEF MarkdownInv, Form, Five, Grows
  <2>3. QED
    BY <1>5, <2>1, <2>2, QuietDocument DEF MarkdownInv, Reading
<1>6. ASSUME NEW kind \in Kinds, kind # "heading", blocks' = blocks \o <<Block(kind, 0, local.words)>>,
             title' = title
      PROVE  Document'
  <2>1. Block(kind, 0, local.words) \in BlockRec
    BY <1>2 DEF Pending, Block, BlockRec
  <2>2. blocks' = Append(blocks, Block(kind, 0, local.words))
    BY <1>1, <1>6, <2>1, AppendConcat
  <2>3. (kind = "heading") = (0 \in 1..6) /\ 0 \in Int
    BY <1>6
  <2>4. QED
    BY <1>6, <2>2, <2>3, MarkdownBlock
<1>7. CASE element.tag = "heading"
  <2>1. title' = TitleAfter(element.arg, local.words)
    BY <1>7
  <2>2. CASE local.words = <<>>
    <3>1. blocks' = blocks \o <<>>
      BY <1>7, <2>2 DEF Composed
    <3>2. title' = title
      BY <2>1, <2>2 DEF TitleAfter
    <3>3. QED
      BY <1>5, <3>1, <3>2
  <2>3. CASE local.words # <<>>
    <3> DEFINE b == Block("heading", element.arg, local.words)
    <3>1. blocks' = blocks \o <<b>>
      BY <1>7, <2>3 DEF Composed
    <3>2. b \in BlockRec
      BY <1>2, <1>4, <1>7 DEF Pending, Block, BlockRec, Kinds
    <3> HIDE DEF b
    <3>3. blocks' = Append(blocks, b)
      BY <1>1, <3>1, <3>2, AppendConcat
    <3>4. "heading" \in Kinds /\ element.arg \in Int /\ ("heading" = "heading") = (element.arg \in 1..6)
      BY <1>4, <1>7 DEF Kinds
    <3>5. QED
      BY <1>7, <2>1, <2>3, <3>3, <3>4, MarkdownBlock DEF b
  <2>4. QED
    BY <2>2, <2>3
<1>8. CASE element.tag = "para"
  <2>1. Composed(element) = (IF SoleImage THEN <<Block("image", 0, local.words)>> ELSE Paragraph(local.words))
    BY <1>8 DEF Composed
  <2>2. CASE SoleImage
    BY <1>6, <1>8, <2>1, <2>2, "image" \in Kinds DEF Kinds
  <2>3. CASE ~SoleImage /\ local.words = <<>>
    BY <1>5, <1>8, <2>1, <2>3 DEF Paragraph
  <2>4. CASE ~SoleImage /\ local.words # <<>>
    <3>1. blocks' = blocks \o <<Block("paragraph", 0, local.words)>>
      BY <2>1, <2>4 DEF Paragraph
    <3>2. "paragraph" \in Kinds
      BY DEF Kinds
    <3>3. QED
      BY <1>6, <1>8, <3>1, <3>2
  <2>5. QED
    BY <2>2, <2>3, <2>4
<1>9. CASE element.tag = "quote"
  <2>1. Composed(element) = <<Block("quote", 0, local.words)>> /\ "quote" \in Kinds
    BY <1>9 DEF Composed, Kinds
  <2>2. QED
    BY <1>6, <1>9, <2>1
<1>10. CASE element.tag \in {"list", "table"}
  <2>1. /\ Composed(element) = (IF Children = {} THEN <<>> ELSE <<Block(element.tag, 0, local.words)>>)
        /\ element.tag \in Kinds
    BY <1>10 DEF Composed, Kinds
  <2>2. CASE Children = {}
    BY <1>5, <1>10, <2>1, <2>2
  <2>3. CASE Children # {}
    BY <1>6, <1>10, <2>1, <2>3
  <2>4. QED
    BY <2>2, <2>3
<1>11. QED
  BY <1>2, <1>7, <1>8, <1>9, <1>10 DEF Tops

\* Every step keeps the invariant of Markdown.
LEMMA MarkdownKept == MarkdownInv /\ MdNext => MarkdownInv'
<1> SUFFICES ASSUME MarkdownInv, MdNext PROVE MarkdownInv'
  OBVIOUS
<1>1. format = "markdown" /\ Reading /\ UNCHANGED <<upload, format, vocabulary>> /\ format \in Five
  BY DEF MdNext, MdElement, MdText, MdImage, MdLeaf, MdRawHtml, MdFence, MdFrontMatter, MdEnd, MdEof, Five
<1>2. MarkdownOK(read, open, local, blocks) /\ DOMAIN local = {"modes", "words", "fence"}
  BY <1>1, MarkdownFacts DEF MarkdownInv, Markdown
<1>3. CASE MdElement
  <2>1. PICK token \in vocabulary.tokens :
           /\ token.tag \in {"heading", "list", "quote", "para", "table", "item", "cell", "span"}
           /\ MdMayContain(Parent, token.tag) /\ Write(token) /\ Enter
           /\ local' = [local EXCEPT
                  !.modes = Append(@, IF MdMode = "blocks" THEN MdContents(token.tag) ELSE MdMode),
                  !.words = IF MdMode = "blocks" THEN <<>> ELSE @,
                  !.fence = Past(@)]
           /\ UNCHANGED <<blocks, title, outcome>>
    BY <1>3 DEF MdElement
  <2> DEFINE mode == IF MdMode = "blocks" THEN MdContents(token.tag) ELSE MdMode
  <2>2. /\ Form' /\ Grows(read, read') /\ Here \in Nat /\ Here = Len(read) + 1
        /\ read'[Here] = [tag |-> token.tag, arg |-> token.arg, inside |-> open]
    BY <1>1, <2>1, WriteForm DEF MarkdownInv
  <2>3. Document'
    BY <1>1, <2>1, <2>2, QuietDocument DEF MarkdownInv, Reading
  <2>4. /\ local'.modes = Append(local.modes, mode) /\ DOMAIN local' = {"modes", "words", "fence"}
        /\ local'.words = IF MdMode = "blocks" THEN <<>> ELSE local.words
    BY <1>2, <2>1
  <2>5. /\ open' = Append(open, Here) /\ open \in Seq(Nat) /\ Len(open) \in Nat
        /\ Len(open') = Len(open) + 1 /\ (Len(open) = 0 => open'[1] = Here)
        /\ (Len(open) > 0 => open'[1] = open[1])
    BY <1>1, <2>1, <2>2, MarkdownFacts DEF Enter
  <2>6. mode \in {"plain", "inline"}
    <3>1. MdMode \in {"blocks", "plain", "inline"}
      BY <1>1, MarkdownFacts
    <3>2. MdContents(token.tag) \in {"plain", "inline"}
      BY DEF MdContents
    <3>3. QED
      BY <3>1, <3>2
  <2> HIDE DEF mode
  <2>7. /\ local'.modes \in Seq({"blocks", "plain", "inline"})
        /\ Len(local'.modes) = Len(open') + 1 /\ local'.modes[1] = "blocks"
        /\ \A k \in 2..Len(local'.modes) : local'.modes[k] # "blocks"
    <3>1. /\ local.modes \in Seq({"blocks", "plain", "inline"}) /\ Len(local.modes) = Len(open) + 1
          /\ local.modes[1] = "blocks" /\ \A k \in 2..Len(local.modes) : local.modes[k] # "blocks"
      BY <1>2 DEF MarkdownOK
    <3>2. QED
      BY <2>4, <2>5, <2>6, <3>1
  <2>8. CASE Len(open) = 0
    <3>1. MdMode = "blocks" /\ Parent = "root"
      BY <1>1, <2>8, MarkdownFacts DEF Parent
    <3>2. local'.words = <<>> /\ open'[1] = Here
      BY <2>4, <2>5, <2>8, <3>1
    <3>3. token.tag \in Tops
      BY <2>1, <3>1 DEF MdMayContain, Tops
    <3>4. Pending("markdown", Len(read'), blocks', "paragraph", local'.words)
      BY <3>2, NothingPending
    <3>5. \A i \in DOMAIN local'.words : open'[1] \in Inside(read', local'.words[i])
      BY <3>2
    <3>6. read'[open'[1]].tag \in Tops
      BY <2>2, <3>2, <3>3
    <3>7. MarkdownOK(read', open', local', blocks')
      BY <2>4, <2>7, <3>4, <3>5, <3>6 DEF MarkdownOK
    <3>8. QED
      BY <2>2, <2>3, <3>7 DEF MarkdownInv, Markdown
  <2>9. CASE Len(open) > 0
    <3>1. MdMode # "blocks"
      BY <1>1, <2>9, MarkdownFacts
    <3>2. local'.words = local.words /\ open'[1] = open[1] /\ blocks' = blocks
      BY <2>1, <2>4, <2>5, <2>9, <3>1
    <3>3. MarkdownOK(read', open, local, blocks)
      BY <1>2, <2>2, MarkdownGrows, FormFacts DEF MarkdownInv
    <3>4. MarkdownOK(read', open', local', blocks')
      BY <2>4, <2>7, <2>9, <3>2, <3>3 DEF MarkdownOK
    <3>5. QED
      BY <2>2, <2>3, <3>4 DEF MarkdownInv, Markdown
  <2>10. QED
    BY <2>5, <2>8, <2>9
<1>4. CASE MdText
  <2>1. /\ Write(Token("text", "")) /\ Token("text", "").tag # "title" /\ Len(open) > 0
        /\ UNCHANGED <<open, blocks, title, outcome>>
    BY <1>1, <1>4, MarkdownFacts DEF MdText, Token
  <2>2. /\ local'.modes = local.modes /\ local'.words = Append(local.words, Here)
        /\ DOMAIN local' = DOMAIN local
    BY <1>2, <1>4 DEF MdText
  <2>3. QED
    BY <1>1, <2>1, <2>2, MarkdownWord
<1>5. CASE MdImage
  <2>1. /\ Write(Token("image", "")) /\ Token("image", "").tag # "title" /\ Len(open) > 0
        /\ UNCHANGED <<open, blocks, title, outcome>>
    BY <1>1, <1>5, MarkdownFacts DEF MdImage, Token
  <2>2. CASE MdMode = "plain"
    <3>1. local' = local
      BY <1>5, <2>2 DEF MdImage
    <3>2. QED
      BY <1>1, <2>1, <3>1, MarkdownQuiet
  <2>3. CASE MdMode # "plain"
    <3>1. /\ local'.modes = local.modes /\ local'.words = Append(local.words, Here)
          /\ DOMAIN local' = DOMAIN local
      BY <1>2, <1>5, <2>3 DEF MdImage
    <3>2. QED
      BY <1>1, <2>1, <3>1, MarkdownWord
  <2>4. QED
    BY <2>2, <2>3
<1>6. CASE MdLeaf
  <2>1. PICK tag \in {"code", "html"} :
           /\ Write(Token(tag, ""))
           /\ blocks' = IF tag = "code" /\ MdMode = "blocks"
                        THEN Append(blocks, Block("code", 0, <<Here>>)) ELSE blocks
           /\ local' = [local EXCEPT !.fence = Past(@)]
           /\ UNCHANGED <<upload, format, vocabulary, open, title, outcome>>
    BY <1>6 DEF MdLeaf
  <2>2. Token(tag, "").tag # "title" /\ local'.modes = local.modes /\ local'.words = local.words
        /\ DOMAIN local' = DOMAIN local
    BY <1>2, <2>1 DEF Token
  <2>3. CASE blocks' = blocks
    BY <1>1, <2>1, <2>2, <2>3, MarkdownQuiet
  <2>4. CASE MdMode = "blocks" /\ blocks' = Append(blocks, Block("code", 0, <<Here>>))
    <3>1. /\ Form' /\ Grows(read, read') /\ Here = Len(read) + 1 /\ Len(read') = Here
      BY <1>1, <2>1, <2>2, WriteForm DEF MarkdownInv
    <3>2. /\ Good(format, read', blocks) /\ TitleOf(blocks, title) /\ Len(open) = 0
          /\ Doc(format, Len(read), blocks) /\ Len(read) \in Nat
      BY <1>1, <2>4, <3>1, GoodGrows, MarkdownFacts DEF MarkdownInv, Form, Five
    <3>3. Block("code", 0, <<Here>>).kind = "code"
      BY DEF Block
    <3>4. Fits(Len(read'), Block("code", 0, <<Here>>))
      <4>1. "code" \in Kinds /\ 0 \in Int /\ ("code" = "heading") = (0 \in 1..6)
        BY DEF Kinds
      <4>2. Len(read') \in Nat /\ Here \in 1..Len(read')
        BY <3>1, <3>2
      <4>3. QED
        BY <4>1, <4>2, FitsOne
    <3>5. Behind(format, blocks, Block("code", 0, <<Here>>))
      <4>1. Here \in Nat /\ Len(read) < Here
        BY <3>1, <3>2
      <4>2. QED
        BY <3>2, <4>1, BehindNext
    <3>6. Lawful(format, read', Block("code", 0, <<Here>>))
      BY <1>1, <3>3 DEF Lawful
    <3>7. Document'
      <4> DEFINE b == Block("code", 0, <<Here>>)
      <4>1. b.kind # "heading" /\ Fits(Len(read'), b) /\ Behind(format, blocks, b) /\ Lawful(format, read', b)
        BY <3>3, <3>4, <3>5, <3>6
      <4>2. blocks' = Append(blocks, b) /\ title' = title
        BY <2>1, <2>4
      <4>4. Len(read') \in Nat
        BY <3>1, <3>2
      <4> HIDE DEF b
      <4>3. QED
        BY <1>1, <2>1, <3>2, <4>1, <4>2, <4>4, AppendDocument
    <3>8. MarkdownOK(read', open, local', blocks')
      <4>1. ~(Len(open) > 0)
        BY <3>2
      <4>2. QED
        BY <1>2, <2>2, <4>1, Zenon DEF MarkdownOK
    <3>9. QED
      BY <2>1, <3>1, <3>7, <3>8 DEF MarkdownInv, Markdown
  <2>5. QED
    BY <2>1, <2>3, <2>4
<1>7. CASE MdRawHtml
  <2>1. Token("tag", "").tag # "title"
    BY DEF Token
  <2>2. QED
    BY <1>1, <1>7, <2>1, MarkdownQuiet DEF MdRawHtml
<1>8. CASE MdFence
  <2>1. PICK after \in {"rule", "inside", "after", "none"} :
           /\ local' = [local EXCEPT !.fence = after]
           /\ blocks' = IF local.fence = "inside" \/ after = "inside" THEN blocks
                        ELSE Append(blocks, Block("rule", 0, <<>>))
    BY <1>8 DEF MdFence
  <2>2. /\ Write(Token("hr", "")) /\ UNCHANGED <<upload, format, vocabulary, open, title, outcome>>
        /\ Token("hr", "").tag # "title"
    BY <1>8 DEF MdFence, Token
  <2>3. local'.modes = local.modes /\ local'.words = local.words /\ DOMAIN local' = DOMAIN local
    BY <1>2, <2>1
  <2>4. CASE blocks' = blocks
    BY <1>1, <2>2, <2>3, <2>4, MarkdownQuiet
  <2>5. CASE blocks' = Append(blocks, Block("rule", 0, <<>>))
    <3> DEFINE b == Block("rule", 0, <<>>)
    <3>1. /\ Form' /\ Grows(read, read') /\ Len(read') \in Nat
      BY <1>1, <2>2, WriteForm DEF MarkdownInv
    <3>2. Good(format, read', blocks) /\ TitleOf(blocks, title) /\ blocks \in Seq(BlockRec)
      BY <1>1, <3>1, GoodGrows, MarkdownFacts DEF MarkdownInv, Form, Five
    <3>3. b.kind = "rule" /\ b.words = <<>>
      BY DEF Block
    <3>4. Fits(Len(read'), b)
      BY DEF Fits, Block, BlockRec, Kinds, Increasing, Upto
    <3>5. Behind(format, blocks, b) /\ Lawful(format, read', b) /\ b \in BlockRec
      BY <1>1, <3>3, <3>4 DEF Behind, InOrder, Precedes, Lawful, Fits
    <3> HIDE DEF b
    <3>6. Document'
      BY <1>1, <2>2, <2>5, <3>1, <3>2, <3>3, <3>4, <3>5, AppendDocument DEF b
    <3>7. MarkdownOK(read', open, local', blocks)
      BY <1>2, <2>3, <3>1, MarkdownGrows, FormFacts DEF MarkdownInv
    <3>8. \A w : Precedes(b.words, w)
      BY <3>3 DEF Precedes
    <3>9. Len(open) > 0 => Pending("markdown", Len(read'), blocks', "paragraph", local'.words)
      BY <2>5, <3>2, <3>5, <3>7, <3>8, PendingAfter DEF MarkdownOK, b
    <3>10. MarkdownOK(read', open, local', blocks')
      BY <3>7, <3>9 DEF MarkdownOK
    <3>11. QED
      BY <2>2, <3>1, <3>6, <3>10 DEF MarkdownInv, Markdown
  <2>6. QED
    BY <2>1, <2>4, <2>5
<1>9. CASE MdFrontMatter
  <2>1. Token("line", "").tag # "title"
    BY DEF Token
  <2>2. QED
    BY <1>1, <1>9, <2>1, MarkdownQuiet DEF MdFrontMatter
<1>10. CASE MdEnd
  <2> DEFINE element == read[Last(open)]
             top == Len(local.modes) = 2
  <2>1. /\ Leave /\ UNCHANGED <<read, outcome>> /\ local' = [local EXCEPT !.modes = Front(@)]
        /\ blocks' = IF top THEN blocks \o Composed(element) ELSE blocks
        /\ title' = IF top /\ element.tag = "heading" THEN TitleAfter(element.arg, local.words) ELSE title
    BY <1>10 DEF MdEnd
  <2>2. /\ Form' /\ Grows(read, read') /\ Len(open) \in Nat \ {0} /\ Len(open') = Len(open) - 1
        /\ \A i \in 1..(Len(open) - 1) : open'[i] = open[i]
        /\ Last(open) = open[Len(open)]
    BY <1>1, <2>1, LeaveForm DEF MarkdownInv
  <2>3. /\ local'.modes = Front(local.modes) /\ local'.words = local.words
        /\ DOMAIN local' = {"modes", "words", "fence"}
    BY <1>2, <2>1
  <2>4. /\ local.modes \in Seq({"blocks", "plain", "inline"}) /\ Len(local.modes) = Len(open) + 1
        /\ local.modes[1] = "blocks" /\ \A k \in 2..Len(local.modes) : local.modes[k] # "blocks"
    BY <1>2 DEF MarkdownOK
  <2>5. /\ local'.modes \in Seq({"blocks", "plain", "inline"})
        /\ Len(local'.modes) = Len(open') + 1 /\ local'.modes[1] = "blocks"
        /\ \A k \in 2..Len(local'.modes) : local'.modes[k] # "blocks"
    <3>1. Len(local.modes) > 0 /\ Len(local.modes) - 1 = Len(open)
      BY <2>2, <2>4
    <3>2. /\ Front(local.modes) \in Seq({"blocks", "plain", "inline"})
          /\ Len(Front(local.modes)) = Len(open)
          /\ \A i \in 1..Len(open) : Front(local.modes)[i] = local.modes[i]
      BY <2>4, <3>1, FrontFacts
    <3>3. QED
      BY <2>2, <2>3, <2>4, <3>2
  <2>6. CASE Len(open) = 1
    <3>1. top /\ element = read[open[1]]
      BY <2>2, <2>4, <2>6
    <3>2. /\ blocks' = blocks \o Composed(element)
          /\ title' = IF element.tag = "heading" THEN TitleAfter(element.arg, local.words) ELSE title
      BY <2>1, <3>1
    <3> HIDE DEF element, top
    <3>3. Document'
      BY <1>1, <2>1, <2>6, <3>1, <3>2, MarkdownTop
    <3>4. MarkdownOK(read', open', local', blocks')
      BY <2>2, <2>3, <2>5, <2>6 DEF MarkdownOK
    <3>5. QED
      BY <2>2, <3>3, <3>4 DEF MarkdownInv, Markdown
  <2>7. CASE Len(open) > 1
    <3>1. ~top /\ open'[1] = open[1] /\ blocks' = blocks /\ title' = title
      BY <2>1, <2>2, <2>4, <2>7
    <3>2. Document'
      BY <1>1, <2>1, <2>2, <3>1, QuietDocument DEF MarkdownInv, Reading
    <3>3. MarkdownOK(read', open', local', blocks')
      BY <1>2, <2>1, <2>3, <2>5, <2>7, <3>1 DEF MarkdownOK
    <3>4. QED
      BY <2>2, <3>2, <3>3 DEF MarkdownInv, Markdown
  <2>8. QED
    BY <2>2, <2>6, <2>7
<1>11. CASE MdEof
  <2>1. EndOfSource(<<>>) /\ UNCHANGED <<read, open, blocks>>
    BY <1>11 DEF MdEof
  <2>2. TitleTokens(read) = {}
    BY <1>1, NoTitleTokens DEF MarkdownInv
  <2>3. Document' /\ outcome' = "parsed"
    BY <1>1, <2>1, <2>2, EndDocument DEF MarkdownInv, PageOK
  <2>4. Form'
    BY <1>1, <2>1, SameForm DEF MarkdownInv
  <2>5. QED
    BY <2>3, <2>4 DEF MarkdownInv, Markdown, Reading
<1>12. QED
  BY <1>3, <1>4, <1>5, <1>6, <1>7, <1>8, <1>9, <1>10, <1>11 DEF MdNext

---------------------------------------------------------------------------
(* DOCX *)

\* Documents with the same headings.
LEMMA SameHeadsIf ==
    ASSUME NEW bs \in Seq(BlockRec), NEW cs \in Seq(BlockRec), Len(bs) <= Len(cs),
           \A k \in DOMAIN bs : /\ cs[k].kind = bs[k].kind
                                /\ bs[k].kind = "heading" => cs[k] = bs[k],
           \A k \in DOMAIN cs \ DOMAIN bs : cs[k].kind # "heading"
    PROVE  SameHeads(bs, cs)
<1>1. /\ DOMAIN bs = 1..Len(bs) /\ DOMAIN cs = 1..Len(cs) /\ Len(bs) \in Nat /\ Len(cs) \in Nat
      /\ DOMAIN bs \subseteq DOMAIN cs
  OBVIOUS
<1>2. ASSUME NEW k \in DOMAIN cs, cs[k].kind = "heading" PROVE k \in DOMAIN bs /\ cs[k] = bs[k]
  BY <1>2
<1>3. Heads(cs) = Heads(bs) /\ Ones(cs) = Ones(bs)
  BY <1>1, <1>2 DEF Heads, Ones
<1>4. ASSUME NEW ks, ks \subseteq Heads(bs) PROVE FirstOf(cs, ks) = FirstOf(bs, ks)
  <2>1. CASE ks = {}
    BY <2>1 DEF FirstOf
  <2>2. CASE ks # {}
    <3>1. ks \subseteq Nat
      BY <1>1, <1>4 DEF Heads
    <3>2. Min(ks) \in ks
      BY <2>2, <3>1, MinIs
    <3>3. cs[Min(ks)] = bs[Min(ks)]
      BY <1>4, <3>2 DEF Heads
    <3>4. QED
      BY <2>2, <3>3 DEF FirstOf
  <2>3. QED
    BY <2>1, <2>2
<1>5. Ones(bs) \subseteq Heads(bs)
  BY DEF Ones, Heads
<1>6. QED
  BY <1>2, <1>3, <1>4, <1>5 DEF SameHeads

\* Several blocks at once, none of them a heading.
LEMMA GoodConcat ==
    ASSUME NEW f, NEW r, Len(r) \in Nat, NEW bs, Good(f, r, bs), NEW cs \in Seq(BlockRec),
           \A k \in DOMAIN cs : /\ Fits(Len(r), cs[k]) /\ Lawful(f, r, cs[k]) /\ cs[k].kind # "heading"
                                /\ Behind(f, bs, cs[k]),
           \A k, l \in DOMAIN cs : k < l => InOrder(f, cs[k], cs[l])
    PROVE  Good(f, r, bs \o cs) /\ SameHeads(bs, bs \o cs)
<1> DEFINE ds == bs \o cs
<1>1. bs \in Seq(BlockRec)
  BY DEF Good, Doc
<1>2. /\ ds \in Seq(BlockRec) /\ Len(ds) = Len(bs) + Len(cs) /\ Len(bs) \in Nat /\ Len(cs) \in Nat
      /\ DOMAIN ds = 1..(Len(bs) + Len(cs)) /\ DOMAIN bs = 1..Len(bs) /\ DOMAIN cs = 1..Len(cs)
      /\ \A k \in DOMAIN bs : ds[k] = bs[k]
      /\ \A k \in DOMAIN cs : ds[Len(bs) + k] = cs[k]
  BY <1>1
<1> HIDE DEF ds
<1>3. ASSUME NEW k \in DOMAIN ds, k \notin DOMAIN bs
      PROVE  k - Len(bs) \in DOMAIN cs /\ ds[k] = cs[k - Len(bs)]
  <2>1. k - Len(bs) \in DOMAIN cs /\ Len(bs) + (k - Len(bs)) = k
    BY <1>2, <1>3
  <2>2. QED
    BY <1>2, <2>1
<1>4. ASSUME NEW k \in DOMAIN ds PROVE Fits(Len(r), ds[k]) /\ Lawful(f, r, ds[k])
  <2>1. CASE k \in DOMAIN bs
    BY <1>2, <2>1 DEF Good, Doc
  <2>2. CASE k \notin DOMAIN bs
    BY <1>3, <2>2
  <2>3. QED
    BY <2>1, <2>2
<1>5. ASSUME NEW k \in DOMAIN ds, NEW l \in DOMAIN ds, k < l PROVE InOrder(f, ds[k], ds[l])
  <2>1. CASE l \in DOMAIN bs
    <3>1. k \in DOMAIN bs
      BY <1>2, <1>5, <2>1
    <3>2. QED
      BY <1>2, <1>5, <2>1, <3>1 DEF Good, Doc
  <2>2. CASE l \notin DOMAIN bs /\ k \in DOMAIN bs
    BY <1>2, <1>3, <2>2 DEF Behind
  <2>3. CASE l \notin DOMAIN bs /\ k \notin DOMAIN bs
    <3>1. k - Len(bs) < l - Len(bs)
      BY <1>2, <1>5
    <3>2. QED
      BY <1>3, <2>3, <3>1
  <2>4. QED
    BY <2>1, <2>2, <2>3
<1>6. Good(f, r, ds)
  BY <1>2, <1>4, <1>5 DEF Good, Doc
<1>7. SameHeads(bs, ds)
  <2>1. \A k \in DOMAIN ds \ DOMAIN bs : ds[k].kind # "heading"
    BY <1>3
  <2>2. Len(bs) <= Len(ds)
    BY <1>2
  <2>3. QED
    BY <1>1, <1>2, <2>1, <2>2, SameHeadsIf
<1>8. QED
  BY <1>6, <1>7 DEF ds

\* What holds of a DOCX holds when more of it is read.
LEMMA DocxGrows ==
    ASSUME NEW r, NEW s, Grows(r, s), NEW o, NEW l, NEW bs, DocxOK(r, o, l, bs)
    PROVE  DocxOK(s, o, l, bs)
<1>1. /\ Len(r) \in Nat /\ Len(s) \in Nat /\ Len(r) <= Len(s) /\ DOMAIN r = 1..Len(r)
      /\ DOMAIN r \subseteq DOMAIN s
  BY DEF Grows
<1>2. /\ \A i \in DOMAIN l.words : l.words[i] \in DOMAIN r
      /\ \A i \in DOMAIN l.pics : l.pics[i] \in DOMAIN r
  BY <1>1 DEF DocxOK, Pending, Upto
<1>3. \A i \in DOMAIN r : s[i] = r[i] /\ Inside(s, i) = Inside(r, i)
  BY DEF Grows, Inside
<1>4. /\ Pending("docx", Len(s), bs, "paragraph", l.words)
      /\ Pending("docx", Len(s), bs, "image", l.pics)
  BY <1>1, PendingWider DEF DocxOK
<1>5. ASSUME l.mode = "p" PROVE \E p \in DOMAIN s : InParagraph(s, o, l, p)
  <2>1. PICK p \in DOMAIN r : InParagraph(r, o, l, p)
    BY <1>5 DEF DocxOK
  <2>2. /\ s[p].tag = "p" /\ p \in DOMAIN s
        /\ \A i \in DOMAIN l.words : p \in Inside(s, l.words[i])
    BY <1>1, <1>2, <1>3, <2>1 DEF InParagraph
  <2>3. ASSUME l.style # "" \/ l.outline # -1
        PROVE  \E q \in DOMAIN s : s[q].tag \in {"style", "outline"} /\ p \in Inside(s, q)
    <3>1. PICK q \in DOMAIN r : r[q].tag \in {"style", "outline"} /\ p \in Inside(r, q)
      BY <2>1, <2>3 DEF InParagraph
    <3>2. QED
      BY <1>1, <1>3, <3>1
  <2>4. QED
    BY <2>1, <2>2, <2>3 DEF InParagraph
<1>6. QED
  BY <1>2, <1>3, <1>4, <1>5 DEF DocxOK

\* What the invariant says of DOCX, for its steps.
LEMMA DocxFacts ==
    ASSUME DocxInv, format = "docx", Reading
    PROVE  /\ DocxOK(read, open, local, blocks) /\ format \in Five
           /\ DOMAIN local = {"mode", "words", "pics", "style", "outline", "numbered", "rows", "budget"}
           /\ Good(format, read, blocks) /\ TitleOf(blocks, title)
           /\ blocks \in Seq(BlockRec) /\ Doc("docx", Len(read), blocks) /\ Len(read) \in Nat
           /\ Len(open) \in Nat /\ open \in Seq(Nat) /\ DOMAIN open = 1..Len(open)
           /\ \A j \in DOMAIN open : open[j] \in DOMAIN read
<1>1. DocxOK(read, open, local, blocks) /\ format \in Five
  BY DEF DocxInv, Docx, Five
<1>2. Good(format, read, blocks) /\ TitleOf(blocks, title)
  BY DEF DocxInv, Document
<1>3. Doc("docx", Len(read), blocks) /\ blocks \in Seq(BlockRec)
  BY <1>2 DEF Good, Doc
<1>4. QED
  BY <1>1, <1>2, <1>3, FormFacts DEF DocxInv, DocxOK

\* The level of a paragraph is one of Markdown, and none without a style or an outline.
LEMMA LevelRange ==
    ASSUME local.style \in Bases, local.outline \in Int
    PROVE  /\ MarkdownLevel(ParagraphLevel) \in 0..6
           /\ MarkdownLevel(ParagraphLevel) > 0 => local.style # "" \/ local.outline # -1
<1>1. PICK inherited \in 0..9 : LevelFor(local.style) = inherited
  BY LevelForRange
<1>2. PICK outline \in Int : local.outline = outline
  OBVIOUS
<1>3. ParagraphLevel = IF outline \in 0..8 THEN outline + 1
                       ELSE IF local.style # "" THEN inherited ELSE 0
  BY <1>1, <1>2, Zenon DEF ParagraphLevel
<1>4. ParagraphLevel \in 0..9 /\ (ParagraphLevel # 0 => local.style # "" \/ local.outline # -1)
  <2>1. CASE outline \in 0..8
    <3>1. ParagraphLevel = outline + 1
      BY <1>3, <2>1
    <3>2. outline + 1 \in 0..9 /\ outline # -1
      BY <2>1
    <3>3. QED
      BY <1>2, <3>1, <3>2, Zenon
  <2>2. CASE outline \notin 0..8 /\ local.style # ""
    <3>1. ParagraphLevel = inherited
      BY <1>3, <2>2
    <3>2. QED
      BY <2>2, <3>1
  <2>3. CASE outline \notin 0..8 /\ local.style = ""
    <3>1. ParagraphLevel = 0
      BY <1>3, <2>3
    <3>2. QED
      BY <3>1
  <2>4. QED
    BY <2>1, <2>2, <2>3
<1>5. ASSUME NEW level \in 0..9, ParagraphLevel = level
      PROVE  /\ MarkdownLevel(ParagraphLevel) \in 0..6
             /\ MarkdownLevel(ParagraphLevel) > 0 => ParagraphLevel # 0
  BY <1>5 DEF MarkdownLevel
<1>6. QED
  BY <1>4, <1>5

\* A sequence after another.
LEMMA ConcatFacts ==
    ASSUME NEW S, NEW s \in Seq(S), NEW t \in Seq(S), NEW u, u = s \o t
    PROVE  /\ u \in Seq(S) /\ Len(s) \in Nat /\ Len(t) \in Nat /\ Len(u) = Len(s) + Len(t)
           /\ DOMAIN s = 1..Len(s) /\ DOMAIN t = 1..Len(t) /\ DOMAIN u = 1..(Len(s) + Len(t))
           /\ \A i \in DOMAIN s : u[i] = s[i]
           /\ \A i \in DOMAIN t : u[Len(s) + i] = t[i]
           /\ \A i \in DOMAIN u : i \in DOMAIN s \/ i - Len(s) \in DOMAIN t
           /\ \A i \in DOMAIN u : i - Len(s) \in DOMAIN t => u[i] = t[i - Len(s)]
<1>1. /\ u \in Seq(S) /\ Len(s) \in Nat /\ Len(t) \in Nat /\ Len(u) = Len(s) + Len(t)
      /\ DOMAIN s = 1..Len(s) /\ DOMAIN t = 1..Len(t) /\ DOMAIN u = 1..(Len(s) + Len(t))
      /\ \A i \in DOMAIN s : u[i] = s[i]
      /\ \A i \in DOMAIN t : u[Len(s) + i] = t[i]
  OBVIOUS
<1>2. ASSUME NEW i \in DOMAIN u PROVE i \in DOMAIN s \/ i - Len(s) \in DOMAIN t
  BY <1>1
<1>3. ASSUME NEW i \in DOMAIN u, i - Len(s) \in DOMAIN t PROVE u[i] = t[i - Len(s)]
  <2>1. Len(s) + (i - Len(s)) = i
    BY <1>1
  <2>2. QED
    BY <1>1, <1>3, <2>1
<1>4. QED
  BY <1>1, <1>2, <1>3

\* The words of a list go on with more of them.
LEMMA GoodMerge ==
    ASSUME NEW r, Len(r) \in Nat, NEW bs, Good("docx", r, bs), bs # <<>>,
           NEW w, Pending("docx", Len(r), bs, "paragraph", w),
           \A i \in DOMAIN w : r[w[i]].tag # "image",
           bs[Len(bs)].kind = "list",
           NEW cs, cs = [bs EXCEPT ![Len(bs)].words = @ \o w]
    PROVE  Good("docx", r, cs) /\ SameHeads(bs, cs)
<1> DEFINE n == Len(bs)
           b == bs[n]
           v == b.words \o w
           c == [b EXCEPT !.words = v]
<1>1. /\ bs \in Seq(BlockRec) /\ n \in Nat \ {0} /\ DOMAIN bs = 1..n /\ n \in DOMAIN bs
      /\ Doc("docx", Len(r), bs)
  BY DEF Good, Doc
<1>2. Fits(Len(r), b) /\ Lawful("docx", r, b) /\ b \in BlockRec
  BY <1>1 DEF Good, Doc, Fits
<1>3. /\ b.words \in Seq(Nat) /\ w \in Seq(Nat)
      /\ Increasing(b.words) /\ Upto(Len(r), b.words) /\ Increasing(w) /\ Upto(Len(r), w)
  BY <1>2 DEF Fits, BlockRec, Pending
<1>4. Precedes(b.words, w)
  BY <1>1 DEF Pending, Behind, InOrder, Apart, Block
<1>5. /\ v \in Seq(Nat) /\ Len(v) = Len(b.words) + Len(w)
      /\ Len(b.words) \in Nat /\ Len(w) \in Nat
      /\ DOMAIN v = 1..(Len(b.words) + Len(w))
      /\ DOMAIN b.words = 1..Len(b.words) /\ DOMAIN w = 1..Len(w)
      /\ \A i \in DOMAIN b.words : v[i] = b.words[i]
      /\ \A i \in DOMAIN w : v[Len(b.words) + i] = w[i]
  <2>1. v = b.words \o w
    OBVIOUS
  <2> HIDE DEF v, b
  <2>2. PICK x : x = b.words
    OBVIOUS
  <2>3. x \in Seq(Nat) /\ w \in Seq(Nat) /\ v = x \o w
    BY <1>3, <2>1, <2>2
  <2>4. /\ v \in Seq(Nat) /\ Len(v) = Len(x) + Len(w)
        /\ Len(x) \in Nat /\ Len(w) \in Nat
        /\ DOMAIN v = 1..(Len(x) + Len(w))
        /\ DOMAIN x = 1..Len(x) /\ DOMAIN w = 1..Len(w)
        /\ \A i \in DOMAIN x : v[i] = x[i]
        /\ \A i \in DOMAIN w : v[Len(x) + i] = w[i]
    BY ONLY <2>3, ConcatFacts, SMTT(30)
  <2>5. QED
    BY <2>2, <2>4, Zenon
<1>6. c \in BlockRec /\ c.kind = "list" /\ c.words = v /\ c.level = b.level
  BY <1>2, <1>5 DEF BlockRec
<1>7. /\ cs \in Seq(BlockRec) /\ Len(cs) = n /\ DOMAIN cs = 1..n /\ cs[n] = c
      /\ \A k \in DOMAIN bs : k # n => cs[k] = bs[k]
  BY <1>1, <1>6
<1> HIDE DEF n, b, v, c
<1>8. ASSUME NEW i \in DOMAIN v PROVE i \in DOMAIN b.words \/ i - Len(b.words) \in DOMAIN w
  BY <1>5
<1>9. ASSUME NEW i \in DOMAIN v, i - Len(b.words) \in DOMAIN w PROVE v[i] = w[i - Len(b.words)]
  <2>1. Len(b.words) + (i - Len(b.words)) = i
    BY <1>5
  <2>2. QED
    BY <1>5, <1>9, <2>1
<1>10. Upto(Len(r), v)
  BY <1>3, <1>5, <1>8, <1>9 DEF Upto
<1>11. Increasing(v)
  <2>1. ASSUME NEW i \in DOMAIN v, NEW j \in DOMAIN v, i < j PROVE v[i] < v[j]
    <3>1. CASE j \in DOMAIN b.words
      <4>1. i \in DOMAIN b.words
        BY <1>5, <2>1, <3>1
      <4>2. QED
        BY <1>3, <1>5, <2>1, <3>1, <4>1 DEF Increasing
    <3>2. CASE i \in DOMAIN b.words /\ j - Len(b.words) \in DOMAIN w
      BY <1>4, <1>5, <1>9, <3>2 DEF Precedes
    <3>3. CASE i - Len(b.words) \in DOMAIN w /\ j - Len(b.words) \in DOMAIN w
      <4>1. i - Len(b.words) < j - Len(b.words)
        BY <1>5, <2>1
      <4>2. QED
        BY <1>3, <1>9, <3>3, <4>1 DEF Increasing
    <3>4. QED
      BY <1>8, <3>1, <3>2, <3>3
  <2>2. QED
    BY <2>1 DEF Increasing
<1>12. Fits(Len(r), c)
  <2>1. b.kind = "list" /\ (b.kind = "heading") = (b.level \in 1..6)
    BY <1>2 DEF Fits, b, n
  <2>2. QED
    BY <1>6, <1>10, <1>11, <2>1 DEF Fits
<1>13. Lawful("docx", r, c)
  <2>1. b.kind = "list" /\ \A i \in DOMAIN b.words : r[b.words[i]].tag # "image"
    BY <1>2 DEF Lawful, b, n
  <2>2. \A i \in DOMAIN v : r[v[i]].tag # "image"
    BY <1>5, <1>8, <1>9, <2>1
  <2>3. QED
    BY <1>6, <2>2 DEF Lawful
<1>14. ASSUME NEW k \in DOMAIN bs, k # n PROVE InOrder("docx", bs[k], c)
  <2>1. InOrder("docx", bs[k], b) /\ InOrder("docx", bs[k], Block("paragraph", 0, w))
    BY <1>1, <1>14 DEF Doc, Pending, Behind, b
  <2>2. CASE bs[k].kind = "image"
    BY <1>6, <2>2 DEF InOrder, Apart
  <2>3. CASE bs[k].kind # "image"
    <3>1. b.kind = "list"
      BY DEF b, n
    <3>2. Precedes(bs[k].words, b.words) /\ Precedes(bs[k].words, w)
      BY <2>1, <2>3, <3>1 DEF InOrder, Apart, Block
    <3>3. Precedes(bs[k].words, v)
      BY <1>5, <1>8, <1>9, <3>2 DEF Precedes
    <3>4. QED
      BY <1>6, <3>3 DEF InOrder
  <2>4. QED
    BY <2>2, <2>3
<1>15. ASSUME NEW k \in DOMAIN cs PROVE Fits(Len(r), cs[k]) /\ Lawful("docx", r, cs[k])
  <2>1. CASE k = n
    BY <1>7, <1>12, <1>13, <2>1
  <2>2. CASE k # n
    BY <1>1, <1>7, <2>2 DEF Good, Doc
  <2>3. QED
    BY <2>1, <2>2
<1>16. ASSUME NEW k \in DOMAIN cs, NEW l \in DOMAIN cs, k < l PROVE InOrder("docx", cs[k], cs[l])
  <2>1. k # n /\ k \in DOMAIN bs /\ l \in DOMAIN bs
    BY <1>1, <1>7, <1>16
  <2>2. CASE l = n
    BY <1>7, <1>14, <2>1, <2>2
  <2>3. CASE l # n
    BY <1>1, <1>7, <1>16, <2>1, <2>3 DEF Doc
  <2>4. QED
    BY <2>2, <2>3
<1>17. Good("docx", r, cs)
  BY <1>7, <1>15, <1>16 DEF Good, Doc
<1>18. SameHeads(bs, cs)
  <2>1. b.kind = "list"
    BY DEF b, n
  <2>2. \A k \in DOMAIN bs : cs[k].kind = bs[k].kind /\ (bs[k].kind = "heading" => cs[k] = bs[k])
    BY <1>6, <1>7, <2>1 DEF b
  <2>3. Len(bs) <= Len(cs) /\ DOMAIN cs \ DOMAIN bs = {}
    BY <1>1, <1>7 DEF n
  <2>4. QED
    BY <1>1, <1>7, <2>2, <2>3, SameHeadsIf
<1>19. QED
  BY <1>17, <1>18

\* The images of a paragraph.
Shown(pics) == [i \in DOMAIN pics |-> Block("image", 0, <<pics[i]>>)]

\* The images of a paragraph are in order among themselves, whatever its texts are.
LEMMA GoodImages ==
    ASSUME NEW r, Len(r) \in Nat, NEW bs, Good("docx", r, bs), NEW pics,
           Pending("docx", Len(r), bs, "image", pics),
           \A i \in DOMAIN pics : r[pics[i]].tag = "image",
           NEW w, Pending("docx", Len(r), bs, "paragraph", w)
    PROVE  /\ Good("docx", r, bs \o Shown(pics)) /\ SameHeads(bs, bs \o Shown(pics))
           /\ Pending("docx", Len(r), bs \o Shown(pics), "paragraph", w)
           /\ \/ bs \o Shown(pics) = bs
              \/ (bs \o Shown(pics))[Len(bs \o Shown(pics))].kind = "image"
<1> DEFINE cs == Shown(pics)
           ds == bs \o cs
<1>1. /\ pics \in Seq(Nat) /\ Len(pics) \in Nat /\ DOMAIN pics = 1..Len(pics)
      /\ \A i \in DOMAIN pics : pics[i] \in 1..Len(r)
      /\ bs \in Seq(BlockRec) /\ Len(bs) \in Nat
  BY DEF Pending, Upto, Good, Doc
<1>2. \A i \in DOMAIN pics : Block("image", 0, <<pics[i]>>) \in BlockRec
  BY <1>1 DEF Block, BlockRec, Kinds
<1>3. /\ cs \in Seq(BlockRec) /\ Len(cs) = Len(pics) /\ DOMAIN cs = DOMAIN pics
      /\ \A i \in DOMAIN pics : /\ cs[i].kind = "image" /\ cs[i].words = <<pics[i]>>
                                /\ cs[i] = Block("image", 0, <<pics[i]>>)
  BY <1>1, <1>2 DEF Shown, Block
<1> HIDE DEF cs
<1>4. ASSUME NEW i \in DOMAIN cs
      PROVE  /\ Fits(Len(r), cs[i]) /\ Lawful("docx", r, cs[i]) /\ cs[i].kind # "heading"
             /\ Behind("docx", bs, cs[i])
  <2>1. PICK x \in 1..Len(r) : x = pics[i] /\ r[x].tag = "image"
    BY <1>1, <1>3
  <2>2. cs[i] = Block("image", 0, <<x>>) /\ cs[i].kind = "image" /\ cs[i].words = <<x>>
    BY <1>3, <2>1
  <2>3. Fits(Len(r), cs[i])
    <3>1. ("image" = "heading") = (0 \in 1..6) /\ "image" \in Kinds /\ 0 \in Int
      BY DEF Kinds
    <3>2. Fits(Len(r), Block("image", 0, <<x>>))
      BY <3>1, FitsOne
    <3>3. QED
      BY <2>2, <3>2
  <2>4. Lawful("docx", r, cs[i])
    BY <2>1, <2>2 DEF Lawful
  <2>5. Behind("docx", bs, cs[i])
    <3>1. ASSUME NEW k \in DOMAIN bs PROVE InOrder("docx", bs[k], cs[i])
      <4>1. InOrder("docx", bs[k], Block("image", 0, pics))
        BY DEF Pending, Behind
      <4>2. CASE bs[k].kind = "image"
        <5>1. Precedes(bs[k].words, pics)
          BY <4>1, <4>2 DEF InOrder, Apart, Block
        <5>2. \A j \in DOMAIN bs[k].words : bs[k].words[j] < x
          BY <1>3, <2>1, <5>1 DEF Precedes
        <5>3. Precedes(bs[k].words, <<x>>)
          BY <5>2 DEF Precedes
        <5>4. QED
          BY <2>2, <5>3 DEF InOrder
      <4>3. CASE bs[k].kind # "image"
        BY <2>2, <4>3 DEF InOrder, Apart
      <4>4. QED
        BY <4>2, <4>3
    <3>2. QED
      BY <3>1 DEF Behind
  <2>6. QED
    BY <2>2, <2>3, <2>4, <2>5
<1>5. ASSUME NEW k \in DOMAIN cs, NEW l \in DOMAIN cs, k < l PROVE InOrder("docx", cs[k], cs[l])
  <2>1. pics[k] < pics[l]
    BY <1>3, <1>5 DEF Pending, Increasing
  <2>2. Precedes(<<pics[k]>>, <<pics[l]>>)
    BY <2>1 DEF Precedes
  <2>3. QED
    BY <1>3, <2>2 DEF InOrder
<1>6. Good("docx", r, ds) /\ SameHeads(bs, ds)
  BY <1>3, <1>4, <1>5, GoodConcat
<1>7. /\ Len(ds) = Len(bs) + Len(pics) /\ DOMAIN ds = 1..(Len(bs) + Len(pics)) /\ DOMAIN bs = 1..Len(bs)
      /\ \A k \in DOMAIN bs : ds[k] = bs[k]
      /\ \A k \in DOMAIN ds : k \in DOMAIN bs \/ k - Len(bs) \in DOMAIN cs
      /\ \A k \in DOMAIN ds : k - Len(bs) \in DOMAIN cs => ds[k] = cs[k - Len(bs)]
  <2>1. bs \in Seq(BlockRec) /\ cs \in Seq(BlockRec) /\ Len(cs) = Len(pics)
    BY <1>1, <1>3
  <2>4. ds = bs \o cs
    OBVIOUS
  <2> HIDE DEF ds
  <2>2. /\ Len(ds) = Len(bs) + Len(cs) /\ DOMAIN ds = 1..(Len(bs) + Len(cs)) /\ DOMAIN bs = 1..Len(bs)
        /\ \A k \in DOMAIN bs : ds[k] = bs[k]
        /\ \A k \in DOMAIN ds : k \in DOMAIN bs \/ k - Len(bs) \in DOMAIN cs
        /\ \A k \in DOMAIN ds : k - Len(bs) \in DOMAIN cs => ds[k] = cs[k - Len(bs)]
    <3>0. PICK y, z : y = cs /\ z = ds
      OBVIOUS
    <3>5. bs \in Seq(BlockRec) /\ y \in Seq(BlockRec) /\ z = bs \o y
      BY <2>1, <2>4, <3>0
    <3>6. /\ Len(z) = Len(bs) + Len(y) /\ DOMAIN z = 1..(Len(bs) + Len(y)) /\ DOMAIN bs = 1..Len(bs)
          /\ DOMAIN y = 1..Len(y) /\ Len(bs) \in Nat /\ Len(y) \in Nat
          /\ \A k \in DOMAIN bs : z[k] = bs[k]
          /\ \A k \in DOMAIN y : z[Len(bs) + k] = y[k]
      BY ONLY <3>5, ConcatFacts, SMTT(30)
    <3>1. /\ Len(ds) = Len(bs) + Len(cs) /\ DOMAIN ds = 1..(Len(bs) + Len(cs)) /\ DOMAIN bs = 1..Len(bs)
          /\ DOMAIN cs = 1..Len(cs) /\ Len(bs) \in Nat /\ Len(cs) \in Nat
          /\ \A k \in DOMAIN bs : ds[k] = bs[k]
          /\ \A k \in DOMAIN cs : ds[Len(bs) + k] = cs[k]
      BY <3>0, <3>6, Zenon
    <3>2. ASSUME NEW k \in DOMAIN ds PROVE k \in DOMAIN bs \/ k - Len(bs) \in DOMAIN cs
      BY <3>1
    <3>3. ASSUME NEW k \in DOMAIN ds, k - Len(bs) \in DOMAIN cs PROVE ds[k] = cs[k - Len(bs)]
      <4>1. Len(bs) + (k - Len(bs)) = k
        BY <3>1
      <4>2. QED
        BY <3>1, <3>3, <4>1
    <3>4. QED
      BY <3>1, <3>2, <3>3
  <2>3. QED
    BY <2>1, <2>2, Zenon
<1> HIDE DEF ds
<1>8. ASSUME NEW k \in DOMAIN ds, k \notin DOMAIN bs PROVE ds[k].kind = "image"
  <2>1. k - Len(bs) \in DOMAIN cs /\ ds[k] = cs[k - Len(bs)]
    BY <1>7, <1>8
  <2>2. QED
    BY <1>3, <2>1
<1>9. Pending("docx", Len(r), ds, "paragraph", w)
  <2>1. ASSUME NEW k \in DOMAIN ds PROVE InOrder("docx", ds[k], Block("paragraph", 0, w))
    <3>1. CASE k \in DOMAIN bs
      BY <1>7, <3>1 DEF Pending, Behind
    <3>2. CASE k \notin DOMAIN bs
      BY <1>8, <3>2 DEF InOrder, Apart, Block
    <3>3. QED
      BY <3>1, <3>2
  <2>2. QED
    BY <2>1 DEF Pending, Behind
<1>10. ds = bs \/ ds[Len(ds)].kind = "image"
  <2>1. CASE Len(pics) = 0
    <3>1. cs = <<>>
      BY <1>3, <2>1
    <3>2. QED
      BY <1>1, <3>1 DEF ds
  <2>2. CASE Len(pics) > 0
    <3>1. Len(ds) \in DOMAIN ds /\ Len(ds) \notin DOMAIN bs
      BY <1>1, <1>7, <2>2
    <3>2. QED
      BY <1>8, <3>1
  <2>3. QED
    BY <1>1, <2>1, <2>2
<1>11. QED
  BY <1>6, <1>9, <1>10 DEF ds, cs

\* A block with the words of the paragraph or of the table.
LEMMA DocxBlock ==
    ASSUME Reading, format = "docx", UNCHANGED <<format, read, outcome>>, Len(read) \in Nat,
           NEW bs, Good("docx", read, bs), TitleOf(bs, title),
           Pending("docx", Len(read), bs, "paragraph", local.words),
           \A i \in DOMAIN local.words : read[local.words[i]].tag # "image",
           NEW kind \in Kinds \ {"image"}, NEW level \in Int, (kind = "heading") = (level \in 1..6),
           kind = "heading" => /\ local.words # <<>>
                               /\ \A i \in DOMAIN local.words : MarkedIn("docx", read, local.words[i]),
           blocks' = Append(bs, Block(kind, level, local.words)),
           title' = IF kind = "heading" THEN TitleAfter(level, local.words) ELSE title
    PROVE  Document'
<1> DEFINE b == Block(kind, level, local.words)
<1>1. Behind(format, bs, b)
  BY PendingFor
<1>2. Fits(Len(read), b)
  BY DEF Pending, Fits, Block, BlockRec
<1>3. b.kind = kind /\ b.level = level /\ b.words = local.words
  BY DEF Block
<1>4. Lawful(format, read, b)
  BY <1>3 DEF Lawful
<1>5. title' = IF b.kind = "heading" /\ b.level = 1 /\ title = <<>> THEN b.words ELSE title
  BY <1>3 DEF TitleAfter
<1> HIDE DEF b
<1>6. format \in Five
  BY DEF Five
<1>7. QED
  BY <1>1, <1>2, <1>4, <1>5, <1>6, AppendDocument DEF b

\* emitParagraph.
LEMMA DocxEmit ==
    ASSUME DocxInv, format = "docx", Reading, local.mode = "p", UNCHANGED <<format, read, outcome>>,
           Emit(Shown(local.pics))
    PROVE  Document'
<1> DEFINE n == Len(read)
<1>1. /\ DocxOK(read, open, local, blocks) /\ Len(read) \in Nat /\ format \in Five
      /\ Good("docx", read, blocks) /\ TitleOf(blocks, title) /\ blocks \in Seq(BlockRec)
  BY DocxFacts
<1>2. /\ Pending("docx", Len(read), blocks, "paragraph", local.words)
      /\ Pending("docx", Len(read), blocks, "image", local.pics)
      /\ \A i \in DOMAIN local.words : read[local.words[i]].tag # "image"
      /\ \A i \in DOMAIN local.pics : read[local.pics[i]].tag = "image"
      /\ local.style \in Bases /\ local.outline \in Int
  BY <1>1 DEF DocxOK
<1>3. PICK p \in DOMAIN read : InParagraph(read, open, local, p)
  BY <1>1 DEF DocxOK
<1>4. PICK level \in 0..6 : MarkdownLevel(ParagraphLevel) = level
  BY <1>2, LevelRange
<1>5. level > 0 => local.style # "" \/ local.outline # -1
  BY <1>2, <1>4, LevelRange
<1>6. PICK shown : shown = blocks \o Shown(local.pics)
  OBVIOUS
<1>7. /\ Good("docx", read, shown) /\ SameHeads(blocks, shown)
      /\ Pending("docx", Len(read), shown, "paragraph", local.words)
      /\ shown = blocks \/ shown[Len(shown)].kind = "image"
  BY <1>1, <1>2, <1>6, GoodImages
<1>8. TitleOf(shown, title)
  BY <1>1, <1>7, SameTitle
<1>9. /\ blocks' =
             IF local.words = <<>> THEN shown
             ELSE IF level > 0 THEN Append(shown, Block("heading", level, local.words))
             ELSE IF ~local.numbered THEN Append(shown, Block("paragraph", 0, local.words))
             ELSE IF shown # <<>> /\ Last(shown).kind = "list"
                  THEN [shown EXCEPT ![Len(shown)].words = @ \o local.words]
             ELSE Append(shown, Block("list", 0, local.words))
      /\ title' = TitleAfter(level, local.words)
  BY <1>4, <1>6 DEF Emit
<1>10. Form /\ Document /\ Grows(read, read')
  BY <1>1, SameForm DEF DocxInv, Grows, Form
<1>11. ASSUME title' = title, SameHeads(blocks, blocks'), Good("docx", read, blocks') PROVE Document'
  BY <1>1, <1>10, <1>11, QuietDocument DEF Reading
<1>12. ASSUME NEW kind \in {"paragraph", "list"}, blocks' = Append(shown, Block(kind, 0, local.words)),
              title' = title
       PROVE  Document'
  <2>1. kind \in Kinds \ {"image"} /\ (kind = "heading") = (0 \in 1..6) /\ 0 \in Int /\ kind # "heading"
    BY <1>12 DEF Kinds
  <2>2. QED
    BY <1>1, <1>2, <1>7, <1>8, <1>12, <2>1, DocxBlock
<1>13. CASE local.words = <<>>
  <2>1. blocks' = shown
    BY <1>9, <1>13
  <2>2. title' = title
    BY <1>9, <1>13 DEF TitleAfter
  <2>3. QED
    BY <1>7, <1>11, <2>1, <2>2
<1>14. CASE local.words # <<>> /\ level > 0
  <2>1. blocks' = Append(shown, Block("heading", level, local.words)) /\ title' = TitleAfter(level, local.words)
    BY <1>9, <1>14
  <2>2. "heading" \in Kinds \ {"image"} /\ ("heading" = "heading") = (level \in 1..6) /\ level \in Int
    BY <1>14 DEF Kinds
  <2>3. PICK s \in DOMAIN read : read[s].tag \in {"style", "outline"} /\ p \in Inside(read, s)
    BY <1>3, <1>5, <1>14 DEF InParagraph
  <2>4. \A i \in DOMAIN local.words : MarkedIn("docx", read, local.words[i])
    BY <1>3, <2>3 DEF InParagraph, MarkedIn
  <2>5. QED
    BY <1>1, <1>2, <1>7, <1>8, <1>14, <2>1, <2>2, <2>4, DocxBlock
<1>15. CASE local.words # <<>> /\ ~(level > 0)
  <2>1. title' = title
    BY <1>9, <1>15 DEF TitleAfter
  <2>2. CASE ~local.numbered
    BY <1>9, <1>12, <1>15, <2>1, <2>2
  <2>3. CASE local.numbered /\ shown # <<>> /\ Last(shown).kind = "list"
    <3>1. shown[Len(shown)].kind = "list"
      BY <2>3 DEF Last
    <3>2. shown = blocks
      BY <1>7, <3>1
    <3>3. blocks' = [blocks EXCEPT ![Len(blocks)].words = @ \o local.words]
      BY <1>9, <1>15, <2>3, <3>2
    <3>4. Good("docx", read, blocks') /\ SameHeads(blocks, blocks')
      BY <1>1, <1>2, <2>3, <3>1, <3>2, <3>3, GoodMerge
    <3>5. QED
      BY <1>11, <2>1, <3>4
  <2>4. CASE local.numbered /\ ~(shown # <<>> /\ Last(shown).kind = "list")
    BY <1>9, <1>12, <1>15, <2>1, <2>4
  <2>5. QED
    BY <2>2, <2>3, <2>4
<1>16. QED
  BY <1>13, <1>14, <1>15

\* Between two paragraphs there is nothing to remember.
LEMMA DocxBetween ==
    ASSUME NEW r, NEW o, NEW bs, NEW budget
    PROVE  DocxOK(r, o, Between(budget), bs)
<1>1. /\ DOMAIN Between(budget) = {"mode", "words", "pics", "style", "outline", "numbered", "rows", "budget"}
      /\ Between(budget).mode = "body" /\ Between(budget).words = <<>> /\ Between(budget).pics = <<>>
      /\ Between(budget).style = "" /\ Between(budget).outline = -1
  BY DEF Between
<1>2. "" \in Bases /\ -1 \in Int
  BY DEF Bases
<1>3. \A kind : Pending("docx", Len(r), bs, kind, <<>>)
  BY NothingPending
<1>4. PICK l : l = Between(budget)
  OBVIOUS
<1>5. /\ Pending("docx", Len(r), bs, "paragraph", l.words) /\ Pending("docx", Len(r), bs, "image", l.pics)
      /\ \A i \in DOMAIN l.words : r[l.words[i]].tag # "image"
      /\ \A i \in DOMAIN l.pics : r[l.pics[i]].tag = "image"
  <2>1. l.words = <<>> /\ l.pics = <<>>
    BY <1>1, <1>4
  <2>2. Pending("docx", Len(r), bs, "paragraph", <<>>) /\ Pending("docx", Len(r), bs, "image", <<>>)
    BY <1>3
  <2>3. Pending("docx", Len(r), bs, "paragraph", l.words) /\ Pending("docx", Len(r), bs, "image", l.pics)
    BY <2>1, <2>2
  <2>4. QED
    BY <2>1, <2>3
<1>6. DocxOK(r, o, l, bs)
  BY <1>1, <1>2, <1>4, <1>5 DEF DocxOK
<1>7. QED
  BY <1>4, <1>6

\* One more word, like the others.
LEMMA EachAppend ==
    ASSUME NEW w \in Seq(Nat), NEW x \in Nat, NEW S, \A i \in DOMAIN w : w[i] \in S, x \in S
    PROVE  \A i \in DOMAIN Append(w, x) : Append(w, x)[i] \in S
<1>1. /\ DOMAIN Append(w, x) = 1..(Len(w) + 1) /\ DOMAIN w = 1..Len(w) /\ Len(w) \in Nat
      /\ \A i \in DOMAIN w : Append(w, x)[i] = w[i]
      /\ Append(w, x)[Len(w) + 1] = x
  OBVIOUS
<1>2. ASSUME NEW i \in DOMAIN Append(w, x) PROVE Append(w, x)[i] \in S
  <2>1. CASE i \in DOMAIN w
    BY <1>1, <2>1
  <2>2. CASE i = Len(w) + 1
    BY <1>1, <2>2
  <2>3. i \in DOMAIN w \/ i = Len(w) + 1
    BY <1>1
  <2>4. QED
    BY <2>1, <2>2, <2>3
<1>3. QED
  BY <1>2

\* What a DOCX may be made of.
DocxTokens == {"p", "tbl", "cell", "text", "style", "outline", "numPr", "image"}

\* A token that is read while the elements stay open.
LEMMA DocxToken ==
    ASSUME DocxInv, format = "docx", Reading, NEW token, Write(token), token.tag \in DocxTokens,
           open' = open \/ Enter, UNCHANGED <<format, vocabulary, blocks, title, outcome>>
    PROVE  /\ Form' /\ Document' /\ Grows(read, read') /\ DocxOK(read', open, local, blocks)
           /\ Here \in Nat /\ Here = Len(read) + 1 /\ Len(read') = Here /\ Here \in DOMAIN read'
           /\ read'[Here].tag = token.tag /\ Inside(read', Here) = {open[j] : j \in DOMAIN open}
           /\ MayBe("docx", token)
<1>1. format \in Five /\ token.tag # "title"
  BY DEF Five, DocxTokens
<1>2. /\ Form' /\ Grows(read, read') /\ Here \in Nat /\ Here = Len(read) + 1 /\ Len(read') = Here
      /\ read'[Here] = [tag |-> token.tag, arg |-> token.arg, inside |-> open]
      /\ Inside(read', Here) = {open[j] : j \in DOMAIN open} /\ MayBe(format, token)
  BY <1>1, WriteForm DEF DocxInv
<1>3. Document'
  BY <1>1, <1>2, QuietDocument DEF DocxInv, Reading
<1>4. DocxOK(read', open, local, blocks)
  BY <1>2, DocxGrows DEF DocxInv, Docx
<1>5. Here \in DOMAIN read'
  BY <1>2 DEF Grows
<1>6. QED
  BY <1>2, <1>3, <1>4, <1>5

\* Every step keeps the invariant of DOCX.
LEMMA DocxElementKept == DocxInv /\ DocxElement => DocxInv'
<1> SUFFICES ASSUME DocxInv, DocxElement PROVE DocxInv'
  OBVIOUS
<1>1. PICK tag \in {"p", "tbl", "cell"} :
         /\ format = "docx" /\ Reading
         /\ Write(Token(tag, "")) /\ Enter
         /\ local' = IF local.mode = "body" /\ tag \in {"p", "tbl"}
                     THEN [local EXCEPT !.mode = tag] ELSE local
         /\ UNCHANGED <<upload, format, vocabulary, blocks, title, outcome>>
  BY DEF DocxElement
<1>2. Token(tag, "").tag = tag /\ tag \in DocxTokens
  BY DEF Token, DocxTokens
<1>3. /\ Form' /\ Document' /\ DocxOK(read', open, local, blocks) /\ Here \in DOMAIN read'
      /\ read'[Here].tag = tag /\ Here \in Nat
  BY <1>1, <1>2, DocxToken
<1>4. /\ open' = Append(open, Here) /\ Len(open) + 1 \in DOMAIN open' /\ open'[Len(open) + 1] = Here
      /\ \A j \in DOMAIN open : j \in DOMAIN open' /\ open'[j] = open[j]
  <2>1. open \in Seq(Nat) /\ open' = Append(open, Here)
    BY <1>1, DocxFacts DEF Enter
  <2>2. QED
    BY <1>3, <2>1
<1>5. DocxOK(read', open', local', blocks)
  <2>1. CASE local.mode = "body" /\ tag \in {"p", "tbl"}
    <3>1. /\ local'.mode = tag /\ DOMAIN local' = DOMAIN local
          /\ local'.words = local.words /\ local'.pics = local.pics
          /\ local'.style = local.style /\ local'.outline = local.outline
      BY <1>1, <1>3, <2>1 DEF DocxOK
    <3>2. local.words = <<>> /\ local.style = "" /\ local.outline = -1
      BY <1>3, <2>1 DEF DocxOK
    <3>3. local'.words = <<>> /\ local'.style = "" /\ local'.outline = -1
      BY <3>1, <3>2
    <3>5. /\ \A i \in DOMAIN local'.words : Here \in Inside(read', local'.words[i])
          /\ ~(local'.style # "" \/ local'.outline # -1)
      <4>1. \A i \in DOMAIN local'.words : Here \in Inside(read', local'.words[i])
        <5>1. local'.words = <<>>
          BY <3>3
        <5>2. DOMAIN <<>> = {}
          OBVIOUS
        <5>3. QED
          BY <5>1, <5>2
      <4>2. ~(local'.style # "" \/ local'.outline # -1)
        BY <3>3
      <4>3. QED
        BY <4>1, <4>2
    <3>6. tag = "p" => InParagraph(read', open', local', Here)
      BY <1>3, <1>4, <3>5 DEF InParagraph
    <3>4. QED
      BY <1>3, <2>1, <3>1, <3>6 DEF DocxOK
  <2>2. CASE local' = local
    <3>1. \A p : InParagraph(read', open, local, p) => InParagraph(read', open', local, p)
      BY <1>4 DEF InParagraph
    <3>2. QED
      BY <1>3, <2>2, <3>1 DEF DocxOK
  <2>3. QED
    BY <1>1, <2>1, <2>2
<1>6. QED
  BY <1>1, <1>3, <1>5 DEF DocxInv, Docx

\* A text of a paragraph or of a cell.
LEMMA DocxTextKept == DocxInv /\ DocxText => DocxInv'
<1> SUFFICES ASSUME DocxInv, DocxText PROVE DocxInv'
  OBVIOUS
<1>1. /\ format = "docx" /\ Reading /\ Write(Token("text", ""))
      /\ local' = IF local.mode = "body" THEN local ELSE [local EXCEPT !.words = Append(@, Here)]
      /\ UNCHANGED <<upload, format, vocabulary, open, blocks, title, outcome>>
  BY DEF DocxText
<1>2. Token("text", "").tag = "text" /\ "text" \in DocxTokens
  BY DEF Token, DocxTokens
<1>3. /\ Form' /\ Document' /\ DocxOK(read', open, local, blocks) /\ Here \in DOMAIN read'
      /\ read'[Here].tag = "text" /\ Here \in Nat /\ Here = Len(read) + 1 /\ Len(read') = Here
      /\ Inside(read', Here) = {open[j] : j \in DOMAIN open}
  BY <1>1, <1>2, DocxToken
<1>4. DocxOK(read', open, local', blocks)
  <2>1. CASE local.mode = "body"
    BY <1>1, <1>3, <2>1
  <2>2. CASE local.mode # "body"
    <3>1. /\ local'.words = Append(local.words, Here) /\ DOMAIN local' = DOMAIN local
          /\ local'.mode = local.mode /\ local'.pics = local.pics
          /\ local'.style = local.style /\ local'.outline = local.outline
      BY <1>1, <1>3, <2>2 DEF DocxOK
    <3>2. /\ Pending("docx", Len(read), blocks, "paragraph", local.words) /\ local.words \in Seq(Nat)
          /\ Doc("docx", Len(read), blocks) /\ Len(read) \in Nat
      BY <1>1, DocxFacts DEF DocxOK, Pending
    <3>3. Pending("docx", Len(read'), blocks, "paragraph", local'.words)
      BY <1>3, <3>1, <3>2, PendingMore
    <3>4. \A i \in DOMAIN local'.words : read'[local'.words[i]].tag # "image"
      <4>1. \A i \in DOMAIN local.words : local.words[i] \in {x \in Nat : read'[x].tag # "image"}
        <5>1. \A i \in DOMAIN local.words : local.words[i] \in Nat
          BY <3>2
        <5>2. \A i \in DOMAIN local.words : read'[local.words[i]].tag # "image"
          BY <1>3 DEF DocxOK
        <5>3. QED
          BY <5>1, <5>2
      <4>2. Here \in {x \in Nat : read'[x].tag # "image"}
        BY <1>3
      <4>3. QED
        BY <1>3, <3>1, <3>2, <4>1, <4>2, EachAppend
    <3>5. ASSUME NEW p, InParagraph(read', open, local, p) PROVE InParagraph(read', open, local', p)
      <4>1. \A i \in DOMAIN local.words : local.words[i] \in {x \in Nat : p \in Inside(read', x)}
        <5>1. \A i \in DOMAIN local.words : local.words[i] \in Nat
          BY <3>2
        <5>2. \A i \in DOMAIN local.words : p \in Inside(read', local.words[i])
          BY <3>5 DEF InParagraph
        <5>3. QED
          BY <5>1, <5>2
      <4>2. Here \in {x \in Nat : p \in Inside(read', x)}
        BY <1>3, <3>5 DEF InParagraph
      <4>3. \A i \in DOMAIN local'.words : p \in Inside(read', local'.words[i])
        BY <1>3, <3>1, <3>2, <4>1, <4>2, EachAppend
      <4>4. QED
        BY <3>1, <3>5, <4>3 DEF InParagraph
    <3>6. QED
      BY <1>3, <2>2, <3>1, <3>3, <3>4, <3>5 DEF DocxOK
  <2>3. QED
    BY <2>1, <2>2
<1>5. QED
  BY <1>1, <1>3, <1>4 DEF DocxInv, Docx

\* The style, the level or the numbering of a paragraph.
LEMMA DocxPropertyKept == DocxInv /\ DocxProperty => DocxInv'
<1> SUFFICES ASSUME DocxInv, DocxProperty PROVE DocxInv'
  OBVIOUS
<1>1. /\ format = "docx" /\ Reading
      /\ UNCHANGED <<upload, format, vocabulary, open, blocks, title, outcome>>
  BY DEF DocxProperty
<1>2. PICK token \in vocabulary.tokens :
         /\ token.tag \in {"style", "outline", "numPr"}
         /\ Write(token)
         /\ local' = IF local.mode # "p" THEN local
                     ELSE CASE token.tag = "style" -> [local EXCEPT !.style = token.arg]
                            [] token.tag = "outline" -> [local EXCEPT !.outline = token.arg]
                            [] token.tag = "numPr" -> [local EXCEPT !.numbered = TRUE]
  BY DEF DocxProperty
<1>3. /\ Form' /\ Document' /\ DocxOK(read', open, local, blocks) /\ Here \in DOMAIN read'
      /\ read'[Here].tag = token.tag /\ Inside(read', Here) = {open[j] : j \in DOMAIN open}
      /\ MayBe("docx", token)
  BY <1>1, <1>2, DocxToken DEF DocxTokens
<1>4. /\ token.tag = "style" => token.arg \in Bases
      /\ token.tag = "outline" => token.arg \in Int
  BY <1>3 DEF MayBe, Bases
<1>5. ASSUME NEW m, local' = m, local.mode = "p", DOMAIN m = DOMAIN local, m.mode = local.mode,
             m.words = local.words, m.pics = local.pics, m.style \in Bases, m.outline \in Int,
             \/ token.tag \in {"style", "outline"}
             \/ m.style = local.style /\ m.outline = local.outline
      PROVE  DocxOK(read', open, m, blocks)
  <2>1. PICK p \in DOMAIN read' : InParagraph(read', open, local, p)
    BY <1>3, <1>5 DEF DocxOK
  <2>2. p \in Inside(read', Here)
    BY <1>3, <2>1 DEF InParagraph
  <2>3. CASE token.tag \in {"style", "outline"}
    <3>1. InParagraph(read', open, m, p)
      BY <1>3, <1>5, <2>1, <2>2, <2>3 DEF InParagraph
    <3>2. QED
      BY <1>3, <1>5, <3>1 DEF DocxOK
  <2>4. CASE m.style = local.style /\ m.outline = local.outline
    <3>1. InParagraph(read', open, m, p)
      BY <1>5, <2>1, <2>4 DEF InParagraph
    <3>2. QED
      BY <1>3, <1>5, <3>1 DEF DocxOK
  <2>5. QED
    BY <1>5, <2>3, <2>4
<1>6. DOMAIN local = {"mode", "words", "pics", "style", "outline", "numbered", "rows", "budget"}
      /\ local.style \in Bases /\ local.outline \in Int
  BY <1>3 DEF DocxOK
<1>7. DocxOK(read', open, local', blocks)
  <2>1. CASE local.mode # "p"
    BY <1>2, <1>3, <2>1
  <2>2. CASE local.mode = "p" /\ token.tag = "style"
    <3>1. local' = [local EXCEPT !.style = token.arg]
      BY <1>2, <2>2
    <3>2. QED
      BY <1>4, <1>5, <1>6, <2>2, <3>1
  <2>3. CASE local.mode = "p" /\ token.tag = "outline"
    <3>1. local' = [local EXCEPT !.outline = token.arg]
      BY <1>2, <2>3
    <3>2. QED
      BY <1>4, <1>5, <1>6, <2>3, <3>1
  <2>4. CASE local.mode = "p" /\ token.tag = "numPr"
    <3>1. local' = [local EXCEPT !.numbered = TRUE]
      BY <1>2, <2>4
    <3>2. QED
      BY <1>5, <1>6, <2>4, <3>1
  <2>5. QED
    BY <1>2, <2>1, <2>2, <2>3, <2>4
<1>8. QED
  BY <1>1, <1>3, <1>7 DEF DocxInv, Docx

\* An image of a paragraph.
LEMMA DocxImageKept == DocxInv /\ DocxImage => DocxInv'
<1> SUFFICES ASSUME DocxInv, DocxImage PROVE DocxInv'
  OBVIOUS
<1>1. /\ format = "docx" /\ Reading
      /\ UNCHANGED <<upload, format, vocabulary, open, blocks, title, outcome>>
  BY DEF DocxImage
<1>2. PICK token \in vocabulary.tokens :
         /\ token.tag = "image"
         /\ Write(token)
         /\ local' = IF local.mode = "p" /\ Resolves(token.arg)
                     THEN [local EXCEPT !.pics = Append(@, Here), !.budget = @ - Price(token.arg)]
                     ELSE local
  BY DEF DocxImage
<1>3. /\ Form' /\ Document' /\ DocxOK(read', open, local, blocks) /\ Here \in DOMAIN read'
      /\ read'[Here].tag = "image" /\ Here \in Nat /\ Here = Len(read) + 1 /\ Len(read') = Here
  BY <1>1, <1>2, DocxToken DEF DocxTokens
<1>4. DocxOK(read', open, local', blocks)
  <2>1. CASE local' = local
    BY <1>3, <2>1
  <2>4. local' = local \/ (local.mode = "p" /\ local' = [local EXCEPT !.pics = Append(@, Here), !.budget = @ - Price(token.arg)])
    BY <1>2
  <2>2. CASE local.mode = "p" /\ local' = [local EXCEPT !.pics = Append(@, Here), !.budget = @ - Price(token.arg)]
    <3>1. /\ local'.pics = Append(local.pics, Here) /\ DOMAIN local' = DOMAIN local
          /\ local'.mode = local.mode /\ local'.words = local.words
          /\ local'.style = local.style /\ local'.outline = local.outline
      BY <1>3, <2>2 DEF DocxOK
    <3>2. /\ Pending("docx", Len(read), blocks, "image", local.pics) /\ local.pics \in Seq(Nat)
          /\ Doc("docx", Len(read), blocks) /\ Len(read) \in Nat
      BY <1>1, DocxFacts DEF DocxOK, Pending
    <3>3. Pending("docx", Len(read'), blocks, "image", local'.pics)
      BY <1>3, <3>1, <3>2, PendingMore
    <3>4. \A i \in DOMAIN local'.pics : read'[local'.pics[i]].tag = "image"
      <4>1. \A i \in DOMAIN local.pics : local.pics[i] \in {x \in Nat : read'[x].tag = "image"}
        <5>1. \A i \in DOMAIN local.pics : local.pics[i] \in Nat
          BY <3>2
        <5>2. \A i \in DOMAIN local.pics : read'[local.pics[i]].tag = "image"
          BY <1>3 DEF DocxOK
        <5>3. QED
          BY <5>1, <5>2
      <4>2. Here \in {x \in Nat : read'[x].tag = "image"}
        BY <1>3
      <4>3. QED
        BY <1>3, <3>1, <3>2, <4>1, <4>2, EachAppend
    <3>5. \A p : InParagraph(read', open, local, p) => InParagraph(read', open, local', p)
      BY <3>1 DEF InParagraph
    <3>6. /\ local.style \in Bases /\ local.outline \in Int /\ local.mode \in {"body", "p", "tbl"}
          /\ Pending("docx", Len(read'), blocks, "paragraph", local.words)
          /\ \A i \in DOMAIN local.words : read'[local.words[i]].tag # "image"
          /\ local.mode = "p" => \E p \in DOMAIN read' : InParagraph(read', open, local, p)
          /\ DOMAIN local = {"mode", "words", "pics", "style", "outline", "numbered", "rows", "budget"}
      BY <1>3 DEF DocxOK
    <3>7. local.mode = "p"
      BY <2>2
    <3>8. PICK m : m = local'
      OBVIOUS
    <3>9. DocxOK(read', open, m, blocks)
      BY <3>1, <3>3, <3>4, <3>5, <3>6, <3>7, <3>8 DEF DocxOK
    <3>10. QED
      BY <3>8, <3>9
  <2>3. QED
    BY <2>1, <2>2, <2>4
<1>5. QED
  BY <1>1, <1>3, <1>4 DEF DocxInv, Docx

\* The paragraph that is read stays open while other elements end.
LEMMA DocxEndKept == DocxInv /\ DocxEnd => DocxInv'
<1> SUFFICES ASSUME DocxInv, DocxEnd PROVE DocxInv'
  OBVIOUS
<1>1. /\ format = "docx" /\ Reading /\ Leave /\ UNCHANGED <<upload, format, vocabulary, read, outcome>>
  BY DEF DocxEnd
<1>2. /\ DocxOK(read, open, local, blocks) /\ format \in Five
      /\ Good("docx", read, blocks) /\ TitleOf(blocks, title) /\ Len(read) \in Nat
  BY <1>1, DocxFacts
<1>3. /\ Form' /\ Grows(read, read') /\ Len(open) \in Nat \ {0}
      /\ \A i \in 1..(Len(open) - 1) : open'[i] = open[i]
      /\ DOMAIN open = 1..Len(open) /\ DOMAIN open' = 1..(Len(open) - 1)
      /\ Last(open) = open[Len(open)] /\ Last(open) \in DOMAIN read
  BY <1>1, <1>2, LeaveForm DEF DocxInv
<1>4. Parent = read[open[Len(open)]].tag
  <2>1. open # <<>>
    BY <1>1 DEF Leave
  <2>2. QED
    BY <1>3, <2>1 DEF Parent
<1>5. CASE Parent \in {"p", "tbl"} /\ Parent = local.mode
  <2>1. local' = Between(local.budget)
    BY <1>5 DEF DocxEnd, Resume
  <2>2. DocxOK(read', open', local', blocks')
    BY <2>1, DocxBetween
  <2>3. CASE Parent = "p"
    <3>1. Emit([i \in DOMAIN local.pics |-> Block("image", 0, <<local.pics[i]>>)])
      BY <1>5, <2>3 DEF DocxEnd
    <3>2. Emit(Shown(local.pics))
      BY <3>1 DEF Shown
    <3>3. Document'
      BY <1>1, <1>5, <2>3, <3>2, DocxEmit
    <3>4. QED
      BY <1>3, <2>2, <3>3 DEF DocxInv, Docx
  <2>4. CASE Parent = "tbl"
    <3>1. EmitTable
      BY <1>5, <2>4 DEF DocxEnd
    <3>2. CASE local.rows > 0
      <4>1. blocks' = Append(blocks, Block("table", 0, local.words)) /\ title' = title
        BY <3>1, <3>2 DEF EmitTable
      <4>2. /\ Pending("docx", Len(read), blocks, "paragraph", local.words)
            /\ \A i \in DOMAIN local.words : read[local.words[i]].tag # "image"
        BY <1>2 DEF DocxOK
      <4>3. /\ "table" \in Kinds \ {"image"} /\ 0 \in Int /\ ("table" = "heading") = (0 \in 1..6)
            /\ "table" # "heading"
        BY DEF Kinds
      <4>4. Document'
        BY <1>1, <1>2, <4>1, <4>2, <4>3, DocxBlock
      <4>5. QED
        BY <1>3, <2>2, <4>4 DEF DocxInv, Docx
    <3>3. CASE ~(local.rows > 0)
      <4>1. blocks' = blocks /\ title' = title
        BY <3>1, <3>3 DEF EmitTable
      <4>2. Document'
        BY <1>1, <1>2, <1>3, <4>1, QuietDocument DEF DocxInv, Reading
      <4>3. QED
        BY <1>3, <2>2, <4>2 DEF DocxInv, Docx
    <3>4. QED
      BY <3>2, <3>3
  <2>5. QED
    BY <1>5, <2>3, <2>4
<1>6. CASE ~(Parent \in {"p", "tbl"} /\ Parent = local.mode)
  <2>1. /\ local' = local \/ local' = [local EXCEPT !.rows = @ + 1]
        /\ UNCHANGED <<blocks, title>>
    BY <1>6 DEF DocxEnd
  <2>2. Document'
    BY <1>1, <1>2, <1>3, <2>1, QuietDocument DEF DocxInv, Reading
  <2>3. /\ DOMAIN local' = DOMAIN local /\ local'.mode = local.mode /\ local'.words = local.words
        /\ local'.pics = local.pics /\ local'.style = local.style /\ local'.outline = local.outline
    BY <1>2, <2>1 DEF DocxOK
  <2>4. ASSUME NEW p, local.mode = "p", InParagraph(read, open, local, p)
        PROVE  InParagraph(read, open', local', p)
    <3>1. PICK j \in DOMAIN open : open[j] = p
      BY <2>4 DEF InParagraph
    <3>2. read[p].tag = "p" /\ Parent # "p"
      BY <1>6, <2>4 DEF InParagraph
    <3>3. j # Len(open)
      BY <1>4, <3>1, <3>2
    <3>4. j \in DOMAIN open' /\ open'[j] = p
      BY <1>3, <3>1, <3>3
    <3>5. QED
      BY <2>3, <2>4, <3>4 DEF InParagraph
  <2>5. DocxOK(read, open', local', blocks)
    <3>1. local.mode = "p" => \E p \in DOMAIN read : InParagraph(read, open', local', p)
      BY <1>2, <2>4 DEF DocxOK
    <3>2. PICK m : m = local'
      OBVIOUS
    <3>3. DocxOK(read, open', m, blocks)
      BY <1>2, <2>3, <3>1, <3>2 DEF DocxOK
    <3>4. QED
      BY <3>2, <3>3
  <2>6. QED
    BY <1>1, <1>3, <2>1, <2>2, <2>5 DEF DocxInv, Docx
<1>7. QED
  BY <1>5, <1>6

\* Every step keeps the invariant of DOCX.
LEMMA DocxKept == DocxInv /\ DocxNext => DocxInv'
<1> SUFFICES ASSUME DocxInv, DocxNext PROVE DocxInv'
  OBVIOUS
<1>1. CASE DocxEof
  <2>1. /\ format = "docx" /\ Reading /\ EndOfSource(<<>>)
        /\ UNCHANGED <<upload, format, vocabulary, read, open, local, blocks>>
    BY <1>1 DEF DocxEof
  <2>2. TitleTokens(read) = {} /\ format \in Five
    BY <2>1, NoTitleTokens DEF DocxInv, Five
  <2>3. Document' /\ outcome' = "parsed"
    BY <2>1, <2>2, EndDocument DEF DocxInv, PageOK
  <2>4. Form'
    BY <2>1, <2>2, SameForm DEF DocxInv
  <2>5. QED
    BY <2>3, <2>4 DEF DocxInv, Docx, Reading
<1>2. CASE DocxMalformed
  <2>1. /\ format = "docx" /\ Reading /\ outcome' = "docx_xml"
        /\ UNCHANGED <<upload, format, vocabulary, read, open, local, blocks, title>>
    BY <1>2 DEF DocxMalformed, Finish
  <2>2. format \in Five
    BY <2>1 DEF Five
  <2>3. Form' /\ Grows(read, read')
    BY <2>1, <2>2, SameForm DEF DocxInv
  <2>4. Document'
    BY <2>1, <2>2, <2>3, QuietDocument DEF DocxInv
  <2>5. QED
    BY <2>1, <2>3, <2>4 DEF DocxInv, Docx, Reading
<1>3. QED
  BY <1>1, <1>2, DocxElementKept, DocxTextKept, DocxPropertyKept, DocxImageKept, DocxEndKept DEF DocxNext

---------------------------------------------------------------------------
(* HTML *)

\* One step down, and any number of them.
LEMMA ModesLater ==
    /\ \A m \in Modes : \A tag : ModeIn(m, tag) \in Modes /\ ModeIn(m, tag) \in Later(m)
    /\ \A a \in Modes : \A b \in Later(a) : b \in Modes /\ \A c \in Later(b) : c \in Later(a)
<1>1. \A tag : Contents(tag) \in {"text", "list", "rows", "lost", "page"}
  BY DEF Contents
<1>2. ASSUME NEW m \in Modes, NEW tag PROVE ModeIn(m, tag) \in Modes /\ ModeIn(m, tag) \in Later(m)
  BY <1>1 DEF ModeIn, Modes, Later
<1>3. ASSUME NEW a \in Modes, NEW b \in Later(a) PROVE b \in Modes /\ \A c \in Later(b) : c \in Later(a)
  BY DEF Later, Modes
<1>4. QED
  BY <1>2, <1>3

\* Words inside of an element are inside of it when more of the page is read.
LEMMA HoldsGrows ==
    ASSUME NEW r, NEW s, Grows(r, s), NEW o, NEW ms, NEW w, Upto(Len(r), w), Holds(r, o, ms, w)
    PROVE  Holds(s, o, ms, w)
<1>1. DOMAIN r = 1..Len(r)
  BY DEF Grows
<1>2. \A i \in DOMAIN w : Inside(s, w[i]) = Inside(r, w[i])
  BY <1>1 DEF Upto, Grows, Inside
<1>3. QED
  BY <1>2 DEF Holds

\* A token that is read now is inside of every element that is open.
LEMMA HoldsMore ==
    ASSUME NEW r, NEW o, NEW ms, NEW w \in Seq(Nat), Holds(r, o, ms, w), NEW x \in Nat,
           Inside(r, x) = {o[j] : j \in DOMAIN o}
    PROVE  Holds(r, o, ms, Append(w, x))
<1>1. ASSUME NEW k \in DOMAIN o, Verbatim(ms, k), NEW i \in DOMAIN Append(w, x)
      PROVE  o[k] \in Inside(r, Append(w, x)[i])
  <2> DEFINE S == {y \in Nat : o[k] \in Inside(r, y)}
  <2>1. \A j \in DOMAIN w : w[j] \in S
    BY <1>1 DEF Holds
  <2>2. x \in S
    OBVIOUS
  <2> HIDE DEF S
  <2>3. Append(w, x)[i] \in S
    BY <1>1, <2>1, <2>2, EachAppend
  <2>4. QED
    BY <2>3 DEF S
<1>2. QED
  BY <1>1 DEF Holds

\* Words after other words.
LEMMA WordsConcat ==
    ASSUME NEW f, NEW n, NEW bs, NEW kind, NEW s, Pending(f, n, bs, kind, s),
           NEW t, Pending(f, n, bs, kind, t), Precedes(s, t), f # "docx",
           NEW r, NEW o, NEW ms, Holds(r, o, ms, s), Holds(r, o, ms, t)
    PROVE  Pending(f, n, bs, kind, s \o t) /\ Holds(r, o, ms, s \o t)
<1>1. PICK u : u = s \o t
  OBVIOUS
<1>2. s \in Seq(Nat) /\ t \in Seq(Nat) /\ Increasing(s) /\ Increasing(t) /\ Upto(n, s) /\ Upto(n, t)
  BY DEF Pending
<1>3. /\ u \in Seq(Nat) /\ Len(s) \in Nat /\ Len(t) \in Nat
      /\ DOMAIN s = 1..Len(s) /\ DOMAIN t = 1..Len(t) /\ DOMAIN u = 1..(Len(s) + Len(t))
      /\ \A i \in DOMAIN s : u[i] = s[i]
      /\ \A i \in DOMAIN u : i \in DOMAIN s \/ i - Len(s) \in DOMAIN t
      /\ \A i \in DOMAIN u : i - Len(s) \in DOMAIN t => u[i] = t[i - Len(s)]
  BY ONLY <1>1, <1>2, ConcatFacts, SMTT(30)
<1>4. Upto(n, u)
  BY <1>2, <1>3 DEF Upto
<1>5. ASSUME NEW i \in DOMAIN u, NEW j \in DOMAIN u, i < j PROVE u[i] < u[j]
  <2>1. CASE j \in DOMAIN s
    <3>1. i \in DOMAIN s
      BY <1>3, <1>5, <2>1
    <3>2. QED
      BY <1>2, <1>3, <1>5, <2>1, <3>1 DEF Increasing
  <2>2. CASE i \in DOMAIN s /\ j - Len(s) \in DOMAIN t
    BY <1>3, <2>2 DEF Precedes
  <2>3. CASE i - Len(s) \in DOMAIN t /\ j - Len(s) \in DOMAIN t
    <3>1. i - Len(s) < j - Len(s)
      BY <1>3, <1>5
    <3>2. QED
      BY <1>2, <1>3, <2>3, <3>1 DEF Increasing
  <2>4. QED
    BY <1>3, <2>1, <2>2, <2>3
<1>6. ASSUME NEW k \in DOMAIN bs PROVE InOrder(f, bs[k], Block(kind, 0, u))
  <2>1. Precedes(bs[k].words, s) /\ Precedes(bs[k].words, t)
    BY DEF Pending, Behind, InOrder, Apart, Block
  <2>2. Precedes(bs[k].words, u)
    BY <1>3, <2>1 DEF Precedes
  <2>3. QED
    BY <2>2 DEF InOrder, Block
<1>7. Holds(r, o, ms, u)
  BY <1>3 DEF Holds
<1>8. Increasing(u)
  BY <1>5 DEF Increasing
<1>9. Pending(f, n, bs, kind, u)
  BY <1>3, <1>4, <1>6, <1>8 DEF Pending, Behind
<1>10. QED
  BY <1>1, <1>7, <1>9

\* What holds of a page holds when more of it is read.
LEMMA HtmlGrows ==
    ASSUME NEW r, NEW s, Grows(r, s), NEW o, \A i \in DOMAIN o : o[i] \in DOMAIN r,
           NEW l, NEW bs, HtmlOK(r, o, l, bs)
    PROVE  HtmlOK(s, o, l, bs)
<1>1. Len(r) \in Nat /\ Len(s) \in Nat /\ Len(r) <= Len(s)
  BY DEF Grows
<1>2. \A i \in DOMAIN o : s[o[i]] = r[o[i]]
  BY DEF Grows
<1>3. Nested(s, o, l.modes)
  BY <1>2 DEF HtmlOK, Nested
<1>4. \A w : Pending("html", Len(r), bs, "paragraph", w) => Pending("html", Len(s), bs, "paragraph", w)
  BY <1>1, PendingWider
<1>5. \A w : Pending("html", Len(r), bs, "paragraph", w) /\ Holds(r, o, l.modes, w) => Holds(s, o, l.modes, w)
  BY HoldsGrows DEF Pending
<1>6. TextOK(s, o, l, bs)
  BY <1>4, <1>5 DEF HtmlOK, TextOK
<1>7. ItemOK(s, o, l, bs)
  BY <1>4, <1>5 DEF HtmlOK, ItemOK
<1>8. QED
  BY <1>3, <1>4, <1>6, <1>7 DEF HtmlOK

\* What the invariant says of HTML, for its steps.
LEMMA HtmlFacts ==
    ASSUME HtmlInv, format = "html", Reading
    PROVE  /\ HtmlOK(read, open, local, blocks) /\ PageOK(read, local.page) /\ format \in Five
           /\ DOMAIN local = {"modes", "hasMain", "inline", "item", "text", "rows", "dropped", "page"}
           /\ local.modes \in Seq(Modes) /\ Len(local.modes) = Len(open) + 1
           /\ DOMAIN local.modes = 1..(Len(open) + 1)
           /\ Mode = local.modes[Len(open) + 1] /\ Mode \in Modes
           /\ Good(format, read, blocks) /\ TitleOf(blocks, title)
           /\ blocks \in Seq(BlockRec) /\ Doc("html", Len(read), blocks) /\ Len(read) \in Nat
           /\ Len(open) \in Nat /\ open \in Seq(Nat) /\ DOMAIN open = 1..Len(open)
           /\ \A j \in DOMAIN open : open[j] \in DOMAIN read
<1>1. HtmlOK(read, open, local, blocks) /\ PageOK(read, local.page) /\ format \in Five
  BY DEF HtmlInv, Html, Five
<1>2. Good(format, read, blocks) /\ TitleOf(blocks, title)
  BY DEF HtmlInv, Document
<1>3. Doc("html", Len(read), blocks) /\ blocks \in Seq(BlockRec)
  BY <1>2 DEF Good, Doc
<1>4. /\ Len(read) \in Nat /\ Len(open) \in Nat /\ open \in Seq(Nat) /\ DOMAIN open = 1..Len(open)
      /\ \A j \in DOMAIN open : open[j] \in DOMAIN read
  BY FormFacts DEF HtmlInv
<1>5. /\ local.modes \in Seq(Modes) /\ Len(local.modes) = Len(open) + 1
      /\ DOMAIN local = {"modes", "hasMain", "inline", "item", "text", "rows", "dropped", "page"}
  BY <1>1 DEF HtmlOK, Nested
<1>6. DOMAIN local.modes = 1..(Len(open) + 1) /\ Mode = local.modes[Len(open) + 1] /\ Mode \in Modes
  BY <1>4, <1>5 DEF Mode, Last
<1>7. QED
  BY <1>1, <1>2, <1>3, <1>4, <1>5, <1>6

\* While the page itself is read nothing is gathered, nor in a list item inside text.
LEMMA GatheringModes ==
    ASSUME NEW r, NEW o, NEW ms, Nested(r, o, ms), Len(o) \in Nat
    PROVE  /\ ms[Len(ms)] \in {"page", "outside"} => ~Among(ms, Gathers)
           /\ ms[Len(ms)] \in {"text", "list"} => ~Among(ms, {"item"})
           /\ ms[Len(ms)] \in Gathers => Among(ms, Gathers)
           /\ ms[Len(ms)] = "item" => Among(ms, {"item"})
<1>1. /\ Len(ms) \in DOMAIN ms /\ \A m \in DOMAIN ms : ms[m] \in Modes /\ (m = Len(ms) \/ m < Len(ms))
      /\ \A m \in DOMAIN ms : m < Len(ms) => ms[Len(ms)] \in Later(ms[m])
  <2>1. ms \in Seq(Modes) /\ Len(ms) = Len(o) + 1 /\ \A k, m \in DOMAIN ms : k < m => ms[m] \in Later(ms[k])
    BY DEF Nested
  <2>2. DOMAIN ms = 1..Len(ms) /\ Len(ms) \in DOMAIN ms /\ \A m \in DOMAIN ms : ms[m] \in Modes
    BY <2>1
  <2>3. QED
    BY <2>1, <2>2
<1>2. PICK last \in Modes : last = ms[Len(ms)]
  BY <1>1
<1>3. ASSUME NEW m \in DOMAIN ms, last \in {"page", "outside"} PROVE ms[m] \notin Gathers
  <2>1. ms[m] = last \/ last \in Later(ms[m])
    BY <1>1, <1>2
  <2>2. QED
    BY <1>1, <1>3, <2>1 DEF Later, Gathers, Modes
<1>4. ASSUME NEW m \in DOMAIN ms, last \in {"text", "list"} PROVE ms[m] # "item"
  <2>1. ms[m] = last \/ last \in Later(ms[m])
    BY <1>1, <1>2
  <2>2. QED
    BY <1>1, <1>4, <2>1 DEF Later, Modes
<1>5. QED
  BY <1>1, <1>2, <1>3, <1>4 DEF Among, Gathers

\* A token is written.
LEMMA HtmlToken ==
    ASSUME HtmlInv, format = "html", Reading, NEW token, Write(token), token.tag \in HtmlTokens,
           open' = open \/ Enter, UNCHANGED <<format, vocabulary>>
    PROVE  /\ Form' /\ Grows(read, read') /\ HtmlOK(read', open, local, blocks)
           /\ PageOK(read', local.page) /\ Good(format, read', blocks)
           /\ Here \in Nat /\ Here = Len(read) + 1 /\ Len(read') = Here
           /\ read'[Here].tag = token.tag /\ Inside(read', Here) = {open[j] : j \in DOMAIN open}
<1>1. format \in Five /\ token.tag # "title"
  BY DEF Five, HtmlTokens, Structural
<1>2. /\ Form' /\ Grows(read, read') /\ Here \in Nat /\ Here = Len(read) + 1 /\ Len(read') = Here
      /\ read'[Here] = [tag |-> token.tag, arg |-> token.arg, inside |-> open]
      /\ Inside(read', Here) = {open[j] : j \in DOMAIN open} /\ MayBe(format, token)
  BY <1>1, WriteForm DEF HtmlInv
<1>3. HtmlOK(read', open, local, blocks)
  BY <1>2, HtmlGrows, HtmlFacts
<1>4. Good(format, read', blocks)
  BY <1>1, <1>2, GoodGrows, HtmlFacts DEF HtmlInv, Form, Five
<1>5. TitleTokens(read') = TitleTokens(read)
  <2>1. /\ DOMAIN read = 1..Len(read) /\ DOMAIN read' = 1..(Len(read) + 1) /\ Len(read) \in Nat
        /\ \A i \in DOMAIN read : read'[i] = read[i]
    BY <1>2, FormFacts DEF HtmlInv, Grows
  <2>2. read'[Len(read) + 1].tag # "title"
    BY <1>1, <1>2
  <2>3. \A i \in DOMAIN read' : i \in DOMAIN read \/ i = Len(read) + 1
    BY <2>1
  <2>4. \A i \in DOMAIN read : i \in DOMAIN read'
    BY <2>1
  <2>5. QED
    BY <2>1, <2>2, <2>3, <2>4, Zenon DEF TitleTokens
<1>6. PageOK(read', local.page)
  BY <1>5, HtmlFacts DEF PageOK
<1>7. QED
  BY <1>2, <1>3, <1>4, <1>6

\* A token that leaves the document as it is.
LEMMA HtmlQuiet ==
    ASSUME HtmlInv, format = "html", Reading, Form', Grows(read, read'),
           UNCHANGED <<format, blocks, title, outcome>>
    PROVE  Document'
<1>1. format \in Five
  BY DEF Five
<1>2. QED
  BY <1>1, QuietDocument DEF HtmlInv, Reading

\* The paragraph is flushed, and a block follows it or not.
LEMMA HtmlFlush ==
    ASSUME HtmlInv, format = "html", Reading, Form', Grows(read, read'), UNCHANGED <<format, title, outcome>>,
           NEW b, b.kind # "heading", Fits(Len(read'), b), Behind(format, blocks \o Paragraph(local.inline), b),
           \/ blocks' = blocks \o Paragraph(local.inline)
           \/ blocks' = blocks \o Paragraph(local.inline) \o <<>>
           \/ blocks' = blocks \o Paragraph(local.inline) \o <<b>>
    PROVE  Document'
<1>1. /\ format \in Five /\ format # "docx" /\ Len(read') \in Nat /\ Len(read) \in Nat
      /\ Len(read) <= Len(read')
  BY DEF Five, Grows
<1>2. /\ Good(format, read', blocks) /\ TitleOf(blocks, title)
      /\ Pending(format, Len(read), blocks, "paragraph", local.inline)
  BY <1>1, GoodGrows, HtmlFacts DEF HtmlInv, Form, Five, HtmlOK
<1>3. PICK mid : mid = blocks \o Paragraph(local.inline)
  OBVIOUS
<1>4. Pending(format, Len(read'), blocks, "paragraph", local.inline)
  BY <1>1, <1>2, PendingWider
<1>5. Good(format, read', mid) /\ SameHeads(blocks, mid)
  BY <1>1, <1>2, <1>3, <1>4, GoodParagraph
<1>6. TitleOf(mid, title) /\ mid \in Seq(BlockRec) /\ b \in BlockRec
  BY <1>2, <1>5, SameTitle DEF Good, Doc, Fits
<1>7. CASE blocks' = mid \/ blocks' = mid \o <<>>
  <2>1. blocks' = mid
    BY <1>6, <1>7
  <2>2. QED
    BY <1>1, <1>5, <2>1, QuietDocument DEF HtmlInv, Reading
<1>8. CASE blocks' = mid \o <<b>>
  <2>1. blocks' = Append(mid, b)
    BY <1>6, <1>8, AppendConcat
  <2>2. Lawful(format, read', b)
    BY <1>1 DEF Lawful
  <2>3. Behind(format, mid, b)
    BY <1>3
  <2>4. title' = title
    OBVIOUS
  <2>5. QED
    BY <1>1, <1>5, <1>6, <2>1, <2>2, <2>3, <2>4, AppendDocument
<1>9. QED
  BY <1>3, <1>7, <1>8

\* One element deeper.
LEMMA NestedDeeper ==
    ASSUME NEW r, NEW o \in Seq(Nat), NEW ms, Nested(r, o, ms), NEW x \in Nat,
           NEW mode, mode = ModeIn(ms[Len(ms)], r[x].tag)
    PROVE  /\ Nested(r, Append(o, x), Append(ms, mode))
           /\ \A S : Among(Append(ms, mode), S) <=> Among(ms, S) \/ mode \in S
           /\ \A w : Holds(r, o, ms, w) /\ ms[Len(ms)] # "page"
                     => Holds(r, Append(o, x), Append(ms, mode), w)
<1> DEFINE ns == Append(ms, mode)
           p == Append(o, x)
           n == Len(o)
<1>1. /\ ms \in Seq(Modes) /\ Len(ms) = n + 1 /\ n \in Nat
      /\ \A k, m \in DOMAIN ms : k < m => ms[m] \in Later(ms[k])
      /\ \A k \in DOMAIN o : ms[k] = "page" => ms[k + 1] = Contents(r[o[k]].tag)
  BY DEF Nested
<1>2. ms[n + 1] \in Modes /\ \A k \in DOMAIN ms : ms[k] \in Modes
  BY <1>1
<1>3. mode \in Modes /\ mode \in Later(ms[n + 1])
  BY <1>1, <1>2, ModesLater
<1>4. /\ ns \in Seq(Modes) /\ Len(ns) = n + 2 /\ DOMAIN ns = 1..(n + 2) /\ DOMAIN ms = 1..(n + 1)
      /\ \A k \in DOMAIN ms : ns[k] = ms[k]
      /\ ns[n + 2] = mode
  BY <1>1, <1>3
<1>5. /\ Len(p) = n + 1 /\ DOMAIN p = 1..(n + 1) /\ DOMAIN o = 1..n
      /\ \A k \in DOMAIN o : p[k] = o[k]
      /\ p[n + 1] = x
  OBVIOUS
<1> HIDE DEF ns, p, n
<1>6. ASSUME NEW k \in DOMAIN ns, NEW m \in DOMAIN ns, k < m PROVE ns[m] \in Later(ns[k])
  <2>1. k \in DOMAIN ms /\ ns[k] = ms[k]
    BY <1>1, <1>4, <1>6
  <2>2. CASE m \in DOMAIN ms
    BY <1>1, <1>4, <1>6, <2>1, <2>2
  <2>3. CASE m = n + 2
    <3>1. CASE k = n + 1
      BY <1>3, <1>4, <2>1, <2>3, <3>1
    <3>2. CASE k # n + 1
      <4>1. k < n + 1 /\ n + 1 \in DOMAIN ms
        BY <1>1, <1>4, <2>1, <3>2
      <4>2. ms[n + 1] \in Later(ms[k])
        BY <1>1, <2>1, <4>1
      <4>3. mode \in Later(ms[k])
        BY <1>2, <1>3, <2>1, <4>2, ModesLater
      <4>4. QED
        BY <1>4, <2>1, <2>3, <4>3
    <3>3. QED
      BY <3>1, <3>2
  <2>4. m \in DOMAIN ms \/ m = n + 2
    BY <1>1, <1>4
  <2>5. QED
    BY <2>2, <2>3, <2>4
<1>7. ASSUME NEW k \in DOMAIN p, ns[k] = "page" PROVE ns[k + 1] = Contents(r[p[k]].tag)
  <2>1. CASE k \in DOMAIN o
    <3>1. k \in DOMAIN ms /\ k + 1 \in DOMAIN ms
      BY <1>1, <1>4, <1>5, <2>1
    <3>2. QED
      BY <1>1, <1>4, <1>5, <1>7, <2>1, <3>1
  <2>2. CASE k = n + 1
    <3>1. k + 1 = n + 2 /\ n + 1 \in DOMAIN ms
      BY <1>1, <1>4, <2>2
    <3>2. ms[n + 1] = "page"
      BY <1>4, <1>7, <2>2, <3>1
    <3>3. mode = Contents(r[x].tag)
      BY <1>1, <3>2 DEF ModeIn
    <3>4. QED
      BY <1>4, <1>5, <2>2, <3>1, <3>3
  <2>3. k \in DOMAIN o \/ k = n + 1
    BY <1>1, <1>5
  <2>4. QED
    BY <2>1, <2>2, <2>3
<1>8. Nested(r, p, ns)
  <2>1. Len(ns) = Len(p) + 1
    BY <1>1, <1>4, <1>5
  <2>2. QED
    BY <1>4, <1>6, <1>7, <2>1 DEF Nested
<1>9. ASSUME NEW S PROVE Among(ns, S) <=> Among(ms, S) \/ mode \in S
  <2>1. n + 2 \in DOMAIN ns /\ \A k \in DOMAIN ms : k \in DOMAIN ns
    BY <1>1, <1>4
  <2>2. \A k \in DOMAIN ns : k \in DOMAIN ms \/ k = n + 2
    BY <1>1, <1>4
  <2>3. QED
    BY <1>4, <2>1, <2>2 DEF Among
<1>10. ASSUME NEW w, Holds(r, o, ms, w), ms[Len(ms)] # "page", NEW k \in DOMAIN p, Verbatim(ns, k),
              NEW i \in DOMAIN w
       PROVE  p[k] \in Inside(r, w[i])
  <2>1. k # n + 1
    <3>1. n + 1 \in DOMAIN ms
      BY <1>1, <1>4
    <3>2. ns[n + 1] = ms[n + 1]
      BY <1>4, <3>1
    <3>3. QED
      BY <1>1, <1>10, <3>2 DEF Verbatim
  <2>2. k \in DOMAIN o /\ k \in DOMAIN ms /\ k + 1 \in DOMAIN ms
    BY <1>1, <1>4, <1>5, <2>1
  <2>3. Verbatim(ms, k)
    BY <1>4, <1>10, <2>2 DEF Verbatim
  <2>4. QED
    BY <1>5, <1>10, <2>2, <2>3 DEF Holds
<1>11. \A w : Holds(r, o, ms, w) /\ ms[Len(ms)] # "page" => Holds(r, p, ns, w)
  BY <1>10 DEF Holds
<1>12. QED
  BY <1>8, <1>9, <1>11 DEF ns, p

\* No words are inside of any element,
LEMMA HoldsNothing == \A r, o, ms : Holds(r, o, ms, <<>>)
<1>1. DOMAIN <<>> = {}
  OBVIOUS
<1>2. QED
  BY <1>1 DEF Holds

\* and they come before any others.
LEMMA PrecedesNothing == \A s : Precedes(s, <<>>) /\ Precedes(<<>>, s)
<1>1. DOMAIN <<>> = {}
  OBVIOUS
<1>2. QED
  BY <1>1 DEF Precedes

\* A rule fits anywhere.
LEMMA RuleFits ==
    ASSUME NEW n, NEW f, NEW bs
    PROVE  /\ Fits(n, Block("rule", 0, <<>>)) /\ Behind(f, bs, Block("rule", 0, <<>>))
           /\ Block("rule", 0, <<>>).kind # "heading"
<1>1. Block("rule", 0, <<>>).kind = "rule" /\ Block("rule", 0, <<>>).words = <<>>
  BY DEF Block
<1>2. Fits(n, Block("rule", 0, <<>>))
  BY DEF Fits, Block, BlockRec, Kinds, Increasing, Upto
<1>3. QED
  BY <1>1, <1>2, PrecedesNothing DEF Behind, InOrder

\* Outside of the elements that gather text there is only the paragraph to remember.
LEMMA HtmlClear ==
    ASSUME NEW r, NEW o, Len(o) \in Nat, NEW l, NEW bs, Nested(r, o, l.modes),
           DOMAIN l = {"modes", "hasMain", "inline", "item", "text", "rows", "dropped", "page"},
           ~Among(l.modes, Gathers), Pending("html", Len(r), bs, "paragraph", l.inline)
    PROVE  HtmlOK(r, o, l, bs)
<1>1. ~Among(l.modes, {"item"})
  BY DEF Among, Gathers
<1>2. QED
  BY <1>1 DEF HtmlOK, TextOK, ItemOK

\* An element of the page begins.
LEMMA HtmlElementKept == HtmlInv /\ HtmlElement => HtmlInv'
<1> SUFFICES ASSUME HtmlInv, HtmlElement PROVE HtmlInv'
  OBVIOUS
<1>1. PICK token \in vocabulary.tokens :
        /\ format = "html" /\ Reading
        /\ token.tag \in Structural \cup {"li", "caption", "cell", "span", "skip", "main"}
        /\ Write(token) /\ Enter
        /\ LET flushes == token.tag \in Structural
               mode == ModeIn(Mode, token.tag)
           IN  /\ blocks' = IF Mode = "page" /\ flushes THEN blocks \o Paragraph(local.inline) ELSE blocks
               /\ local' = [local EXCEPT
                     !.modes = Append(@, mode),
                     !.inline = IF Mode = "page" /\ flushes THEN <<>> ELSE @,
                     !.item = IF (Mode = "item" /\ flushes) \/ (Mode = "list" /\ mode = "item") THEN <<>> ELSE @,
                     !.text = IF Mode = "page" /\ flushes THEN <<>> ELSE @,
                     !.rows = IF Mode = "page" /\ flushes THEN 0 ELSE @,
                     !.dropped = IF Mode = "page" /\ token.tag = "skip" THEN @ + 1 ELSE @]
        /\ UNCHANGED <<upload, format, vocabulary, title, outcome>>
  BY DEF HtmlElement
<1> DEFINE flushes == token.tag \in Structural
           mode == ModeIn(Mode, token.tag)
           ms == local.modes
<1>2. /\ Form' /\ Grows(read, read') /\ HtmlOK(read', open, local, blocks) /\ PageOK(read', local.page)
      /\ Here \in Nat /\ read'[Here].tag = token.tag
  <2>1. token.tag \in HtmlTokens /\ Enter
    BY <1>1 DEF HtmlTokens
  <2>2. QED
    BY <1>1, <2>1, HtmlToken
<1>3. /\ DOMAIN local = {"modes", "hasMain", "inline", "item", "text", "rows", "dropped", "page"}
      /\ ms \in Seq(Modes) /\ Len(ms) = Len(open) + 1 /\ Mode = ms[Len(ms)] /\ Mode \in Modes
      /\ Len(open) \in Nat /\ open \in Seq(Nat)
  BY <1>1, HtmlFacts
<1>4. open' = Append(open, Here) /\ Len(open') \in Nat
  BY <1>1, <1>2, <1>3 DEF Enter
<1>5. /\ local'.modes = Append(ms, mode) /\ local'.page = local.page
      /\ DOMAIN local' = DOMAIN local
      /\ local'.inline = IF Mode = "page" /\ flushes THEN <<>> ELSE local.inline
      /\ local'.text = IF Mode = "page" /\ flushes THEN <<>> ELSE local.text
      /\ local'.item = IF (Mode = "item" /\ flushes) \/ (Mode = "list" /\ mode = "item")
                       THEN <<>> ELSE local.item
  BY <1>1, <1>3
<1>6. blocks' = IF Mode = "page" /\ flushes THEN blocks \o Paragraph(local.inline) ELSE blocks
  BY <1>1
<1>7. /\ Nested(read', open', local'.modes)
      /\ \A S : Among(local'.modes, S) <=> Among(ms, S) \/ mode \in S
      /\ \A w : Holds(read', open, ms, w) /\ Mode # "page" => Holds(read', open', local'.modes, w)
  <2>1. Nested(read', open, ms) /\ mode = ModeIn(ms[Len(ms)], read'[Here].tag)
    BY <1>2, <1>3 DEF HtmlOK
  <2> HIDE DEF mode, ms
  <2>2. QED
    BY <1>2, <1>3, <1>4, <1>5, <2>1, NestedDeeper
<1>8. /\ Mode \in {"page", "outside"} => ~Among(ms, Gathers)
      /\ Mode \in Gathers => Among(ms, Gathers)
      /\ Mode = "item" => Among(ms, {"item"})
  <2>1. Nested(read', open, ms)
    BY <1>2 DEF HtmlOK
  <2> HIDE DEF ms
  <2>2. QED
    BY <1>3, <2>1, GatheringModes
<1>9. PICK l : l = local'
  OBVIOUS
<1>10. CASE Mode = "page" /\ flushes
  <2>1. blocks' = blocks \o Paragraph(local.inline) /\ l.inline = <<>> /\ l.text = <<>>
    BY <1>5, <1>6, <1>9, <1>10
  <2>2. Document'
    BY <1>1, <1>2, <2>1, HtmlFlush, RuleFits
  <2>3. mode # "item"
    BY <1>10 DEF ModeIn, Contents
  <2>4. ~Among(l.modes, {"item"})
    <3>1. ~Among(ms, {"item"})
      BY <1>8, <1>10 DEF Among, Gathers
    <3>2. QED
      BY <1>7, <1>9, <2>3, <3>1
  <2>5. TextOK(read', open', l, blocks') /\ ItemOK(read', open', l, blocks')
    BY <2>1, <2>4, HoldsNothing, NothingPending DEF TextOK, ItemOK
  <2>6. Pending("html", Len(read'), blocks', "paragraph", l.inline)
    BY <2>1, NothingPending
  <2>7. HtmlOK(read', open', l, blocks')
    BY <1>3, <1>5, <1>7, <1>9, <2>5, <2>6 DEF HtmlOK
  <2>8. QED
    BY <1>2, <1>5, <1>9, <2>2, <2>7 DEF HtmlInv, Html
<1>11. CASE Mode = "page" /\ ~flushes
  <2>1. blocks' = blocks /\ l.inline = local.inline
    BY <1>5, <1>6, <1>9, <1>11
  <2>2. Document'
    BY <1>1, <1>2, <2>1, HtmlQuiet
  <2>3. mode \notin Gathers
    <3>1. mode = Contents(token.tag)
      BY <1>11 DEF ModeIn
    <3>2. Contents(token.tag) \in {"page", "lost"}
      BY <1>11 DEF Contents, Structural
    <3>3. QED
      BY <3>1, <3>2 DEF Gathers
  <2>4. ~Among(l.modes, Gathers)
    BY <1>7, <1>8, <1>9, <1>11, <2>3
  <2>5. Pending("html", Len(read'), blocks', "paragraph", l.inline)
    BY <1>2, <2>1 DEF HtmlOK
  <2>6. HtmlOK(read', open', l, blocks')
    BY <1>3, <1>4, <1>5, <1>7, <1>9, <2>4, <2>5, HtmlClear
  <2>7. QED
    BY <1>2, <1>5, <1>9, <2>2, <2>6 DEF HtmlInv, Html
<1>12. CASE Mode # "page"
  <2>1. blocks' = blocks /\ l.inline = local.inline /\ l.text = local.text
    BY <1>5, <1>6, <1>9, <1>12
  <2>2. Document'
    BY <1>1, <1>2, <2>1, HtmlQuiet
  <2>3. mode \in Gathers => Mode \in Gathers
    <3>1. CASE Mode \in {"outside", "lost"}
      BY <3>1 DEF ModeIn, Gathers
    <3>2. QED
      BY <1>3, <1>12, <3>1 DEF Modes, Gathers
  <2>4. mode = "item" => Mode \in {"item", "list"}
    BY <1>3, <1>12 DEF ModeIn, Modes
  <2>5. TextOK(read', open, local, blocks) /\ ItemOK(read', open, local, blocks)
        /\ Pending("html", Len(read'), blocks, "paragraph", local.inline)
    BY <1>2 DEF HtmlOK
  <2>6. TextOK(read', open', l, blocks')
    <3>1. Among(l.modes, Gathers) => Among(local.modes, Gathers)
      BY <1>7, <1>8, <1>9, <2>3
    <3>2. Holds(read', open, local.modes, local.text) => Holds(read', open', l.modes, l.text)
      BY <1>7, <1>9, <1>12, <2>1
    <3>3. QED
      BY <2>1, <2>5, <3>1, <3>2 DEF TextOK
  <2>7. ItemOK(read', open', l, blocks')
    <3>1. CASE l.item = <<>>
      BY <3>1, HoldsNothing, NothingPending, PrecedesNothing DEF ItemOK
    <3>2. CASE l.item = local.item /\ ~(Mode = "list" /\ mode = "item")
      <4>1. Among(l.modes, {"item"}) => Among(local.modes, {"item"})
        BY <1>7, <1>8, <1>9, <2>4, <3>2
      <4>2. Holds(read', open, local.modes, local.item) => Holds(read', open', l.modes, l.item)
        BY <1>7, <1>9, <1>12, <3>2
      <4>3. QED
        BY <2>1, <2>5, <3>2, <4>1, <4>2 DEF ItemOK
    <3>3. QED
      BY <1>5, <1>9, <3>1, <3>2
  <2>8. HtmlOK(read', open', l, blocks')
    BY <1>3, <1>5, <1>7, <1>9, <2>1, <2>5, <2>6, <2>7 DEF HtmlOK
  <2>9. QED
    BY <1>2, <1>5, <1>9, <2>2, <2>8 DEF HtmlInv, Html
<1>13. QED
  BY <1>10, <1>11, <1>12

\* A text of the page, wherever it stands.
LEMMA HtmlTextKept == HtmlInv /\ HtmlText => HtmlInv'
<1> SUFFICES ASSUME HtmlInv, HtmlText PROVE HtmlInv'
  OBVIOUS
<1>1. /\ format = "html" /\ Reading /\ Write(Token("text", ""))
      /\ local' = CASE Mode = "page" -> [local EXCEPT !.inline = Append(@, Here)]
                    [] Mode = "item" -> [local EXCEPT !.item = Append(@, Here)]
                    [] Mode = "text" -> [local EXCEPT !.text = Append(@, Here)]
                    [] OTHER -> local
      /\ UNCHANGED <<upload, format, vocabulary, open, blocks, title, outcome>>
  BY DEF HtmlText
<1>2. Token("text", "").tag \in HtmlTokens
  BY DEF Token, HtmlTokens
<1>3. /\ Form' /\ Grows(read, read') /\ HtmlOK(read', open, local, blocks) /\ PageOK(read', local.page)
      /\ Here \in Nat /\ Here = Len(read) + 1 /\ Len(read') = Here
      /\ Inside(read', Here) = {open[j] : j \in DOMAIN open}
  BY <1>1, <1>2, HtmlToken
<1>4. Document'
  BY <1>1, <1>3, HtmlQuiet
<1>5. /\ DOMAIN local = {"modes", "hasMain", "inline", "item", "text", "rows", "dropped", "page"}
      /\ Mode = local.modes[Len(local.modes)] /\ Len(open) \in Nat /\ Len(read) \in Nat
      /\ Doc("html", Len(read), blocks) /\ HtmlOK(read, open, local, blocks)
  BY <1>1, HtmlFacts
<1>6. Nested(read', open, local.modes)
  BY <1>3 DEF HtmlOK
<1>7. /\ Mode \in {"page", "outside"} => ~Among(local.modes, Gathers)
      /\ Mode \in {"text", "list"} => ~Among(local.modes, {"item"})
      /\ Mode \in Gathers => Among(local.modes, Gathers)
      /\ Mode = "item" => Among(local.modes, {"item"})
  BY <1>5, <1>6, GatheringModes
<1>8. \A w : Pending("html", Len(read), blocks, "paragraph", w)
             => Pending("html", Len(read'), blocks, "paragraph", Append(w, Here))
  BY <1>3, <1>5, PendingMore
<1>9. PICK l : l = local'
  OBVIOUS
<1>10. CASE Mode = "page"
  <2>1. local' = [local EXCEPT !.inline = Append(@, Here)]
    BY <1>1, <1>10
  <2>2. l.inline = Append(local.inline, Here) /\ l.modes = local.modes /\ DOMAIN l = DOMAIN local
        /\ l.page = local.page
    BY <1>5, <1>9, <2>1
  <2>3. Pending("html", Len(read'), blocks, "paragraph", l.inline)
    BY <1>5, <1>8, <2>2 DEF HtmlOK
  <2>4. HtmlOK(read', open, l, blocks)
    BY <1>5, <1>6, <1>7, <1>10, <2>2, <2>3, HtmlClear
  <2>5. QED
    BY <1>1, <1>3, <1>4, <1>9, <2>2, <2>4 DEF HtmlInv, Html
<1>11. CASE Mode = "item"
  <2>1. local' = [local EXCEPT !.item = Append(@, Here)]
    BY <1>1, <1>11
  <2>2. /\ l.item = Append(local.item, Here) /\ l.modes = local.modes /\ DOMAIN l = DOMAIN local
        /\ l.page = local.page /\ l.inline = local.inline /\ l.text = local.text
    BY <1>5, <1>9, <2>1
  <2>3. /\ Pending("html", Len(read), blocks, "paragraph", local.item)
        /\ Pending("html", Len(read), blocks, "paragraph", local.text)
    BY <1>5, <1>7, <1>11 DEF HtmlOK, ItemOK, TextOK, Gathers
  <2>4. Holds(read', open, local.modes, local.item) /\ Precedes(local.text, local.item)
    BY <1>3, <1>7, <1>11 DEF HtmlOK, ItemOK
  <2>5. Pending("html", Len(read'), blocks, "paragraph", l.item)
    BY <1>8, <2>2, <2>3
  <2>6. local.item \in Seq(Nat) /\ Upto(Len(read), local.text)
    BY <2>3 DEF Pending
  <2>7. Holds(read', open, l.modes, l.item)
    BY <1>3, <2>2, <2>4, <2>6, HoldsMore
  <2>8. Precedes(l.text, l.item)
    <3>1. ASSUME NEW i \in DOMAIN local.text, NEW j \in DOMAIN l.item PROVE local.text[i] < l.item[j]
      <4>1. PICK y \in 1..Len(read) : y = local.text[i]
        BY <2>6, <3>1 DEF Upto
      <4>2. local.item \in Seq({x \in Nat : y < x})
        <5>1. \A k \in DOMAIN local.item : local.item[k] \in Nat /\ y < local.item[k]
          BY <2>4, <2>6, <3>1, <4>1 DEF Precedes
        <5>2. QED
          BY <2>6, <5>1
      <4>3. Here \in {x \in Nat : y < x}
        BY <1>3, <1>5, <4>1
      <4>4. \A k \in DOMAIN local.item : local.item[k] \in {x \in Nat : y < x}
        BY <4>2
      <4>5. l.item[j] \in {x \in Nat : y < x}
        BY <1>3, <2>2, <2>6, <3>1, <4>3, <4>4, EachAppend
      <4>6. QED
        BY <4>1, <4>5
    <3>2. QED
      BY <2>2, <3>1 DEF Precedes
  <2>9. ItemOK(read', open, l, blocks)
    BY <2>5, <2>7, <2>8 DEF ItemOK
  <2>10. TextOK(read', open, l, blocks)
    BY <1>3, <2>2 DEF HtmlOK, TextOK
  <2>11. HtmlOK(read', open, l, blocks)
    BY <1>3, <1>6, <2>2, <2>9, <2>10 DEF HtmlOK
  <2>12. QED
    BY <1>1, <1>3, <1>4, <1>9, <2>2, <2>11 DEF HtmlInv, Html
<1>12. CASE Mode = "text"
  <2>1. local' = [local EXCEPT !.text = Append(@, Here)]
    BY <1>1, <1>12
  <2>2. /\ l.text = Append(local.text, Here) /\ l.modes = local.modes /\ DOMAIN l = DOMAIN local
        /\ l.page = local.page /\ l.inline = local.inline
    BY <1>5, <1>9, <2>1
  <2>3. Pending("html", Len(read), blocks, "paragraph", local.text)
    BY <1>5, <1>7, <1>12 DEF HtmlOK, TextOK, Gathers
  <2>4. Holds(read', open, local.modes, local.text) /\ local.inline = <<>>
    BY <1>3, <1>7, <1>12 DEF HtmlOK, TextOK, Gathers
  <2>5. Pending("html", Len(read'), blocks, "paragraph", l.text)
    BY <1>8, <2>2, <2>3
  <2>6. local.text \in Seq(Nat)
    BY <2>3 DEF Pending
  <2>7. Holds(read', open, l.modes, l.text)
    BY <1>3, <2>2, <2>4, <2>6, HoldsMore
  <2>8. TextOK(read', open, l, blocks) /\ ItemOK(read', open, l, blocks)
    BY <1>7, <1>12, <2>2, <2>4, <2>5, <2>7 DEF TextOK, ItemOK
  <2>9. HtmlOK(read', open, l, blocks)
    BY <1>3, <1>6, <2>2, <2>8 DEF HtmlOK
  <2>10. QED
    BY <1>1, <1>3, <1>4, <1>9, <2>2, <2>9 DEF HtmlInv, Html
<1>13. CASE Mode \notin {"page", "item", "text"}
  <2>1. local' = local
    BY <1>1, <1>13
  <2>2. QED
    BY <1>1, <1>3, <1>4, <2>1 DEF HtmlInv, Html
<1>14. QED
  BY <1>10, <1>11, <1>12, <1>13

\* The title of the page.
LEMMA HtmlTitleKept == HtmlInv /\ HtmlTitle => HtmlInv'
<1> SUFFICES ASSUME HtmlInv, HtmlTitle PROVE HtmlInv'
  OBVIOUS
<1>1. /\ format = "html" /\ Reading /\ read = <<>> /\ Write(Token("title", ""))
      /\ local' = [local EXCEPT !.page = <<Here>>]
      /\ UNCHANGED <<upload, format, vocabulary, open, blocks, title, outcome>>
  BY DEF HtmlTitle
<1>2. format \in Five /\ Token("title", "").tag = "title"
  BY <1>1 DEF Five, Token
<1>3. /\ Form' /\ Grows(read, read') /\ Here = Len(read) + 1 /\ Len(read') = Here
      /\ read'[Here].tag = "title"
  <2>1. PICK token : token = Token("title", "")
    OBVIOUS
  <2>2. /\ Form /\ Write(token) /\ open' = open /\ UNCHANGED <<format, vocabulary>>
        /\ token.tag = "title" /\ (token.tag = "title" => format = "html" /\ read = <<>>)
    BY <1>1, <1>2, <2>1 DEF HtmlInv
  <2>3. /\ Form' /\ Grows(read, read') /\ Here = Len(read) + 1 /\ Len(read') = Here
        /\ read'[Here] = [tag |-> token.tag, arg |-> token.arg, inside |-> open]
    BY ONLY <1>2, <2>2, WriteForm
  <2>4. read'[Here].tag = token.tag
    BY <2>3
  <2>5. QED
    BY <2>2, <2>3, <2>4
<1>4. Document'
  BY <1>1, <1>3, HtmlQuiet
<1>5. Here = 1 /\ Len(read) = 0
  <2>1. Len(<<>>) = 0
    OBVIOUS
  <2>2. Len(read) = 0
    BY <1>1, <2>1, Zenon
  <2>3. Here = Len(read) + 1
    BY <1>3
  <2>4. QED
    BY <2>2, <2>3
<1>6. DOMAIN read' = {1}
  BY <1>3, <1>5 DEF Grows
<1>7. TitleTokens(read') = {1}
  BY <1>3, <1>5, <1>6 DEF TitleTokens
<1>8. HtmlOK(read', open, local, blocks)
  BY <1>1, <1>3, HtmlGrows, HtmlFacts
<1>9. PICK l : l = local'
  OBVIOUS
<1>10. /\ l.page = <<1>> /\ l.modes = local.modes /\ l.inline = local.inline /\ l.text = local.text
       /\ l.item = local.item /\ DOMAIN l = DOMAIN local
  BY <1>1, <1>5, <1>9, HtmlFacts
<1>11. HtmlOK(read', open, l, blocks)
  BY <1>8, <1>10 DEF HtmlOK, TextOK, ItemOK
<1>12. PageOK(read', l.page)
  BY <1>7, <1>10 DEF PageOK
<1>13. QED
  BY <1>1, <1>3, <1>4, <1>9, <1>11, <1>12 DEF HtmlInv, Html

\* An image or a rule flushes the paragraph before it.
LEMMA HtmlBreak ==
    ASSUME HtmlInv, format = "html", Reading, NEW token, Write(token), token.tag \in {"image", "hr"},
           UNCHANGED <<format, vocabulary, open, title, outcome>>,
           local' = CASE Mode = "page" -> [local EXCEPT !.inline = <<>>]
                      [] Mode = "item" -> [local EXCEPT !.item = <<>>]
                      [] OTHER -> local,
           NEW b, b.kind # "heading", Fits(Len(read'), b), Behind(format, blocks \o Paragraph(local.inline), b),
           IF Mode # "page" THEN blocks' = blocks
           ELSE \/ blocks' = blocks \o Paragraph(local.inline) \o <<>>
                \/ blocks' = blocks \o Paragraph(local.inline) \o <<b>>
    PROVE  HtmlInv'
<1>1. token.tag \in HtmlTokens
  BY DEF HtmlTokens
<1>2. /\ Form' /\ Grows(read, read') /\ HtmlOK(read', open, local, blocks) /\ PageOK(read', local.page)
  BY <1>1, HtmlToken
<1>3. /\ DOMAIN local = {"modes", "hasMain", "inline", "item", "text", "rows", "dropped", "page"}
      /\ Mode = local.modes[Len(local.modes)] /\ Len(open) \in Nat
  BY HtmlFacts
<1>4. Nested(read', open, local.modes)
  BY <1>2 DEF HtmlOK
<1>5. PICK l : l = local'
  OBVIOUS
<1>6. CASE Mode = "page"
  <2>1. ~Among(local.modes, Gathers)
    BY <1>3, <1>4, <1>6, GatheringModes
  <2>2. Document'
    BY <1>2, <1>6, HtmlFlush
  <2>3. l.inline = <<>> /\ l.modes = local.modes /\ DOMAIN l = DOMAIN local /\ l.page = local.page
    BY <1>3, <1>5, <1>6
  <2>4. Pending("html", Len(read'), blocks', "paragraph", l.inline)
    BY <2>3, NothingPending
  <2>5. HtmlOK(read', open, l, blocks')
    BY <1>3, <1>4, <2>1, <2>3, <2>4, HtmlClear
  <2>6. QED
    BY <1>2, <1>5, <2>2, <2>3, <2>5 DEF HtmlInv, Html
<1>7. CASE Mode # "page"
  <2>1. Document'
    BY <1>2, <1>7, HtmlQuiet
  <2>2. CASE Mode = "item"
    <3>1. /\ l.item = <<>> /\ l.modes = local.modes /\ DOMAIN l = DOMAIN local /\ l.page = local.page
          /\ l.inline = local.inline /\ l.text = local.text
      BY <1>3, <1>5, <2>2
    <3>2. ItemOK(read', open, l, blocks')
      BY <3>1, HoldsNothing, NothingPending, PrecedesNothing DEF ItemOK
    <3>3. HtmlOK(read', open, l, blocks')
      BY <1>2, <1>7, <3>1, <3>2 DEF HtmlOK, TextOK
    <3>4. QED
      BY <1>2, <1>5, <2>1, <3>1, <3>3 DEF HtmlInv, Html
  <2>3. CASE Mode # "item"
    <3>1. local' = local
      BY <1>7, <2>3
    <3>2. QED
      BY <1>2, <1>7, <2>1, <3>1 DEF HtmlInv, Html
  <2>4. QED
    BY <2>2, <2>3
<1>8. QED
  BY <1>6, <1>7

\* An image of the page.
LEMMA HtmlImageKept == HtmlInv /\ HtmlImage => HtmlInv'
<1> SUFFICES ASSUME HtmlInv, HtmlImage PROVE HtmlInv'
  OBVIOUS
<1>1. PICK token \in vocabulary.tokens :
         /\ token.tag = "image"
         /\ Write(token)
         /\ blocks' = IF Mode # "page" THEN blocks
                      ELSE blocks \o Paragraph(local.inline)
                           \o (IF token.arg = "unsafe" THEN <<>> ELSE <<Block("image", 0, <<Here>>)>>)
  BY DEF HtmlImage
<1>2. /\ format = "html" /\ Reading
      /\ local' = CASE Mode = "page" -> [local EXCEPT !.inline = <<>>]
                    [] Mode = "item" -> [local EXCEPT !.item = <<>>]
                    [] OTHER -> local
      /\ UNCHANGED <<upload, format, vocabulary, open, title, outcome>>
  BY DEF HtmlImage
<1>3. /\ Here \in Nat /\ Here = Len(read) + 1 /\ Len(read') = Here
  BY <1>1, <1>2, HtmlToken DEF HtmlTokens
<1>4. Fits(Len(read'), Block("image", 0, <<Here>>)) /\ Block("image", 0, <<Here>>).kind # "heading"
  <2>1. "image" \in Kinds /\ 0 \in Int /\ ("image" = "heading") = (0 \in 1..6)
    BY DEF Kinds
  <2>2. Len(read') \in Nat /\ Here \in 1..Len(read')
    BY <1>2, <1>3, HtmlFacts
  <2>3. Fits(Len(read'), Block("image", 0, <<Here>>))
    BY <2>1, <2>2, FitsOne
  <2>4. QED
    BY <2>3 DEF Block
<1>5. Behind(format, blocks \o Paragraph(local.inline), Block("image", 0, <<Here>>))
  <2>1. /\ Doc(format, Len(read), blocks) /\ Pending(format, Len(read), blocks, "paragraph", local.inline)
        /\ Len(read) \in Nat
    BY <1>2, HtmlFacts DEF HtmlOK
  <2>2. Doc(format, Len(read), blocks \o Paragraph(local.inline))
    BY <2>1, DocParagraph
  <2>3. Len(read) < Here
    BY <1>3, <2>1
  <2>4. QED
    BY <1>3, <2>1, <2>2, <2>3, BehindNext
<1>6. PICK b : b = Block("image", 0, <<Here>>)
  OBVIOUS
<1>7. IF Mode # "page" THEN blocks' = blocks
      ELSE \/ blocks' = blocks \o Paragraph(local.inline) \o <<>>
           \/ blocks' = blocks \o Paragraph(local.inline) \o <<b>>
  BY <1>1, <1>6
<1>8. QED
  BY <1>1, <1>2, <1>4, <1>5, <1>6, <1>7, HtmlBreak

\* A horizontal rule.
LEMMA HtmlRuleKept == HtmlInv /\ HtmlRule => HtmlInv'
<1> SUFFICES ASSUME HtmlInv, HtmlRule PROVE HtmlInv'
  OBVIOUS
<1>1. /\ format = "html" /\ Reading /\ Write(Token("hr", ""))
      /\ blocks' = IF Mode # "page" THEN blocks
                   ELSE blocks \o Paragraph(local.inline) \o <<Block("rule", 0, <<>>)>>
      /\ local' = CASE Mode = "page" -> [local EXCEPT !.inline = <<>>]
                    [] Mode = "item" -> [local EXCEPT !.item = <<>>]
                    [] OTHER -> local
      /\ UNCHANGED <<upload, format, vocabulary, open, title, outcome>>
  BY DEF HtmlRule
<1>2. Token("hr", "").tag \in {"image", "hr"}
  BY DEF Token
<1>3. PICK b : b = Block("rule", 0, <<>>)
  OBVIOUS
<1>4. b.kind # "heading" /\ Fits(Len(read'), b) /\ Behind(format, blocks \o Paragraph(local.inline), b)
  BY <1>3, RuleFits
<1>5. IF Mode # "page" THEN blocks' = blocks
      ELSE \/ blocks' = blocks \o Paragraph(local.inline) \o <<>>
           \/ blocks' = blocks \o Paragraph(local.inline) \o <<b>>
  BY <1>1, <1>3
<1>6. QED
  BY <1>1, <1>2, <1>4, <1>5, HtmlBreak

\* The page is over: the last paragraph is flushed.
LEMMA HtmlEofKept == HtmlInv /\ HtmlEof => HtmlInv'
<1> SUFFICES ASSUME HtmlInv, HtmlEof PROVE HtmlInv'
  OBVIOUS
<1>1. /\ format = "html" /\ Reading /\ EndOfSource(local.page)
      /\ blocks' = blocks \o Paragraph(local.inline)
      /\ UNCHANGED <<upload, format, vocabulary, read, open, local>>
  BY DEF HtmlEof
<1>2. /\ format \in Five /\ format # "docx" /\ Len(read) \in Nat /\ Good(format, read, blocks)
      /\ Pending(format, Len(read), blocks, "paragraph", local.inline) /\ PageOK(read, local.page)
  BY <1>1, HtmlFacts DEF HtmlOK
<1>3. Good(format, read, blocks') /\ SameHeads(blocks, blocks')
  BY <1>1, <1>2, GoodParagraph
<1>4. Document' /\ outcome' = "parsed"
  BY <1>1, <1>2, <1>3, EndDocument DEF HtmlInv
<1>5. Form'
  BY <1>1, <1>2, SameForm DEF HtmlInv
<1>6. QED
  BY <1>4, <1>5 DEF HtmlInv, Html, Reading

\* A block with the text of an element.
LEMMA HtmlBlock ==
    ASSUME HtmlInv, format = "html", Reading, UNCHANGED <<format, read, outcome>>,
           Pending("html", Len(read), blocks, "paragraph", local.text),
           NEW kind \in Kinds, NEW level \in Int, (kind = "heading") = (level \in 1..6),
           kind = "heading" => /\ local.text # <<>>
                               /\ \A i \in DOMAIN local.text : MarkedIn("html", read, local.text[i]),
           blocks' = blocks \o <<Block(kind, level, local.text)>>,
           title' = IF kind = "heading" THEN TitleAfter(level, local.text) ELSE title
    PROVE  Document'
<1> DEFINE b == Block(kind, level, local.text)
<1>1. /\ format \in Five /\ Good(format, read', blocks) /\ TitleOf(blocks, title)
      /\ blocks \in Seq(BlockRec) /\ Len(read') \in Nat
  BY HtmlFacts
<1>2. Behind(format, blocks, b)
  BY PendingFor
<1>3. Fits(Len(read'), b) /\ b \in BlockRec
  BY DEF Pending, Fits, Block, BlockRec
<1>4. b.kind = kind /\ b.level = level /\ b.words = local.text
  BY DEF Block
<1>5. Lawful(format, read', b)
  BY <1>4 DEF Lawful
<1>6. title' = IF b.kind = "heading" /\ b.level = 1 /\ title = <<>> THEN b.words ELSE title
  BY <1>4 DEF TitleAfter
<1>7. blocks' = blocks \o <<b>>
  OBVIOUS
<1> HIDE DEF b
<1>8. blocks' = Append(blocks, b)
  BY <1>1, <1>3, <1>7, AppendConcat
<1>9. QED
  BY <1>1, <1>2, <1>3, <1>5, <1>6, <1>8, AppendDocument

\* What the end of an element of the page writes of its text.
LEMMA HtmlWritten ==
    ASSUME HtmlInv, format = "html", Reading, UNCHANGED <<format, read, outcome>>,
           Pending("html", Len(read), blocks, "paragraph", local.text),
           NEW element, element.tag \in {"h", "pre", "quote", "list", "table"},
           element.tag = "h" => element.arg \in 1..6 /\ \A i \in DOMAIN local.text : MarkedIn("html", read, local.text[i]),
           blocks' = blocks \o Written(element),
           title' = IF element.tag = "h" THEN TitleAfter(element.arg, local.text) ELSE title,
           Form', Grows(read, read')
    PROVE  Document'
<1>1. blocks \in Seq(BlockRec)
  BY HtmlFacts
<1>2. ASSUME Written(element) = <<>>, title' = title PROVE Document'
  <2>1. blocks' = blocks
    BY <1>1, <1>2
  <2>2. QED
    BY <1>1, <1>2, <2>1, QuietDocument, HtmlFacts DEF HtmlInv, Reading
<1>3. ASSUME NEW kind \in Kinds, kind # "heading", Written(element) = <<Block(kind, 0, local.text)>>,
             title' = title
      PROVE  Document'
  <2>1. (kind = "heading") = (0 \in 1..6) /\ 0 \in Int /\ blocks' = blocks \o <<Block(kind, 0, local.text)>>
    BY <1>3
  <2>2. QED
    BY <1>3, <2>1, HtmlBlock
<1>4. CASE element.tag = "h"
  <2>1. title' = TitleAfter(element.arg, local.text) /\ element.arg \in 1..6
    BY <1>4
  <2>2. CASE local.text = <<>>
    <3>1. Written(element) = <<>>
      BY <1>4, <2>2 DEF Written
    <3>2. title' = title
      BY <2>1, <2>2 DEF TitleAfter
    <3>3. QED
      BY <1>2, <3>1, <3>2
  <2>3. CASE local.text # <<>>
    <3>1. Written(element) = <<Block("heading", element.arg, local.text)>>
      BY <1>4, <2>3 DEF Written
    <3>2. "heading" \in Kinds /\ element.arg \in Int /\ ("heading" = "heading") = (element.arg \in 1..6)
      BY <2>1 DEF Kinds
    <3>3. PICK level \in Int : level = element.arg
      BY <3>2
    <3>4. blocks' = blocks \o <<Block("heading", level, local.text)>>
      BY <3>1, <3>3
    <3>5. QED
      BY <1>4, <2>1, <2>3, <3>2, <3>3, <3>4, HtmlBlock
  <2>4. QED
    BY <2>2, <2>3
<1>5. CASE element.tag = "pre"
  <2>1. Written(element) = <<Block("code", 0, local.text)>> /\ "code" \in Kinds /\ title' = title
    BY <1>5 DEF Written, Kinds
  <2>2. QED
    BY <1>3, <2>1
<1>6. CASE element.tag = "quote"
  <2>1. Written(element) = <<Block("quote", 0, local.text)>> /\ "quote" \in Kinds /\ title' = title
    BY <1>6 DEF Written, Kinds
  <2>2. QED
    BY <1>3, <2>1
<1>7. CASE element.tag = "list"
  <2>1. /\ Written(element) = (IF local.text = <<>> THEN <<>> ELSE <<Block("list", 0, local.text)>>)
        /\ "list" \in Kinds /\ title' = title
    BY <1>7 DEF Written, Kinds
  <2>2. QED
    BY <1>2, <1>3, <2>1
<1>8. CASE element.tag = "table"
  <2>1. /\ Written(element) = (IF local.rows = 0 THEN <<>> ELSE <<Block("table", 0, local.text)>>)
        /\ "table" \in Kinds /\ title' = title
    BY <1>8 DEF Written, Kinds
  <2>2. QED
    BY <1>2, <1>3, <2>1
<1>9. QED
  BY <1>4, <1>5, <1>6, <1>7, <1>8

\* All of a sequence but its last.
Shorter(p, o) == /\ Len(p) = Len(o) - 1 /\ DOMAIN p = 1..(Len(o) - 1)
                 /\ \A i \in 1..(Len(o) - 1) : p[i] = o[i]

\* The modes of the elements that are open when one of them is over.
LEMMA NestedShallower ==
    ASSUME NEW r, NEW o, Len(o) \in Nat \ {0}, DOMAIN o = 1..Len(o), NEW ms, Nested(r, o, ms),
           NEW p, Shorter(p, o)
    PROVE  /\ Nested(r, p, Front(ms)) /\ Front(ms)[Len(Front(ms))] = ms[Len(ms) - 1]
           /\ \A S : Among(Front(ms), S) => Among(ms, S)
           /\ \A w : Holds(r, o, ms, w) => Holds(r, p, Front(ms), w)
           /\ ms[Len(ms) - 1] = "page" => ms[Len(ms)] = Contents(r[o[Len(o)]].tag)
           /\ ms[Len(ms) - 1] = ms[Len(o)] /\ ms[Len(ms)] = ms[Len(o) + 1]
<1> DEFINE n == Len(o)
           ns == Front(ms)
<1>0. Len(p) = n - 1 /\ DOMAIN p = 1..(n - 1) /\ \A i \in 1..(n - 1) : p[i] = o[i]
  BY DEF Shorter
<1>1. /\ ms \in Seq(Modes) /\ Len(ms) = n + 1 /\ n \in Nat /\ n > 0 /\ n + 1 - 1 = n
      /\ \A k, m \in DOMAIN ms : k < m => ms[m] \in Later(ms[k])
      /\ \A k \in DOMAIN o : ms[k] = "page" => ms[k + 1] = Contents(r[o[k]].tag)
  BY DEF Nested
<1>2. /\ ns \in Seq(Modes) /\ Len(ns) = Len(ms) - 1 /\ DOMAIN ns = 1..(Len(ms) - 1)
      /\ \A k \in 1..(Len(ms) - 1) : ns[k] = ms[k]
  <2>1. Len(ms) > 0
    BY <1>1
  <2>2. QED
    BY <1>1, <2>1, FrontFacts
<1> HIDE DEF ns
<1>3. /\ Len(ns) = n /\ DOMAIN ns = 1..n /\ DOMAIN ms = 1..(n + 1) /\ \A k \in DOMAIN ns : k \in DOMAIN ms /\ ns[k] = ms[k]
  BY <1>1, <1>2
<1>4. \A k \in DOMAIN p : k \in DOMAIN o /\ p[k] = o[k] /\ k \in DOMAIN ns /\ k + 1 \in DOMAIN ns
  BY <1>0, <1>1, <1>3
<1>5. Nested(r, p, ns)
  <2>1. \A k, m \in DOMAIN ns : k < m => ns[m] \in Later(ns[k])
    BY <1>1, <1>3
  <2>2. \A k \in DOMAIN p : ns[k] = "page" => ns[k + 1] = Contents(r[p[k]].tag)
    BY <1>1, <1>3, <1>4
  <2>3. Len(ns) = Len(p) + 1
    BY <1>0, <1>1, <1>3
  <2>4. QED
    BY <1>2, <2>1, <2>2, <2>3 DEF Nested
<1>6. \A S : Among(ns, S) => Among(ms, S)
  BY <1>3 DEF Among
<1>7. ASSUME NEW w, Holds(r, o, ms, w) PROVE Holds(r, p, ns, w)
  <2>1. \A k \in DOMAIN p : Verbatim(ns, k) => Verbatim(ms, k)
    BY <1>3, <1>4 DEF Verbatim
  <2>2. QED
    BY <1>4, <1>7, <2>1 DEF Holds
<1>8. ns[Len(ns)] = ms[Len(ms) - 1] /\ ms[Len(ms) - 1] = ms[n] /\ ms[Len(ms)] = ms[n + 1]
  BY <1>1, <1>3
<1>9. ms[n] = "page" => ms[n + 1] = Contents(r[o[n]].tag)
  BY <1>1
<1>10. QED
  BY <1>5, <1>6, <1>7, <1>8, <1>9 DEF ns

\* An element of the page ends, and writes what was gathered in it.
LEMMA HtmlEndKept == HtmlInv /\ HtmlEnd => HtmlInv'
<1> SUFFICES ASSUME HtmlInv, HtmlEnd PROVE HtmlInv'
  OBVIOUS
<1> DEFINE element == read[Last(open)]
           around == local.modes[Len(local.modes) - 1]
           ms == local.modes
<1>1. /\ format = "html" /\ Reading /\ Leave
      /\ blocks' = IF around = "page" THEN blocks \o Written(element) ELSE blocks
      /\ title' = IF around = "page" /\ element.tag = "h" THEN TitleAfter(element.arg, local.text) ELSE title
      /\ local' = [local EXCEPT
           !.modes = Front(@),
           !.inline = IF around = "page" /\ element.tag = "p" THEN <<>> ELSE @,
           !.item = IF around = "item" /\ element.tag = "p" THEN <<>> ELSE @,
           !.text = IF around = "list" /\ Mode = "item" THEN @ \o local.item ELSE @,
           !.rows = IF around = "rows" /\ Mode = "text" THEN @ + 1 ELSE @]
      /\ UNCHANGED <<upload, format, vocabulary, read, outcome>>
  BY DEF HtmlEnd
<1>2. /\ HtmlOK(read, open, local, blocks) /\ PageOK(read, local.page) /\ format \in Five
      /\ DOMAIN local = {"modes", "hasMain", "inline", "item", "text", "rows", "dropped", "page"}
      /\ Mode = ms[Len(ms)] /\ Len(ms) = Len(open) + 1 /\ Len(read) \in Nat
      /\ Good("html", read, blocks) /\ TitleOf(blocks, title) /\ blocks \in Seq(BlockRec)
  BY <1>1, HtmlFacts
<1>3. /\ Form' /\ Grows(read, read') /\ Len(open) \in Nat \ {0} /\ Len(open') = Len(open) - 1
      /\ \A i \in 1..(Len(open) - 1) : open'[i] = open[i]
      /\ DOMAIN open = 1..Len(open) /\ DOMAIN open' = 1..(Len(open) - 1)
      /\ Last(open) = open[Len(open)] /\ Last(open) \in DOMAIN read
  BY <1>1, <1>2, LeaveForm DEF HtmlInv
<1>4. PICK l : l = local'
  OBVIOUS
<1>5. /\ l.modes = Front(ms) /\ l.page = local.page /\ DOMAIN l = DOMAIN local
      /\ l.inline = IF around = "page" /\ element.tag = "p" THEN <<>> ELSE local.inline
      /\ l.item = IF around = "item" /\ element.tag = "p" THEN <<>> ELSE local.item
      /\ l.text = IF around = "list" /\ Mode = "item" THEN local.text \o local.item ELSE local.text
  BY <1>1, <1>2, <1>4
<1>6. Nested(read, open, ms)
  BY <1>2 DEF HtmlOK
<1>7. /\ Nested(read, open', l.modes) /\ l.modes[Len(l.modes)] = around
      /\ \A S : Among(l.modes, S) => Among(ms, S)
      /\ \A w : Holds(read, open, ms, w) => Holds(read, open', l.modes, w)
      /\ around = "page" => Mode = Contents(element.tag)
      /\ around = ms[Len(open)] /\ Mode = ms[Len(open) + 1]
  <2>1. PICK ns : ns = ms
    OBVIOUS
  <2>2. /\ Nested(read, open', Front(ns)) /\ Front(ns)[Len(Front(ns))] = ns[Len(ns) - 1]
        /\ \A S : Among(Front(ns), S) => Among(ns, S)
        /\ \A w : Holds(read, open, ns, w) => Holds(read, open', Front(ns), w)
        /\ ns[Len(ns) - 1] = "page" => ns[Len(ns)] = Contents(read[open[Len(open)]].tag)
        /\ ns[Len(ns) - 1] = ns[Len(open)] /\ ns[Len(ns)] = ns[Len(open) + 1]
    <3>1. Nested(read, open, ns)
      BY <1>6, <2>1
    <3>2. PICK o : o = open
      OBVIOUS
    <3>3. PICK p : p = open'
      OBVIOUS
    <3>4. PICK r : r = read
      OBVIOUS
    <3>5. /\ Len(o) \in Nat \ {0} /\ DOMAIN o = 1..Len(o) /\ Nested(r, o, ns)
          /\ Shorter(p, o)
      BY <1>3, <3>1, <3>2, <3>3, <3>4 DEF Shorter
    <3>6. /\ Nested(r, p, Front(ns)) /\ Front(ns)[Len(Front(ns))] = ns[Len(ns) - 1]
          /\ \A S : Among(Front(ns), S) => Among(ns, S)
          /\ \A w : Holds(r, o, ns, w) => Holds(r, p, Front(ns), w)
          /\ ns[Len(ns) - 1] = "page" => ns[Len(ns)] = Contents(r[o[Len(o)]].tag)
          /\ ns[Len(ns) - 1] = ns[Len(o)] /\ ns[Len(ns)] = ns[Len(o) + 1]
      BY ONLY <3>5, NestedShallower, ZenonT(60)
    <3>7. QED
      BY <3>2, <3>3, <3>4, <3>6
  <2>3. l.modes = Front(ns) /\ around = ns[Len(ns) - 1] /\ Mode = ns[Len(ns)]
        /\ element = read[open[Len(open)]]
    BY <1>2, <1>3, <1>5, <2>1
  <2>4. QED
    BY <2>1, <2>2, <2>3, Zenon
<1>8. Len(open') \in Nat
  BY <1>3
<1>9. /\ around \in {"page", "outside"} => ~Among(l.modes, Gathers)
      /\ around \in {"text", "list"} => ~Among(l.modes, {"item"})
  BY <1>7, <1>8, GatheringModes
<1>10. /\ Mode \in Gathers => Among(ms, Gathers)
       /\ Mode = "item" => Among(ms, {"item"})
  <2>1. Len(open) \in Nat
    BY <1>3
  <2> HIDE DEF ms
  <2>2. QED
    BY <1>2, <1>6, <2>1, GatheringModes
<1> HIDE DEF ms, around, element
<1>11. /\ Pending("html", Len(read), blocks, "paragraph", local.inline)
       /\ TextOK(read, open, local, blocks) /\ ItemOK(read, open, local, blocks)
  BY <1>2 DEF HtmlOK
<1>12. CASE around = "page" /\ element.tag = "p"
  <2>1. /\ blocks' = blocks \o Paragraph(local.inline) /\ title' = title /\ l.inline = <<>>
    BY <1>1, <1>5, <1>12 DEF Written
  <2>2. Document'
    BY <1>1, <1>3, <2>1, HtmlFlush, RuleFits
  <2>3. Pending("html", Len(read), blocks', "paragraph", l.inline)
    BY <2>1, NothingPending
  <2>4. HtmlOK(read, open', l, blocks')
    BY <1>2, <1>5, <1>7, <1>8, <1>9, <1>12, <2>3, HtmlClear
  <2>5. QED
    BY <1>1, <1>2, <1>3, <1>4, <1>5, <2>2, <2>4 DEF HtmlInv, Html
<1>13. CASE around = "page" /\ element.tag \in {"h", "pre", "quote", "list", "table"}
  <2>1. Mode \in {"text", "list", "rows"}
    BY <1>7, <1>13 DEF Contents
  <2>2. /\ local.inline = <<>> /\ Pending("html", Len(read), blocks, "paragraph", local.text)
        /\ Holds(read, open, ms, local.text)
    BY <1>10, <1>11, <2>1 DEF TextOK, Gathers, ms
  <2>3. /\ blocks' = blocks \o Written(element)
        /\ title' = IF element.tag = "h" THEN TitleAfter(element.arg, local.text) ELSE title
        /\ l.inline = <<>>
    BY <1>1, <1>5, <1>13, <2>2
  <2>4. ASSUME element.tag = "h"
        PROVE  element.arg \in 1..6 /\ \A i \in DOMAIN local.text : MarkedIn("html", read, local.text[i])
    <3>1. element.arg \in 1..6
      BY <1>1, <1>3, <2>4 DEF HtmlInv, Form, Known, MayBe, element
    <3>2. Verbatim(ms, Len(open)) /\ Len(open) \in DOMAIN open
      BY <1>3, <1>7, <1>13, <2>1 DEF Verbatim
    <3>3. ASSUME NEW i \in DOMAIN local.text PROVE MarkedIn("html", read, local.text[i])
      <4>1. open[Len(open)] \in Inside(read, local.text[i])
        BY <2>2, <3>2, <3>3 DEF Holds
      <4>2. read[open[Len(open)]].tag = "h"
        BY <1>3, <2>4 DEF element
      <4>3. QED
        BY <4>1, <4>2 DEF MarkedIn
    <3>4. QED
      BY <3>1, <3>3
  <2>5. Document'
    BY <1>1, <1>3, <1>13, <2>2, <2>3, <2>4, HtmlWritten
  <2>6. Pending("html", Len(read), blocks', "paragraph", l.inline)
    BY <2>3, NothingPending
  <2>7. HtmlOK(read, open', l, blocks')
    BY <1>2, <1>5, <1>7, <1>8, <1>9, <1>13, <2>6, HtmlClear
  <2>8. QED
    BY <1>1, <1>2, <1>3, <1>4, <1>5, <2>5, <2>7 DEF HtmlInv, Html
<1>14. CASE around = "page" /\ element.tag \notin {"p", "h", "pre", "quote", "list", "table"}
  <2>1. Written(element) = <<>>
    BY <1>14 DEF Written
  <2>2. blocks' = blocks /\ title' = title /\ l.inline = local.inline
    BY <1>1, <1>2, <1>5, <1>14, <2>1
  <2>3. Document'
    BY <1>1, <1>3, <2>2, HtmlQuiet
  <2>4. HtmlOK(read, open', l, blocks')
    BY <1>2, <1>5, <1>7, <1>8, <1>9, <1>11, <1>14, <2>2, HtmlClear
  <2>5. QED
    BY <1>1, <1>2, <1>3, <1>4, <1>5, <2>3, <2>4 DEF HtmlInv, Html
<1>15. CASE around # "page"
  <2>1. blocks' = blocks /\ title' = title /\ l.inline = local.inline
    BY <1>1, <1>5, <1>15
  <2>2. Document'
    BY <1>1, <1>3, <2>1, HtmlQuiet
  <2>3. Among(l.modes, Gathers) => Among(ms, Gathers)
    BY <1>7
  <2>4. CASE around = "list" /\ Mode = "item"
    <3>1. /\ Pending("html", Len(read), blocks, "paragraph", local.item)
          /\ Holds(read, open, ms, local.item) /\ Precedes(local.text, local.item)
          /\ local.inline = <<>>
          /\ Pending("html", Len(read), blocks, "paragraph", local.text)
          /\ Holds(read, open, ms, local.text)
      BY <1>10, <1>11, <2>4 DEF TextOK, ItemOK, Gathers, ms
    <3>2. l.text = local.text \o local.item
      BY <1>5, <2>4
    <3>3. /\ Pending("html", Len(read), blocks, "paragraph", l.text)
          /\ Holds(read, open, ms, l.text)
      <4>1. "html" # "docx"
        OBVIOUS
      <4>2. QED
        BY <3>1, <3>2, <4>1, WordsConcat
    <3>4. TextOK(read, open', l, blocks')
      BY <1>7, <2>1, <3>1, <3>3 DEF TextOK
    <3>5. ItemOK(read, open', l, blocks')
      BY <1>9, <2>4 DEF ItemOK
    <3>6. HtmlOK(read, open', l, blocks')
      BY <1>2, <1>5, <1>7, <1>11, <2>1, <3>4, <3>5 DEF HtmlOK
    <3>7. QED
      BY <1>1, <1>2, <1>3, <1>4, <1>5, <2>2, <3>6 DEF HtmlInv, Html
  <2>5. CASE ~(around = "list" /\ Mode = "item")
    <3>1. l.text = local.text
      BY <1>5, <2>5
    <3>2. TextOK(read, open', l, blocks')
      BY <1>7, <1>11, <2>1, <2>3, <3>1 DEF TextOK, ms
    <3>3. ItemOK(read, open', l, blocks')
      <4>1. CASE l.item = <<>>
        BY <4>1, HoldsNothing, NothingPending, PrecedesNothing DEF ItemOK
      <4>2. CASE l.item = local.item
        BY <1>7, <1>11, <2>1, <3>1, <4>2 DEF ItemOK, ms
      <4>3. QED
        BY <1>5, <4>1, <4>2
    <3>4. HtmlOK(read, open', l, blocks')
      BY <1>2, <1>5, <1>7, <1>11, <2>1, <3>2, <3>3 DEF HtmlOK
    <3>5. QED
      BY <1>1, <1>2, <1>3, <1>4, <1>5, <2>2, <3>4 DEF HtmlInv, Html
  <2>6. QED
    BY <2>4, <2>5
<1>16. QED
  BY <1>12, <1>13, <1>14, <1>15

\* Every step keeps the invariant of HTML.
LEMMA HtmlKept == HtmlInv /\ HtmlNext => HtmlInv'
  BY HtmlElementKept, HtmlTextKept, HtmlTitleKept, HtmlImageKept, HtmlRuleKept, HtmlEndKept, HtmlEofKept DEF HtmlNext

---------------------------------------------------------------------------
(* The invariant of every format *)

\* Before the first token.
LEMMA InitInv == ParsingInit => ParsingInv
<1> SUFFICES ASSUME ParsingInit PROVE ParsingInv
  OBVIOUS
<1>1. /\ format = "undetected" /\ vocabulary.tokens = {} /\ read = <<>> /\ open = <<>>
      /\ blocks = <<>> /\ title = <<>> /\ outcome = "none" /\ DOMAIN <<>> = {} /\ Len(<<>>) = 0
  BY DEF ParsingInit
<1>2. Form
  BY <1>1 DEF Form, Rooted, Reading
<1>3. Document
  BY <1>1 DEF Document, Good, Doc, Parsed, TitleOf, FirstOf, Ones
<1>4. QED
  BY <1>1, <1>2, <1>3 DEF ParsingInv, Lines, Markdown, Docx, Html, Undetected

\* The parsers start without a word.
LEMMA StartingLocals ==
    ASSUME NEW f \in Five, NEW l \in Locals(f), NEW r, r = <<>>, NEW o, o = <<>>
    PROVE  /\ f \in {"text", "pdf"} => LinesOK(f, r, l, <<>>)
           /\ f = "markdown" => MarkdownOK(r, o, l, <<>>)
           /\ f = "docx" => DocxOK(r, o, l, <<>>)
           /\ f = "html" => HtmlOK(r, o, l, <<>>) /\ PageOK(r, l.page)
<1>1. DOMAIN r = {} /\ Len(r) = 0 /\ DOMAIN o = {} /\ Len(o) = 0 /\ DOMAIN <<>> = {}
  OBVIOUS
<1>2. \A n, kind : Pending(f, n, <<>>, kind, <<>>)
  BY NothingPending
<1>3. ASSUME f \in {"text", "pdf"} PROVE LinesOK(f, r, l, <<>>)
  <2>1. l = [next |-> 0, para |-> <<>>, body |-> 0, inferred |-> FALSE]
    BY <1>3 DEF Locals, LineStart
  <2>2. /\ DOMAIN l = {"next", "para", "body", "inferred"}
        /\ l.next = 0 /\ l.para = <<>> /\ l.body = 0
    BY <2>1
  <2>3. Doc(f, 0, <<>>)
    BY <1>1 DEF Doc
  <2>4. QED
    BY <1>1, <1>2, <2>2, <2>3 DEF LinesOK, Looked
<1>4. ASSUME f = "markdown" PROVE MarkdownOK(r, o, l, <<>>)
  <2>1. l = [modes |-> <<"blocks">>, words |-> <<>>, fence |-> "first"]
    BY <1>4 DEF Locals, MarkdownStart
  <2>2. DOMAIN l = {"modes", "words", "fence"} /\ l.modes = <<"blocks">>
    BY <2>1
  <2>3. QED
    BY <1>1, <2>2 DEF MarkdownOK
<1>5. ASSUME f = "docx" PROVE DocxOK(r, o, l, <<>>)
  <2>1. l = Between(ImageBudget)
    BY <1>5 DEF Locals, DocxStart
  <2>2. /\ DOMAIN l = {"mode", "words", "pics", "style", "outline", "numbered", "rows", "budget"}
        /\ l.mode = "body" /\ l.words = <<>> /\ l.pics = <<>> /\ l.style = "" /\ l.outline = -1
    BY <2>1 DEF Between
  <2>3. l.mode \in {"body", "p", "tbl"} /\ l.style \in Bases /\ l.outline \in Int /\ l.mode # "p"
    <3>1. -1 \in Int
      OBVIOUS
    <3>2. l.style \in Bases
      BY <2>2, Zenon DEF Bases
    <3>3. l.mode \in {"body", "p", "tbl"} /\ l.mode # "p"
      BY <2>2
    <3>4. l.outline \in Int
      BY <2>2, <3>1, Zenon
    <3>5. QED
      BY <3>2, <3>3, <3>4
  <2>4. \A i \in DOMAIN l.words : FALSE
    BY <1>1, <2>2, Zenon
  <2>5. \A i \in DOMAIN l.pics : FALSE
    BY <1>1, <2>2, Zenon
  <2>6. Pending("docx", Len(r), <<>>, "paragraph", l.words) /\ Pending("docx", Len(r), <<>>, "image", l.pics)
    BY <2>2, NothingPending
  <2>7. QED
    BY <2>2, <2>3, <2>4, <2>5, <2>6 DEF DocxOK
<1>6. ASSUME f = "html" PROVE HtmlOK(r, o, l, <<>>) /\ PageOK(r, l.page)
  <2>1. PICK hasMain \in BOOLEAN : l = HtmlStart(hasMain)
    BY <1>6 DEF Locals
  <2>2. PICK mode \in {"outside", "page"} : l.modes = <<mode>>
    BY <2>1 DEF HtmlStart
  <2>3. /\ DOMAIN l = {"modes", "hasMain", "inline", "item", "text", "rows", "dropped", "page"}
        /\ l.inline = <<>> /\ l.page = <<>>
    BY <2>1 DEF HtmlStart
  <2>4. Nested(r, o, <<mode>>)
    BY <1>1 DEF Nested, Modes
  <2>5. ~Among(<<mode>>, Gathers) /\ ~Among(<<mode>>, {"item"})
    BY DEF Among, Gathers
  <2>6. HtmlOK(r, o, l, <<>>)
    BY <1>2, <1>6, <2>2, <2>3, <2>4, <2>5 DEF HtmlOK, TextOK, ItemOK
  <2>7. TitleTokens(r) = {}
    BY <1>1 DEF TitleTokens
  <2>8. QED
    BY <2>3, <2>6, <2>7 DEF PageOK
<1>7. QED
  BY <1>3, <1>4, <1>5, <1>6

\* Detecting the format, with or without a fault of the source.
LEMMA DetectKept == ParsingInv /\ Detect => ParsingInv'
<1> SUFFICES ASSUME ParsingInv, Detect PROVE ParsingInv'
  OBVIOUS
<1>1. /\ format = "undetected" /\ vocabulary.tokens = {} /\ read = <<>> /\ open = <<>>
      /\ blocks = <<>> /\ title = <<>> /\ outcome = "none" /\ DOMAIN <<>> = {} /\ Len(<<>>) = 0
      /\ UNCHANGED <<read, open, blocks, title>>
  BY DEF Detect, ParsingInv, Form, Undetected, Five, Reading
<1>2. PICK f \in Formats : format' = f
  <2>1. format' = DetectFormat(upload.head, upload.ext)
    BY DEF Detect
  <2>2. DetectFormat(upload.head, upload.ext) \in Formats
    BY DEF DetectFormat, Formats, FormatOf
  <2>3. QED
    BY <2>1, <2>2
<1>3. f # "undetected" /\ (f \in Five \/ f = "unknown") /\ SourceFault("unknown") # "none"
      /\ SourceFault(f) # "parsed"
  BY DEF Formats, Five, SourceFault, ZipFault
<1>4. Good(f, <<>>, <<>>) /\ TitleOf(<<>>, <<>>)
  BY <1>1 DEF Good, Doc, TitleOf, FirstOf, Ones
<1>5. CASE SourceFault(f) # "none"
  <2>1. outcome' = SourceFault(f) /\ vocabulary' = vocabulary
    BY <1>2, <1>5 DEF Detect, Finish
  <2>2. Form'
    BY <1>1, <1>2, <1>3, <2>1 DEF Form, Rooted
  <2>3. Document'
    BY <1>1, <1>2, <1>3, <1>4, <1>5, <2>1 DEF Document, Reading, Parsed
  <2>4. ~Reading'
    BY <1>5, <2>1 DEF Reading
  <2>5. QED
    BY <1>2, <1>3, <2>2, <2>3, <2>4 DEF ParsingInv, Lines, Markdown, Docx, Html, Undetected
<1>6. CASE SourceFault(f) = "none"
  <2>1. vocabulary' \in Vocabularies[f] /\ local' \in Locals(f) /\ outcome' = "none" /\ f \in Five
    BY <1>1, <1>2, <1>3, <1>6 DEF Detect
  <2>2. ASSUME NEW token \in vocabulary'.tokens PROVE token \in AllTokens /\ Known(f, token)
    <3>1. f \in DOMAIN Vocabularies
      BY <2>1, VocabulariesAssumption DEF Formats, Five
    <3>2. token \in AllTokens
      BY <2>1, <3>1 DEF AllTokens
    <3>3. MayBe(f, token)
      BY <2>1, <3>1, VocabulariesAssumption
    <3>4. QED
      BY <2>1, <3>2, <3>3 DEF Known, ReadableFonts
  <2>3. Form'
    <3>1. format' \in Formats /\ format' \in Five /\ format' # "undetected"
      BY <1>2, <1>3, <2>1
    <3>2. \A token \in vocabulary'.tokens : token \in AllTokens /\ Known(format', token)
      BY <1>2, <2>2
    <3>3. read' \in Seq(Elements) /\ open' \in Seq(Nat) /\ DOMAIN read' = {} /\ DOMAIN open' = {}
      BY <1>1
    <3>4. QED
      BY <3>1, <3>2, <3>3 DEF Form, Rooted
  <2>4. Document'
    BY <1>1, <1>2, <1>4, <2>1 DEF Document, Parsed
  <2>5. PICK l \in Locals(f) : l = local'
    BY <2>1
  <2>6. PICK r, o : r = <<>> /\ o = <<>>
    OBVIOUS
  <2>7. /\ f \in {"text", "pdf"} => LinesOK(f, r, l, <<>>)
        /\ f = "markdown" => MarkdownOK(r, o, l, <<>>)
        /\ f = "docx" => DocxOK(r, o, l, <<>>)
        /\ f = "html" => HtmlOK(r, o, l, <<>>) /\ PageOK(r, l.page)
    BY <2>1, <2>6, StartingLocals
  <2>8. Lines' /\ Markdown' /\ Docx' /\ Html'
    BY <1>1, <1>2, <2>5, <2>6, <2>7 DEF Lines, Markdown, Docx, Html
  <2>9. QED
    BY <1>2, <1>3, <2>3, <2>4, <2>8 DEF ParsingInv, Undetected
<1>7. QED
  BY <1>5, <1>6

\* Every step keeps the invariant.
LEMMA NextInv == ParsingInv /\ [ParsingNext]_parseVars => ParsingInv'
<1> SUFFICES ASSUME ParsingInv, [ParsingNext]_parseVars PROVE ParsingInv'
  OBVIOUS
<1>1. CASE LinesNext
  <2>1. format \in {"text", "pdf"} /\ format' = format
    BY <1>1 DEF LinesNext, ReadLine, StartLooking, TextLine, PdfLine, LinesEnd
  <2>2. LinesInv'
    BY <1>1, LinesKept DEF ParsingInv, LinesInv
  <2>3. QED
    BY <2>1, <2>2 DEF ParsingInv, LinesInv, Markdown, Docx, Html, Undetected
<1>2. CASE MdNext
  <2>1. format = "markdown" /\ format' = format
    BY <1>2 DEF MdNext, MdElement, MdText, MdImage, MdLeaf, MdRawHtml, MdFence, MdFrontMatter, MdEnd, MdEof
  <2>2. MarkdownInv'
    BY <1>2, MarkdownKept DEF ParsingInv, MarkdownInv
  <2>3. QED
    BY <2>1, <2>2 DEF ParsingInv, MarkdownInv, Lines, Docx, Html, Undetected
<1>3. CASE DocxNext
  <2>1. format = "docx" /\ format' = format
    BY <1>3 DEF DocxNext, DocxElement, DocxText, DocxProperty, DocxImage, DocxEnd, DocxEof, DocxMalformed
  <2>2. DocxInv'
    BY <1>3, DocxKept DEF ParsingInv, DocxInv
  <2>3. QED
    BY <2>1, <2>2 DEF ParsingInv, DocxInv, Lines, Markdown, Html, Undetected
<1>4. CASE HtmlNext
  <2>1. format = "html" /\ format' = format
    BY <1>4 DEF HtmlNext, HtmlElement, HtmlText, HtmlTitle, HtmlImage, HtmlRule, HtmlEnd, HtmlEof
  <2>2. HtmlInv'
    BY <1>4, HtmlKept DEF ParsingInv, HtmlInv
  <2>3. QED
    BY <2>1, <2>2 DEF ParsingInv, HtmlInv, Lines, Markdown, Docx, Undetected
<1>5. CASE UNCHANGED parseVars
  <2>1. UNCHANGED <<format, vocabulary, read, open, local, blocks, title, outcome>>
    BY <1>5 DEF parseVars
  <2>2. Form'
    BY <2>1 DEF ParsingInv, Form, Reading
  <2>3. Document'
    BY <2>1 DEF ParsingInv, Document, Reading, Parsed
  <2>4. Lines' /\ Markdown' /\ Docx' /\ Html' /\ Undetected'
    BY <2>1 DEF ParsingInv, Lines, Markdown, Docx, Html, Undetected, Reading
  <2>5. QED
    BY <2>2, <2>3, <2>4 DEF ParsingInv
<1>6. QED
  BY <1>1, <1>2, <1>3, <1>4, <1>5, DetectKept DEF ParsingNext

---------------------------------------------------------------------------
(* Theorems *)

\* The invariant holds of every source of every format: what is written so far is a
\* document in reading order, what waits to be written comes after it, and the elements that
\* are open are around what is gathered in them.
THEOREM ParsingInvariant == ParsingSpec => []ParsingInv
<1>1. ParsingInit => ParsingInv
  BY InitInv
<1>2. ParsingInv /\ [ParsingNext]_parseVars => ParsingInv'
  BY NextInv
<1>3. QED
  BY <1>1, <1>2, PTL DEF ParsingSpec

\* A parser is chosen once, its elements are well nested, and the levels of the headings it
\* writes are those of Markdown.
THEOREM Types == ParsingSpec => []ParsingTypeOK
<1>1. ParsingInv => ParsingTypeOK
  <2> SUFFICES ASSUME ParsingInv PROVE ParsingTypeOK
    OBVIOUS
  <2>1. ASSUME NEW k \in DOMAIN blocks
        PROVE  /\ (blocks[k].kind = "heading") = (blocks[k].level \in 1..6)
               /\ ToSet(blocks[k].words) \subseteq DOMAIN read
    <3>1. Fits(Len(read), blocks[k])
      BY DEF ParsingInv, Document, Good, Doc
    <3>2. DOMAIN read = 1..Len(read)
      BY FormFacts DEF ParsingInv
    <3>3. QED
      BY <3>1, <3>2 DEF Fits, Upto, ToSet
  <2>2. QED
    BY <2>1 DEF ParsingTypeOK, ParsingInv, Form
<1>2. QED
  BY <1>1, ParsingInvariant, PTL

\* Places of the document in the order of their words.
LEMMA WordsInOrder ==
    ASSUME NEW bs, NEW k \in DOMAIN bs, NEW i \in DOMAIN bs[k].words,
           NEW l \in DOMAIN bs, NEW j \in DOMAIN bs[l].words,
           NEW f, NEW r, Good(f, r, bs), k < l \/ (k = l /\ i < j)
    PROVE  \/ bs[k].words[i] < bs[l].words[j]
           \/ /\ f = "docx"
              /\ (r[bs[k].words[i]].tag = "image") # (r[bs[l].words[j]].tag = "image")
<1>1. CASE k = l /\ i < j
  <2>1. Increasing(bs[k].words)
    BY DEF Good, Doc, Fits
  <2>2. QED
    BY <1>1, <2>1 DEF Increasing
<1>2. CASE k < l
  <2>1. InOrder(f, bs[k], bs[l])
    BY <1>2 DEF Good, Doc
  <2>2. CASE Precedes(bs[k].words, bs[l].words)
    BY <2>2 DEF Precedes
  <2>3. CASE Apart(f, bs[k], bs[l])
    <3>1. /\ (bs[k].kind = "image") = (r[bs[k].words[i]].tag = "image")
          /\ (bs[l].kind = "image") = (r[bs[l].words[j]].tag = "image")
      BY <2>3 DEF Apart, Good, Lawful
    <3>2. QED
      BY <2>3, <3>1 DEF Apart
  <2>4. QED
    BY <2>1, <2>2, <2>3 DEF InOrder
<1>3. QED
  BY <1>1, <1>2

\* What is in the document is there once, and in the order of the source; the images of a
\* DOCX are in order, and its texts are.
THEOREM ReadingOrder == ParsingSpec => []InReadingOrder
<1>1. ParsingInv => InReadingOrder
  <2> SUFFICES ASSUME ParsingInv PROVE InReadingOrder
    OBVIOUS
  <2> DEFINE places == UNION {{<<k, i>> : i \in DOMAIN blocks[k].words} : k \in DOMAIN blocks}
             word(p) == blocks[p[1]].words[p[2]]
             before(p, q) == p[1] < q[1] \/ (p[1] = q[1] /\ p[2] < q[2])
             sorted(tokens) == \A p, q \in places :
                 word(p) \in tokens /\ word(q) \in tokens /\ before(p, q) => word(p) < word(q)
  <2>1. Good(format, read, blocks) /\ blocks \in Seq(BlockRec)
    BY DEF ParsingInv, Document, Good, Doc
  <2>2. ASSUME NEW p \in places
        PROVE  /\ p = <<p[1], p[2]>> /\ p[1] \in DOMAIN blocks /\ p[2] \in DOMAIN blocks[p[1]].words
               /\ p[1] \in Nat /\ p[2] \in Nat /\ word(p) \in Nat
    <3>1. PICK k \in DOMAIN blocks : p \in {<<k, i>> : i \in DOMAIN blocks[k].words}
      OBVIOUS
    <3>2. PICK i \in DOMAIN blocks[k].words : p = <<k, i>>
      BY <3>1
    <3>3. blocks[k].words \in Seq(Nat) /\ k \in Nat
      <4>1. blocks[k] \in BlockRec /\ DOMAIN blocks = 1..Len(blocks)
        BY <2>1
      <4>2. QED
        BY <4>1 DEF BlockRec
    <3>4. i \in Nat /\ blocks[k].words[i] \in Nat
      BY <3>3
    <3>5. p[1] = k /\ p[2] = i
      BY <3>2
    <3>6. QED
      BY <3>2, <3>3, <3>4, <3>5
  <2>3. ASSUME NEW p \in places, NEW q \in places, before(p, q)
        PROVE  \/ word(p) < word(q)
               \/ format = "docx" /\ (read[word(p)].tag = "image") # (read[word(q)].tag = "image")
    <3>1. PICK k \in DOMAIN blocks : k = p[1]
      BY <2>2
    <3>5. PICK i \in DOMAIN blocks[k].words : i = p[2]
      BY <2>2, <3>1
    <3>2. PICK l \in DOMAIN blocks : l = q[1]
      BY <2>2
    <3>6. PICK j \in DOMAIN blocks[l].words : j = q[2]
      BY <2>2, <3>2
    <3>3. k < l \/ (k = l /\ i < j)
      BY <2>3, <3>1, <3>2, <3>5, <3>6
    <3>4. QED
      BY <2>1, <3>1, <3>2, <3>3, <3>5, <3>6, WordsInOrder
  <2> HIDE DEF places
  <2>4. ASSUME NEW p \in places, NEW q \in places, word(p) = word(q) PROVE p = q
    <3>1. ~before(p, q) /\ ~before(q, p)
      BY <2>2, <2>3, <2>4
    <3>2. p[1] = q[1] /\ p[2] = q[2]
      BY <2>2, <3>1
    <3>3. QED
      BY <2>2, <3>2
  <2>5. format # "docx" => sorted(DOMAIN read)
    BY <2>3
  <2>6. sorted(Texts) /\ sorted(Images)
    BY <2>3 DEF Texts, Images, Tag
  <2>7. QED
    BY <2>4, <2>5, <2>6 DEF InReadingOrder, places
<1>2. QED
  BY <1>1, ParsingInvariant, PTL

\* What was written is what the author marked, and so is the name of the document.
LEMMA MarkedHeadings ==
    ASSUME ReadableFonts
    PROVE  ParsingInv => HeadingsAreMarked
<1> SUFFICES ASSUME ParsingInv PROVE HeadingsAreMarked
  OBVIOUS
<1>1. ASSUME NEW k \in DOMAIN blocks, blocks[k].kind = "heading", NEW i \in ToSet(blocks[k].words)
      PROVE  Marked(i)
  <2>1. PICK j \in DOMAIN blocks[k].words : i = blocks[k].words[j]
    BY DEF ToSet
  <2>2. MarkedIn(format, read, i)
    BY <1>1, <2>1 DEF ParsingInv, Document, Good, Lawful
  <2>3. format \in Five
    <3>1. DOMAIN <<>> = {}
      OBVIOUS
    <3>2. QED
      BY <3>1 DEF ParsingInv, Form
  <2>4. QED
    BY <2>2, <2>3, MarkedIs DEF Five
<1>2. Parsed => NamedByItsAuthor
  BY NamedIs DEF ParsingInv, Document
<1>3. QED
  BY <1>1, <1>2 DEF HeadingsAreMarked

\* The words of a heading were marked as one, and nothing else becomes the title of a
\* unit or of the bundle. The fonts of a PDF are at least five points.
THEOREM HeadingsMarked == ASSUME ReadableFonts PROVE ParsingSpec => []HeadingsAreMarked
<1>1. ParsingInv => HeadingsAreMarked
  BY MarkedHeadings
<1>2. QED
  BY <1>1, ParsingInvariant, PTL

---------------------------------------------------------------------------
(* Where a word is *)

\* InDocument is what the blocks say.
LEMMA SaysIs == ASSUME NEW i PROVE i \in InDocument <=> Says(blocks, i)
<1>1. \A k \in DOMAIN blocks : i \in ToSet(blocks[k].words) <=> In(blocks[k].words, i)
  BY DEF ToSet, In
<1>2. QED
  BY <1>1 DEF InDocument, Says

\* Words that are gathered one by one, or put behind others.
LEMMA InNothing == ASSUME NEW i PROVE ~In(<<>>, i)
  BY DEF In

\* A word alone.
LEMMA InOne == ASSUME NEW x, NEW i PROVE In(<<x>>, i) <=> i = x
  BY DEF In

\* One more word.
LEMMA InAppend ==
    ASSUME NEW w \in Seq(Nat), NEW x \in Nat, NEW i
    PROVE  In(Append(w, x), i) <=> In(w, i) \/ i = x
<1>1. /\ DOMAIN Append(w, x) = 1..(Len(w) + 1) /\ DOMAIN w = 1..Len(w) /\ Len(w) \in Nat
      /\ \A j \in 1..Len(w) : Append(w, x)[j] = w[j]
      /\ Append(w, x)[Len(w) + 1] = x
  OBVIOUS
<1>2. QED
  BY <1>1 DEF In

\* Words behind others.
LEMMA InConcat ==
    ASSUME NEW v \in Seq(Nat), NEW w \in Seq(Nat), NEW i
    PROVE  In(v \o w, i) <=> In(v, i) \/ In(w, i)
<1>1. /\ DOMAIN (v \o w) = 1..(Len(v) + Len(w)) /\ DOMAIN v = 1..Len(v) /\ DOMAIN w = 1..Len(w)
      /\ Len(v) \in Nat /\ Len(w) \in Nat
      /\ \A j \in 1..Len(v) : (v \o w)[j] = v[j]
      /\ \A j \in 1..Len(w) : (v \o w)[Len(v) + j] = w[j]
  OBVIOUS
<1>2. ASSUME In(v \o w, i) PROVE In(v, i) \/ In(w, i)
  <2>1. PICK j \in DOMAIN (v \o w) : (v \o w)[j] = i
    BY <1>2 DEF In
  <2>2. CASE j \in 1..Len(v)
    BY <1>1, <2>1, <2>2 DEF In
  <2>3. CASE j - Len(v) \in 1..Len(w)
    <3>1. j = Len(v) + (j - Len(v))
      BY <1>1, <2>1
    <3>2. w[j - Len(v)] = i
      BY <1>1, <2>1, <2>3, <3>1
    <3>3. QED
      BY <1>1, <2>3, <3>2 DEF In
  <2>4. QED
    BY <1>1, <2>1, <2>2, <2>3
<1>3. ASSUME In(v, i) PROVE In(v \o w, i)
  <2>1. PICK j \in DOMAIN v : v[j] = i
    BY <1>3 DEF In
  <2>2. j \in DOMAIN (v \o w)
    BY <1>1, <2>1
  <2>3. QED
    BY <1>1, <2>1, <2>2 DEF In
<1>4. ASSUME In(w, i) PROVE In(v \o w, i)
  <2>1. PICK j \in DOMAIN w : w[j] = i
    BY <1>4 DEF In
  <2>2. Len(v) + j \in DOMAIN (v \o w)
    BY <1>1, <2>1
  <2>3. QED
    BY <1>1, <2>1, <2>2 DEF In
<1>5. QED
  BY <1>2, <1>3, <1>4

\* A block adds its words to what the document says.
LEMMA SaysAppend ==
    ASSUME NEW bs \in Seq(BlockRec), NEW b \in BlockRec, NEW i
    PROVE  Says(Append(bs, b), i) <=> Says(bs, i) \/ In(b.words, i)
<1>1. /\ DOMAIN Append(bs, b) = 1..(Len(bs) + 1) /\ DOMAIN bs = 1..Len(bs) /\ Len(bs) \in Nat
      /\ \A k \in 1..Len(bs) : Append(bs, b)[k] = bs[k]
      /\ Append(bs, b)[Len(bs) + 1] = b
  OBVIOUS
<1>2. QED
  BY <1>1 DEF Says

\* So does a paragraph, which is written if it has words.
LEMMA SaysParagraph ==
    ASSUME NEW bs \in Seq(BlockRec), NEW w \in Seq(Nat), NEW i
    PROVE  /\ Says(bs \o Paragraph(w), i) <=> Says(bs, i) \/ In(w, i)
           /\ bs \o Paragraph(w) \in Seq(BlockRec)
<1>1. CASE w = <<>>
  BY <1>1, InNothing DEF Paragraph
<1>2. CASE w # <<>>
  <2> DEFINE b == Block("paragraph", 0, w)
  <2>1. b \in BlockRec /\ b.words = w
    BY DEF Block, BlockRec, Kinds
  <2>2. Paragraph(w) = <<b>>
    BY <1>2 DEF Paragraph
  <2> HIDE DEF b
  <2>3. bs \o Paragraph(w) = Append(bs, b) /\ Append(bs, b) \in Seq(BlockRec)
    BY <2>1, <2>2, AppendConcat
  <2>4. QED
    BY <2>1, <2>3, SaysAppend
<1>3. QED
  BY <1>1, <1>2

\* One more block of the words that were gathered.
LEMMA SaysBlock ==
    ASSUME NEW bs \in Seq(BlockRec), NEW kind \in Kinds, NEW level \in Int, NEW w \in Seq(Nat), NEW i
    PROVE  /\ Says(bs \o <<Block(kind, level, w)>>, i) <=> Says(bs, i) \/ In(w, i)
           /\ Says(Append(bs, Block(kind, level, w)), i) <=> Says(bs, i) \/ In(w, i)
           /\ bs \o <<Block(kind, level, w)>> \in Seq(BlockRec)
<1> DEFINE b == Block(kind, level, w)
<1>1. b \in BlockRec /\ b.words = w
  BY DEF Block, BlockRec
<1> HIDE DEF b
<1>2. bs \o <<b>> = Append(bs, b) /\ Append(bs, b) \in Seq(BlockRec)
  BY <1>1, AppendConcat
<1>3. Says(Append(bs, b), i) <=> Says(bs, i) \/ In(w, i)
  BY <1>1, SaysAppend
<1>4. QED
  BY <1>2, <1>3 DEF b

\* A function of the numbers up to n may be defined by what it is for 0 and what it is for
\* k, given what it is for k - 1.
Follows(f, n, c, step) == f[0] = c /\ \A k \in 1..n : f[k] = step[k][f[k - 1]]

\* There is such a function, the shortest prefix without one would have had one less.
LEMMA Recursion ==
    ASSUME NEW n \in Nat, NEW S, NEW c \in S, NEW step \in [1..n -> [S -> S]]
    PROVE  \E f \in [0..n -> S] : Follows(f, n, c, step)
<1> DEFINE Unsolved == {m \in Nat : m <= n /\ \A f \in [0..m -> S] : ~Follows(f, m, c, step)}
<1> SUFFICES ASSUME Unsolved # {} PROVE FALSE
  OBVIOUS
<1>1. PICK m \in Unsolved : \A k \in Unsolved : m <= k
  BY LeastNumber, Unsolved \subseteq Nat
<1>2. CASE m = 0
  <2> DEFINE f == [k \in 0..0 |-> c]
  <2>1. f \in [0..0 -> S] /\ Follows(f, 0, c, step)
    BY DEF Follows
  <2>2. QED
    BY <1>1, <1>2, <2>1
<1>3. CASE m > 0
  <2>1. m \in Nat /\ m <= n /\ m - 1 \in Nat /\ m - 1 <= n /\ m - 1 \notin Unsolved
    BY <1>1, <1>3
  <2>2. PICK g \in [0..(m - 1) -> S] : Follows(g, m - 1, c, step)
    BY <2>1
  <2> DEFINE f == [k \in 0..m |-> IF k = m THEN step[m][g[m - 1]] ELSE g[k]]
  <2>3. g[m - 1] \in S /\ m \in 1..n
    BY <1>3, <2>1
  <2>4. step[m][g[m - 1]] \in S
    BY <2>3
  <2>5. f \in [0..m -> S]
    BY <2>1, <2>4
  <2>6. f[0] = c
    BY <1>3, <2>1, <2>2 DEF Follows
  <2>7. ASSUME NEW k \in 1..m PROVE f[k] = step[k][f[k - 1]]
    <3>1. CASE k = m
      BY <1>3, <2>1, <3>1
    <3>2. CASE k \in 1..(m - 1)
      BY <1>3, <2>1, <2>2, <3>2 DEF Follows
    <3>3. QED
      BY <2>1, <3>1, <3>2
  <2>8. QED
    BY <1>1, <2>5, <2>6, <2>7 DEF Follows
<1>4. QED
  BY <1>1, <1>2, <1>3

---------------------------------------------------------------------------
(* Texts and PDF: no line is lost *)

\* Underlines of the model is UnderlinesIn of what was read.
LEMMA UnderlinesIs == ASSUME NEW i PROVE Underlines(i) <=> UnderlinesIn(read, i)
  BY Zenon DEF Underlines, UnderlinesIn, Ruled, Rules, Tag

\* There is one such function for every length of the source,
LEMMA RuledExists ==
    ASSUME NEW r, NEW n \in Nat
    PROVE  \E f : Ruled(r, n, f)
<1> DEFINE step == [k \in 1..n |-> [b \in BOOLEAN |-> k > 1 /\ r[k].tag = "underline" /\ r[k - 1].tag # "blank" /\ ~b]]
<1>1. step \in [1..n -> [BOOLEAN -> BOOLEAN]] /\ FALSE \in BOOLEAN
  OBVIOUS
<1>2. PICK f \in [0..n -> BOOLEAN] : Follows(f, n, FALSE, step)
  <2> HIDE DEF step
  <2>1. QED
    BY <1>1, Recursion
<1>3. ASSUME NEW k \in 0..n PROVE f[k] = Rules(r, f, k)
  <2>1. CASE k = 0
    <3>1. ~(0 > 1)
      OBVIOUS
    <3>2. f[0] = FALSE
      BY <1>2 DEF Follows
    <3>3. QED
      BY <2>1, <3>1, <3>2 DEF Rules
  <2>2. CASE k \in 1..n
    <3>1. f[k] = step[k][f[k - 1]] /\ f[k - 1] \in BOOLEAN /\ f[k] \in BOOLEAN
      BY <1>2, <2>2 DEF Follows
    <3>2. step[k][f[k - 1]] = (k > 1 /\ r[k].tag = "underline" /\ r[k - 1].tag # "blank" /\ ~f[k - 1])
      BY <2>2, <3>1
    <3> HIDE DEF step
    <3>3. QED
      BY <3>1, <3>2 DEF Rules
  <2>3. QED
    BY <2>1, <2>2
<1>4. f = [k \in 0..n |-> f[k]]
  BY <1>2
<1> HIDE DEF step
<1>5. f = [k \in 0..n |-> Rules(r, f, k)]
  BY <1>3, <1>4
<1>6. QED
  BY <1>5 DEF Ruled

\* and no two of them differ.
LEMMA RuledSame ==
    ASSUME NEW r, NEW n \in Nat, NEW m \in Nat, NEW f, Ruled(r, n, f), NEW g, Ruled(r, m, g),
           NEW i \in Nat, i <= n, i <= m
    PROVE  f[i] <=> g[i]
<1> DEFINE Bad == {k \in Nat : k <= n /\ k <= m /\ ~(f[k] <=> g[k])}
<1> SUFFICES ASSUME Bad # {} PROVE FALSE
  OBVIOUS
<1>1. PICK k \in Bad : \A l \in Bad : k <= l
  BY LeastNumber, Bad \subseteq Nat
<1>2. k \in 0..n /\ k \in 0..m
  OBVIOUS
<1>3. (f[k] <=> Rules(r, f, k)) /\ (g[k] <=> Rules(r, g, k))
  BY <1>2 DEF Ruled
<1>4. ASSUME k > 1 PROVE f[k - 1] <=> g[k - 1]
  <2>1. k - 1 \in Nat /\ k - 1 <= n /\ k - 1 <= m /\ ~(k <= k - 1)
    BY <1>2, <1>4
  <2>2. k - 1 \notin Bad
    BY <1>1, <2>1
  <2>3. QED
    BY <2>1, <2>2
<1>5. QED
  BY <1>1, <1>3, <1>4 DEF Rules

\* So an underline is one of the line before it, which is no underline itself.
LEMMA UnderlinesFrom ==
    ASSUME NEW r, NEW i \in Nat \ {0}
    PROVE  UnderlinesIn(r, i) <=> /\ i > 1 /\ r[i].tag = "underline"
                                  /\ r[i - 1].tag # "blank" /\ ~UnderlinesIn(r, i - 1)
<1>1. PICK f : Ruled(r, i, f) /\ UnderlinesIn(r, i) = f[i]
  BY RuledExists DEF UnderlinesIn
<1>2. PICK g : Ruled(r, i - 1, g) /\ UnderlinesIn(r, i - 1) = g[i - 1]
  <2>1. i - 1 \in Nat
    OBVIOUS
  <2>2. QED
    BY <2>1, RuledExists DEF UnderlinesIn
<1>3. f[i - 1] <=> g[i - 1]
  <2>1. i - 1 \in Nat /\ i - 1 <= i /\ i - 1 <= i - 1 /\ i \in Nat
    OBVIOUS
  <2>2. QED
    BY <1>1, <1>2, <2>1, RuledSame
<1>4. f[i] <=> Rules(r, f, i)
  <2>1. i \in 0..i
    OBVIOUS
  <2>2. QED
    BY <1>1, <2>1 DEF Ruled
<1>5. QED
  BY <1>1, <1>2, <1>3, <1>4 DEF Rules

\* The lines before stay seen when words are moved on.
LEMMA SeenMore ==
    ASSUME NEW f, NEW r, NEW bs, NEW cs, NEW v, NEW w, NEW n, NEW m \in Nat,
           SeenUpto(f, r, bs, v, n), \A i : Says(bs, i) \/ In(v, i) => Says(cs, i) \/ In(w, i),
           \A i \in 1..m : i \in 1..n \/ Seen(f, r, cs, w, i),
           f = "text" /\ m + 1 <= Len(r) => ~UnderlinesIn(r, m + 1)
    PROVE  SeenUpto(f, r, cs, w, m)
<1>1. ASSUME NEW i \in 1..m PROVE Seen(f, r, cs, w, i)
  BY DEF SeenUpto, Seen
<1>2. QED
  BY <1>1 DEF SeenUpto

\* A heading: the paragraph before it is flushed.
LEMMA HeadingSeen ==
    ASSUME LinesInv, LinesLoss, format \in {"text", "pdf"}, Reading, NEW level \in 1..6, NEW step \in 1..2,
           local.next > 0, local.next + step <= Len(read) + 1,
           AddHeading(level, local.next, step),
           step = 2 => format = "text" /\ UnderlinesIn(read, local.next + 1),
           format = "text" /\ local.next + step <= Len(read) => ~UnderlinesIn(read, local.next + step),
           UNCHANGED <<format, read>>
    PROVE  LinesLoss'
<1> DEFINE n == local.next - 1
           m == local.next + step - 1
           mid == blocks \o Paragraph(local.para)
<1>1. /\ local.next \in Nat /\ n \in Nat /\ Pending(format, n, blocks, "paragraph", local.para)
      /\ blocks \in Seq(BlockRec) /\ local.para \in Seq(Nat)
  BY LinesFacts DEF Doc, Pending
<1>2. blocks' = mid \o <<Block("heading", level, <<local.next>>)>> /\ local'.para = <<>>
      /\ local'.next = local.next + step
  <2>1. DOMAIN local = {"next", "para", "body", "inferred"}
    BY DEF LinesInv, Lines, LinesOK
  <2>2. QED
    BY <2>1 DEF AddHeading
<1>3. ASSUME NEW i PROVE Says(blocks', i) <=> Says(blocks, i) \/ In(local.para, i) \/ i = local.next
  <2>1. mid \in Seq(BlockRec) /\ (Says(mid, i) <=> Says(blocks, i) \/ In(local.para, i))
    BY <1>1, SaysParagraph
  <2>2. "heading" \in Kinds /\ level \in Int /\ <<local.next>> \in Seq(Nat)
    BY <1>1 DEF Kinds
  <2> HIDE DEF mid
  <2>3. Says(blocks', i) <=> Says(mid, i) \/ In(<<local.next>>, i)
    BY <1>2, <2>1, <2>2, SaysBlock
  <2>4. QED
    BY <2>1, <2>3, InOne
<1>4. m \in Nat /\ m = local'.next - 1 /\ m + 1 = local.next + step
  BY <1>1, <1>2
<1>5. ASSUME NEW i \in 1..m PROVE i \in 1..n \/ Seen(format, read, blocks', <<>>, i)
  <2>1. i \in 1..n \/ i = local.next \/ (step = 2 /\ i = local.next + 1)
    BY <1>1
  <2>2. QED
    BY <1>3, <2>1 DEF Seen
<1>6. SeenUpto(format, read, blocks, local.para, n)
  BY DEF LinesLoss
<1>7. \A i : Says(blocks, i) \/ In(local.para, i) => Says(blocks', i) \/ In(<<>>, i)
  BY <1>3
<1>8. format = "text" /\ m + 1 <= Len(read) => ~UnderlinesIn(read, m + 1)
  BY <1>4
<1> HIDE DEF m, n
<1>9. SeenUpto(format, read, blocks', <<>>, m)
  BY <1>4, <1>5, <1>6, <1>7, <1>8, SeenMore
<1>10. QED
  BY <1>2, <1>4, <1>9 DEF LinesLoss

\* A line that is added to the paragraph.
LEMMA LineSeen ==
    ASSUME LinesInv, LinesLoss, format \in {"text", "pdf"}, Reading,
           local.next > 0, local.next <= Len(read), AddLine(local.next),
           format = "text" /\ local.next + 1 <= Len(read) => ~UnderlinesIn(read, local.next + 1),
           UNCHANGED <<format, read>>
    PROVE  LinesLoss'
<1> DEFINE n == local.next - 1
           m == local.next
<1>1. /\ m \in Nat /\ n \in Nat /\ local.para \in Seq(Nat)
  BY LinesFacts DEF Pending
<1>2. blocks' = blocks /\ local'.para = Append(local.para, m) /\ local'.next = m + 1 /\ local'.next - 1 = m
  <2>1. DOMAIN local = {"next", "para", "body", "inferred"}
    BY DEF LinesInv, Lines, LinesOK
  <2>2. QED
    BY <1>1, <2>1 DEF AddLine
<1>3. \A i : In(local'.para, i) <=> In(local.para, i) \/ i = m
  BY <1>1, <1>2, InAppend
<1>5. ASSUME NEW i \in 1..m PROVE i \in 1..n \/ Seen(format, read, blocks', local'.para, i)
  <2>1. i \in 1..n \/ i = m
    BY <1>1
  <2>2. QED
    BY <1>3, <2>1 DEF Seen
<1>6. SeenUpto(format, read, blocks, local.para, n)
  BY DEF LinesLoss
<1>7. \A i : Says(blocks, i) \/ In(local.para, i) => Says(blocks', i) \/ In(local'.para, i)
  BY <1>2, <1>3
<1>9. SeenUpto(format, read, blocks', local'.para, m)
  BY <1>1, <1>5, <1>6, <1>7, SeenMore
<1>10. QED
  BY <1>2, <1>9 DEF LinesLoss

\* A line that is not read.
LEMMA LineUnread ==
    ASSUME LinesInv, LinesLoss, format = "pdf", Reading,
           local.next > 0, local.next <= Len(read), SkipLine, read[local.next].tag = "inner",
           UNCHANGED <<format, read>>
    PROVE  LinesLoss'
<1> DEFINE n == local.next - 1
           m == local.next
<1>1. m \in Nat /\ n \in Nat
  BY LinesFacts
<1>2. blocks' = blocks /\ local'.para = local.para /\ local'.next = m + 1 /\ local'.next - 1 = m
  <2>1. DOMAIN local = {"next", "para", "body", "inferred"}
    BY DEF LinesInv, Lines, LinesOK
  <2>2. QED
    BY <1>1, <2>1 DEF SkipLine
<1>3. ASSUME NEW i \in 1..m PROVE i \in 1..n \/ Seen(format, read, blocks', local'.para, i)
  <2>1. i \in 1..n \/ i = m
    BY <1>1
  <2>2. QED
    BY <2>1 DEF Seen
<1>4. SeenUpto(format, read, blocks, local.para, n)
  BY DEF LinesLoss
<1>5. SeenUpto(format, read, blocks', local'.para, m)
  BY <1>1, <1>2, <1>3, <1>4, SeenMore
<1>6. QED
  BY <1>2, <1>5 DEF LinesLoss

\* Every step over the lines sees its lines, and at the end all of them were seen.
LEMMA LinesLossKept == LinesInv /\ LinesLoss /\ LinesNext => LinesLoss' /\ NothingElseIsLost'
<1> SUFFICES ASSUME LinesInv, LinesLoss, LinesNext PROVE LinesLoss' /\ NothingElseIsLost'
  OBVIOUS
<1>1. format \in {"text", "pdf"} /\ Reading /\ UNCHANGED <<upload, format, vocabulary, open>>
  BY DEF LinesNext, ReadLine, StartLooking, TextLine, PdfLine, LinesEnd
<1>2. DOMAIN local = {"next", "para", "body", "inferred"}
  BY <1>1 DEF LinesInv, Lines, LinesOK
<1>3. ASSUME ~LinesEnd PROVE NothingElseIsLost'
  BY <1>1, <1>3 DEF LinesNext, ReadLine, StartLooking, TextLine, PdfLine, NothingElseIsLost, Parsed, Reading
<1>4. CASE ReadLine
  <2>1. local.next = 0 /\ local' = local
    BY <1>1, <1>4, LinesFacts DEF ReadLine, Looking
  <2>2. LinesLoss' /\ ~LinesEnd
    BY <2>1 DEF LinesLoss, LinesEnd, Looking
  <2>3. QED
    BY <1>3, <2>2
<1>5. CASE StartLooking
  <2>1. local'.next = 1 /\ read' = read /\ ~Looking
    BY <1>2, <1>5 DEF StartLooking
  <2>2. ~UnderlinesIn(read, 1)
    <3>1. ~(1 > 1) /\ 1 \in Nat \ {0}
      OBVIOUS
    <3>2. QED
      BY <3>1, UnderlinesFrom
  <2>3. 1..(1 - 1) = {} /\ 1 - 1 + 1 = 1
    OBVIOUS
  <2>4. SeenUpto(format, read, blocks', local'.para, 1 - 1)
    BY <2>2, <2>3 DEF SeenUpto
  <2>5. LinesLoss' /\ ~LinesEnd
    BY <1>1, <2>1, <2>4 DEF LinesLoss, LinesEnd
  <2>6. QED
    BY <1>3, <2>5
<1>6. CASE TextLine
  <2> DEFINE i == local.next
  <2>1. /\ format = "text" /\ i \in Nat /\ i > 0 /\ i <= Len(read) /\ Len(read) \in Nat
        /\ i \in DOMAIN read /\ UNCHANGED <<upload, format, vocabulary, read, open, outcome>>
    BY <1>1, <1>6, LinesFacts, FormFacts DEF TextLine, Looking, LinesInv
  <2>2. ~LinesEnd
    BY <2>1 DEF LinesEnd
  <2>3. ~UnderlinesIn(read, i)
    <3>1. i - 1 + 1 = i
      BY <2>1
    <3>2. SeenUpto(format, read, blocks, local.para, i - 1)
      BY <1>1, <2>1 DEF LinesLoss
    <3>3. QED
      BY <2>1, <3>1, <3>2 DEF SeenUpto
  <2>4. UnderlinesIn(read, i + 1) <=> read[i + 1].tag = "underline" /\ read[i].tag # "blank"
    <3>1. PICK j \in Nat \ {0} : j = i + 1 /\ j > 1 /\ j - 1 = i
      BY <2>1
    <3>2. UnderlinesIn(read, j) <=> /\ j > 1 /\ read[j].tag = "underline"
                                    /\ read[j - 1].tag # "blank" /\ ~UnderlinesIn(read, j - 1)
      BY UnderlinesFrom
    <3>3. QED
      BY <2>3, <3>1, <3>2
  <2>5. CASE Line(i).tag = "blank"
    <3>1. /\ blocks' = blocks \o Paragraph(local.para)
          /\ local' = [local EXCEPT !.next = @ + 1, !.para = <<>>]
      BY <1>6, <2>5 DEF TextLine
    <3>2. local'.next = i + 1 /\ local'.para = <<>> /\ local'.next - 1 = i
      BY <1>2, <2>1, <3>1
    <3>3. /\ i - 1 \in Nat /\ Pending(format, i - 1, blocks, "paragraph", local.para)
          /\ blocks \in Seq(BlockRec) /\ local.para \in Seq(Nat)
      BY <1>1, <2>1, LinesFacts DEF Doc, Pending
    <3>4. \A x : Says(blocks', x) <=> Says(blocks, x) \/ In(local.para, x)
      BY <3>1, <3>3, SaysParagraph
    <3>5. ASSUME NEW x \in 1..i PROVE x \in 1..(i - 1) \/ Seen(format, read, blocks', <<>>, x)
      <4>1. x \in 1..(i - 1) \/ x = i
        BY <2>1
      <4>2. QED
        BY <2>5, <4>1 DEF Seen, Line
    <3>6. SeenUpto(format, read, blocks, local.para, i - 1)
      BY <1>1, <2>1 DEF LinesLoss
    <3>7. ~UnderlinesIn(read, i + 1)
      BY <2>4, <2>5 DEF Line
    <3>8. SeenUpto(format, read, blocks', <<>>, i)
      BY <2>1, <3>4, <3>5, <3>6, <3>7, SeenMore
    <3>9. LinesLoss'
      BY <2>1, <3>2, <3>8 DEF LinesLoss
    <3>10. QED
      BY <1>3, <2>2, <3>9
  <2>6. CASE Line(i).tag # "blank" /\ Underlined(i)
    <3>1. AddHeading(Line(i + 1).arg, i, 2)
      BY <1>6, <2>6 DEF TextLine
    <3>2. i < Len(read) /\ read[i + 1].tag = "underline" /\ i + 1 \in DOMAIN read
      BY <2>1, <2>6, FormFacts DEF Underlined, Line, LinesInv
    <3>3. read[i + 1].arg \in 1..6 /\ i + 2 <= Len(read) + 1
      BY <2>1, <3>2 DEF LinesInv, Form, Known, MayBe
    <3>4. UnderlinesIn(read, i + 1)
      BY <2>4, <2>6, <3>2 DEF Line
    <3>5. ~UnderlinesIn(read, i + 2)
      <4>1. PICK j \in Nat \ {0} : j = i + 2 /\ j - 1 = i + 1
        BY <2>1
      <4>2. UnderlinesIn(read, j) => ~UnderlinesIn(read, j - 1)
        BY UnderlinesFrom
      <4>3. QED
        BY <3>4, <4>1, <4>2
    <3>6. LinesLoss'
      BY <1>1, <2>1, <3>1, <3>3, <3>4, <3>5, HeadingSeen DEF Line
    <3>7. QED
      BY <1>3, <2>2, <3>6
  <2>7. ASSUME ~Underlined(i) PROVE i + 1 <= Len(read) => ~UnderlinesIn(read, i + 1)
    <3>1. i + 1 <= Len(read) => i < Len(read)
      BY <2>1
    <3>2. QED
      BY <2>4, <2>7, <3>1 DEF Underlined, Line
  <2>8. CASE Line(i).tag # "blank" /\ ~Underlined(i) /\ LooksLikeHeading(i)
    <3>1. AddHeading(LevelOf(i), i, 1)
      BY <1>6, <2>8 DEF TextLine
    <3>2. MayBe(format, read[i]) /\ read[i].tag \in {"numbered", "capitals"}
      BY <2>1, <2>8 DEF LinesInv, Form, Known, LooksLikeHeading, Line
    <3>3. LevelOf(i) \in 1..6
      <4>1. CASE read[i].tag = "capitals"
        BY <4>1 DEF LevelOf, Line
      <4>2. CASE read[i].tag = "numbered"
        <5>1. read[i].arg \in Nat \ {0}
          BY <3>2, <4>2 DEF MayBe
        <5>2. QED
          BY <4>2, <5>1 DEF LevelOf, Line
      <4>3. QED
        BY <3>2, <4>1, <4>2
    <3>4. LinesLoss'
      BY <1>1, <2>1, <2>7, <2>8, <3>1, <3>3, HeadingSeen
    <3>5. QED
      BY <1>3, <2>2, <3>4
  <2>9. CASE Line(i).tag # "blank" /\ ~Underlined(i) /\ ~LooksLikeHeading(i)
    <3>1. AddLine(i)
      BY <1>6, <2>9 DEF TextLine
    <3>2. LinesLoss'
      BY <1>1, <2>1, <2>7, <2>9, <3>1, LineSeen
    <3>3. QED
      BY <1>3, <2>2, <3>2
  <2>10. QED
    BY <2>5, <2>6, <2>8, <2>9
<1>7. CASE PdfLine
  <2> DEFINE i == local.next
             size == read[i].arg
             body == local.body
  <2>1. /\ format = "pdf" /\ i \in Nat /\ i > 0 /\ i <= Len(read) /\ Len(read) \in Nat
        /\ UNCHANGED <<upload, format, vocabulary, read, open, outcome>>
    BY <1>1, <1>7, LinesFacts DEF PdfLine, Looking
  <2>2. ~LinesEnd
    BY <2>1 DEF LinesEnd
  <2>7. CASE read[i].tag = "inner"
    <3>1. SkipLine
      BY <1>7, <2>7 DEF PdfLine, Line
    <3>2. LinesLoss'
      BY <2>1, <2>7, <3>1, <1>1, LineUnread
    <3>3. QED
      BY <1>3, <2>2, <3>2
  <2>3. CASE read[i].tag # "inner" /\ body > 0 /\ size >= (body * 3) \div 2
    <3>1. AddHeading(1, i, 1) /\ 1 \in 1..6 /\ 1 \in 1..2
      BY <1>7, <2>3 DEF PdfLine, Line
    <3>2. LinesLoss'
      BY <1>1, <2>1, <3>1, HeadingSeen
    <3>3. QED
      BY <1>3, <2>2, <3>2
  <2>4. CASE read[i].tag # "inner" /\ body > 0 /\ ~(size >= (body * 3) \div 2) /\ size >= (body * 6) \div 5
    <3>1. AddHeading(2, i, 1) /\ 2 \in 1..6 /\ 1 \in 1..2
      BY <1>7, <2>4 DEF PdfLine, Line
    <3>2. LinesLoss'
      BY <1>1, <2>1, <3>1, HeadingSeen
    <3>3. QED
      BY <1>3, <2>2, <3>2
  <2>5. CASE /\ read[i].tag # "inner"
             /\ ~(body > 0 /\ size >= (body * 3) \div 2) /\ ~(body > 0 /\ size >= (body * 6) \div 5)
    <3>1. AddLine(i)
      BY <1>7, <2>5 DEF PdfLine, Line
    <3>2. LinesLoss'
      BY <1>1, <2>1, <3>1, LineSeen
    <3>3. QED
      BY <1>3, <2>2, <3>2
  <2>6. QED
    BY <2>3, <2>4, <2>5, <2>7
<1>8. CASE LinesEnd
  <2>1. /\ blocks' = blocks \o Paragraph(local.para) /\ outcome' = "parsed" /\ read' = read
        /\ local.next > 0 /\ local.next > Len(read)
    BY <1>8 DEF LinesEnd, Looking, EndOfSource, Finish
  <2>2. /\ local.next \in Nat /\ Len(read) \in Nat /\ Pending(format, local.next - 1, blocks, "paragraph", local.para)
        /\ blocks \in Seq(BlockRec) /\ local.para \in Seq(Nat)
    BY <1>1, <2>1, LinesFacts DEF Doc, Pending
  <2>3. \A x : Says(blocks', x) <=> Says(blocks, x) \/ In(local.para, x)
    BY <2>1, <2>2, SaysParagraph
  <2>4. ASSUME NEW i \in DOMAIN read, read[i].tag # "blank"
        PROVE  Says(blocks', i) \/ (format = "text" /\ UnderlinesIn(read, i)) \/ (format = "pdf" /\ read[i].tag = "inner")
    <3>1. i \in 1..(local.next - 1)
      BY <2>1, <2>2, FormFacts DEF LinesInv
    <3>2. SeenUpto(format, read, blocks, local.para, local.next - 1)
      BY <1>1, <2>1 DEF LinesLoss
    <3>3. Seen(format, read, blocks, local.para, i)
      BY <3>1, <3>2 DEF SeenUpto
    <3>4. QED
      BY <2>3, <2>4, <3>3 DEF Seen
  <2>5. ASSUME NEW i PROVE i \in InDocument' <=> Says(blocks', i)
    <3>1. \A k \in DOMAIN blocks' : i \in ToSet(blocks'[k].words) <=> In(blocks'[k].words, i)
      BY DEF ToSet, In
    <3>2. QED
      BY <3>1 DEF InDocument, Says
  <2>6. ASSUME NEW i \in DOMAIN read, i \in (Texts \cup Images)' PROVE i \in InDocument' \/ Loses(i)'
    <3>1. read[i].tag # "blank"
      BY <2>1, <2>6 DEF Texts, Images, Tag
    <3>2. Says(blocks', i) \/ (format = "text" /\ UnderlinesIn(read, i)) \/ (format = "pdf" /\ read[i].tag = "inner")
      BY <2>4, <3>1
    <3>3. CASE Says(blocks', i)
      BY <2>5, <3>3
    <3>4. CASE format = "text" /\ UnderlinesIn(read, i)
      <4>1. Underlines(i)'
        <5>1. Underlines(i)
          BY <3>4, UnderlinesIs
        <5>2. QED
          BY <2>1, <5>1 DEF Underlines, Tag
      <4>2. QED
        BY <1>1, <3>4, <4>1 DEF Loses
    <3>6. CASE format = "pdf" /\ read[i].tag = "inner"
      BY <1>1, <2>1, <3>6 DEF Loses, Tag
    <3>5. QED
      BY <3>2, <3>3, <3>4, <3>6
  <2>7. (Texts \cup Images)' \subseteq DOMAIN read
    BY <2>1 DEF Texts, Images
  <2>8. NothingElseIsLost'
    BY <2>6, <2>7 DEF NothingElseIsLost
  <2>9. QED
    BY <2>1, <2>8 DEF LinesLoss, Reading
<1>9. QED
  BY <1>4, <1>5, <1>6, <1>7, <1>8 DEF LinesNext

---------------------------------------------------------------------------
(* Markdown: nothing else is lost *)

\* What is lost of the source that was read is what the model says.
LEMMA MarkdownLosesIs ==
    ASSUME NEW i \in DOMAIN read, MarkdownLosesIn(read, i)
    PROVE  MarkdownLoses(i)
<1>1. \A j : ToSet(read[j].inside) = Inside(read, j)
  BY DEF ToSet, Inside
<1>2. QED
  BY <1>1 DEF MarkdownLoses, MarkdownLosesIn, Around, Has, Tag, Images

\* What is lost stays lost.
LEMMA MarkdownLosesGrows ==
    ASSUME NEW r, NEW s, Grows(r, s), Rooted(r), NEW i \in DOMAIN r, MarkdownLosesIn(r, i)
    PROVE  MarkdownLosesIn(s, i)
<1>1. ASSUME NEW j \in DOMAIN r
      PROVE  Inside(s, j) = Inside(r, j) /\ \A e \in Inside(r, j) : e \in DOMAIN r /\ s[e] = r[e]
  BY DEF Grows, Inside, Rooted
<1>2. s[i] = r[i]
  BY DEF Grows
<1>3. CASE r[i].tag = "image" /\ \E e \in Inside(r, i) :
           r[e].tag = "heading" /\ \A d \in Inside(r, e) : r[d].tag \notin {"list", "quote"}
  <2>1. PICK e \in Inside(r, i) : r[e].tag = "heading" /\ \A d \in Inside(r, e) : r[d].tag \notin {"list", "quote"}
    BY <1>3
  <2>2. e \in DOMAIN r /\ e \in Inside(s, i) /\ s[e] = r[e]
    BY <1>1, <2>1
  <2>3. \A d \in Inside(s, e) : s[d].tag \notin {"list", "quote"}
    BY <1>1, <2>1, <2>2
  <2>4. QED
    BY <1>2, <1>3, <2>1, <2>2, <2>3 DEF MarkdownLosesIn
<1>4. CASE r[i].tag = "code" /\ \E e \in Inside(r, i) : r[e].tag \in {"list", "quote"}
  BY <1>1, <1>2, <1>4 DEF MarkdownLosesIn
<1>5. CASE r[i].tag = "line"
  BY <1>2, <1>5 DEF MarkdownLosesIn
<1>6. QED
  BY <1>3, <1>4, <1>5 DEF MarkdownLosesIn

\* A token that was found stays found when more is read and words move on.
LEMMA MdFoundGrows ==
    ASSUME NEW r, NEW s, Grows(r, s), Rooted(r), NEW bs, NEW cs, NEW v, NEW w, NEW i \in DOMAIN r,
           MdFound(r, bs, v, i), Says(bs, i) \/ In(v, i) => Says(cs, i) \/ In(w, i)
    PROVE  MdFound(s, cs, w, i)
<1>1. s[i] = r[i]
  BY DEF Grows
<1>2. QED
  BY <1>1, MarkdownLosesGrows DEF MdFound

\* An element that is not empty stays so.
LEMMA HasChildGrows ==
    ASSUME NEW r, NEW s, Grows(r, s), NEW e, HasChild(r, e)
    PROVE  HasChild(s, e)
<1>1. DOMAIN r \subseteq DOMAIN s
  BY DEF Grows
<1>2. QED
  BY <1>1 DEF HasChild, Grows

\* The innermost element of one that is open alone.
LEMMA FirstOnly ==
    ASSUME NEW s \in Seq(Nat), Len(s) >= 1
    PROVE  SubSeq(s, 1, 1) # <<>> /\ Last(SubSeq(s, 1, 1)) = s[1]
<1>1. Len(SubSeq(s, 1, 1)) = 1 /\ SubSeq(s, 1, 1)[1] = s[1] /\ SubSeq(s, 1, 1) \in Seq(Nat)
  <2>1. \A i \in 1..1 : s[i] \in Nat
    OBVIOUS
  <2>2. QED
    BY <2>1, SubSeqProperties
<1>2. QED
  BY <1>1 DEF Last

\* A token is read, inside the elements that are open.
LEMMA MarkdownReads ==
    ASSUME MarkdownInv, MarkdownLoss, format = "markdown", Reading, NEW token, Write(token), token.tag # "title",
           UNCHANGED <<format, vocabulary, open, outcome>>, local'.modes = local.modes,
           \A i : Says(blocks, i) => Says(blocks', i),
           \A i : open # <<>> => (In(local.words, i) => In(local'.words, i)),
           open # <<>> => local'.words = local.words \/ token.tag \in {"text", "image"},
           \/ token.tag \in Wordless \cup {"line"} \/ Says(blocks', Here)
           \/ (open # <<>> /\ In(local'.words, Here)) \/ MarkdownLosesIn(read', Here)
    PROVE  MarkdownLoss'
<1>1. /\ Grows(read, read') /\ Here \in Nat /\ Here = Len(read) + 1 /\ Len(read') = Here
      /\ read'[Here] = [tag |-> token.tag, arg |-> token.arg, inside |-> open]
  BY WriteForm DEF MarkdownInv, Five
<1>2. /\ DOMAIN read = 1..Len(read) /\ DOMAIN read' = 1..(Len(read) + 1) /\ Len(read) \in Nat
      /\ Rooted(read) /\ open \in Seq(Nat) /\ Len(open) \in Nat /\ DOMAIN open = 1..Len(open)
      /\ \A k \in DOMAIN open : open[k] \in DOMAIN read /\ read[open[k]].inside = SubSeq(open, 1, k - 1)
  BY <1>1, FormFacts DEF MarkdownInv, Form, Grows
<1>3. MarkdownFinds(read, open, local, blocks) /\ Len(local.modes) = Len(open) + 1
  BY MarkdownFacts DEF MarkdownLoss
<1>4. ASSUME NEW i \in DOMAIN read' PROVE MdFound(read', blocks', Held(open, local'), i)
  <2>1. CASE i \in DOMAIN read
    <3>1. MdFound(read, blocks, Held(open, local), i)
      BY <1>3, <2>1 DEF MarkdownFinds
    <3>2. Says(blocks, i) \/ In(Held(open, local), i) => Says(blocks', i) \/ In(Held(open, local'), i)
      BY InNothing DEF Held
    <3>3. QED
      BY <1>1, <1>2, <2>1, <3>1, <3>2, MdFoundGrows
  <2>2. CASE i = Here
    <3>1. read'[i].tag = token.tag
      BY <1>1, <2>2
    <3>2. token.tag = "line" => MarkdownLosesIn(read', i)
      BY <3>1 DEF MarkdownLosesIn
    <3>3. QED
      BY <2>2, <3>1, <3>2 DEF MdFound, Held
  <2>3. i \in DOMAIN read \/ i = Here
    BY <1>1, <1>2
  <2>4. QED
    BY <2>1, <2>2, <2>3
<1>5. ASSUME Held(open, local') # <<>> PROVE HasChild(read', open[1])
  <2>1. open # <<>> /\ Len(open) > 0
    BY <1>2, <1>5 DEF Held
  <2>2. CASE local'.words = local.words
    <3>1. HasChild(read, open[1])
      BY <1>3, <1>5, <2>1, <2>2 DEF Held, MarkdownFinds
    <3>2. QED
      BY <1>1, <3>1, HasChildGrows
  <2>3. CASE Len(open) = 1
    <3>1. Last(open) = open[1] /\ read'[Here].inside = open /\ Here \in DOMAIN read'
      BY <1>1, <1>2, <2>3 DEF Last
    <3>2. QED
      BY <2>1, <3>1 DEF HasChild
  <2>4. CASE Len(open) > 1
    <3>1. 2 \in DOMAIN open /\ open[2] \in DOMAIN read /\ read[open[2]].inside = SubSeq(open, 1, 2 - 1)
      <4>1. 2 \in DOMAIN open
        BY <1>2, <2>4
      <4>2. QED
        BY <1>2, <4>1
    <3>2. 2 - 1 = 1 /\ SubSeq(open, 1, 1) # <<>> /\ Last(SubSeq(open, 1, 1)) = open[1]
      BY <1>2, <2>4, FirstOnly
    <3>3. read[open[2]].inside # <<>> /\ Last(read[open[2]].inside) = open[1]
      BY <3>1, <3>2
    <3>4. HasChild(read, open[1])
      BY <3>1, <3>3 DEF HasChild
    <3>5. QED
      BY <1>1, <3>4, HasChildGrows
  <2>5. QED
    BY <1>2, <2>1, <2>3, <2>4
<1>6. \A k \in 2..Len(local'.modes) : local'.modes[k] = "plain" => read'[open[1]].tag = "heading"
  <2>1. ASSUME NEW k \in 2..Len(local.modes), local.modes[k] = "plain" PROVE read'[open[1]].tag = "heading"
    <3>1. read[open[1]].tag = "heading"
      BY <1>3, <2>1 DEF MarkdownFinds
    <3>2. 1 \in DOMAIN open
      BY <1>2, <1>3
    <3>3. QED
      BY <1>1, <1>2, <3>1, <3>2 DEF Grows
  <2>2. QED
    BY <2>1
<1>10. \A k \in DOMAIN open : read'[open[k]].tag \in Wordless
  BY <1>1, <1>2, <1>3 DEF Grows, MarkdownFinds
<1>7. \A k \in DOMAIN open : read'[open[k]].tag = "item" => k > 1 /\ read'[open[k - 1]].tag = "list"
  <2>1. ASSUME NEW k \in DOMAIN open, read'[open[k]].tag = "item" PROVE k > 1 /\ read'[open[k - 1]].tag = "list"
    <3>1. read[open[k]].tag = "item"
      BY <1>1, <1>2, <2>1 DEF Grows
    <3>2. k > 1 /\ read[open[k - 1]].tag = "list"
      BY <1>3, <3>1 DEF MarkdownFinds
    <3>3. k - 1 \in DOMAIN open
      BY <1>2, <3>2
    <3>4. QED
      BY <1>1, <1>2, <3>2, <3>3 DEF Grows
  <2>2. QED
    BY <2>1
<1>8. MarkdownFinds(read', open, local', blocks')
  BY <1>4, <1>5, <1>6, <1>7, <1>10 DEF MarkdownFinds
<1>9. QED
  BY <1>8 DEF MarkdownLoss

\* An element is opened.
LEMMA MarkdownOpens ==
    ASSUME MarkdownInv, MarkdownLoss, MdElement
    PROVE  MarkdownLoss'
<1>1. PICK token \in vocabulary.tokens :
        /\ token.tag \in {"heading", "list", "quote", "para", "table", "item", "cell", "span"}
        /\ MdMayContain(Parent, token.tag)
        /\ Write(token) /\ Enter
        /\ local' = [local EXCEPT
               !.modes = Append(@, IF MdMode = "blocks" THEN MdContents(token.tag) ELSE MdMode),
               !.words = IF MdMode = "blocks" THEN <<>> ELSE @,
               !.fence = Past(@)]
  BY DEF MdElement
<1>2. format = "markdown" /\ Reading /\ UNCHANGED <<upload, format, vocabulary, blocks, title, outcome>>
  BY DEF MdElement
<1>3. /\ Grows(read, read') /\ Here \in Nat /\ Here = Len(read) + 1 /\ Len(read') = Here
      /\ read'[Here] = [tag |-> token.tag, arg |-> token.arg, inside |-> open]
  BY <1>1, <1>2, WriteForm DEF MarkdownInv, Five
<1>4. /\ DOMAIN read = 1..Len(read) /\ DOMAIN read' = 1..(Len(read) + 1) /\ Len(read) \in Nat
      /\ Rooted(read) /\ open \in Seq(Nat) /\ Len(open) \in Nat /\ DOMAIN open = 1..Len(open)
      /\ \A k \in DOMAIN open : open[k] \in DOMAIN read
  BY <1>3, FormFacts DEF MarkdownInv, Form, Grows
<1>5. MarkdownFinds(read, open, local, blocks)
  BY <1>2 DEF MarkdownLoss
<1>6. /\ DOMAIN local = {"modes", "words", "fence"} /\ local.modes \in Seq({"blocks", "plain", "inline"})
      /\ Len(local.modes) = Len(open) + 1 /\ MdMode = local.modes[Len(open) + 1]
      /\ (MdMode = "blocks") <=> (open = <<>>)
  BY <1>2, MarkdownFacts
<1> DEFINE mode == IF MdMode = "blocks" THEN MdContents(token.tag) ELSE MdMode
<1>7. /\ local'.modes = Append(local.modes, mode)
      /\ local'.words = IF MdMode = "blocks" THEN <<>> ELSE local.words
  BY <1>1, <1>6
<1>8. mode \in {"blocks", "plain", "inline"}
  <2>1. MdMode \in {"blocks", "plain", "inline"}
    BY <1>4, <1>6
  <2>2. QED
    BY <2>1 DEF MdContents
<1>9. /\ Len(local'.modes) = Len(open) + 2
      /\ \A k \in 1..(Len(open) + 1) : local'.modes[k] = local.modes[k]
      /\ local'.modes[Len(open) + 2] = mode
  <2> HIDE DEF mode
  <2>1. QED
    BY <1>4, <1>6, <1>7, <1>8
<1>10. /\ open' = Append(open, Here) /\ Len(open') = Len(open) + 1 /\ DOMAIN open' = 1..(Len(open) + 1)
       /\ \A k \in DOMAIN open : open'[k] = open[k]
       /\ open'[Len(open) + 1] = Here /\ open' # <<>>
  BY <1>1, <1>3, <1>4 DEF Enter
<1>11. Held(open', local') = Held(open, local)
  BY <1>6, <1>7, <1>10 DEF Held
<1>12. ASSUME NEW i \in DOMAIN read' PROVE MdFound(read', blocks', Held(open', local'), i)
  <2>1. CASE i \in DOMAIN read
    <3>1. MdFound(read, blocks, Held(open, local), i)
      BY <1>5, <2>1 DEF MarkdownFinds
    <3>2. QED
      BY <1>2, <1>3, <1>4, <1>11, <2>1, <3>1, MdFoundGrows
  <2>2. CASE i = Here
    BY <1>1, <1>3, <2>2 DEF MdFound, Wordless
  <2>3. i \in DOMAIN read \/ i = Here
    BY <1>3, <1>4
  <2>4. QED
    BY <2>1, <2>2, <2>3
<1>13. ASSUME Held(open', local') # <<>> PROVE HasChild(read', open'[1])
  <2>1. Held(open, local) # <<>>
    BY <1>11, <1>13
  <2>2. HasChild(read, open[1]) /\ open # <<>>
    BY <1>5, <2>1 DEF MarkdownFinds, Held
  <2>3. open'[1] = open[1]
    BY <1>4, <1>10, <2>2
  <2>4. QED
    BY <1>3, <2>2, <2>3, HasChildGrows
<1>14. ASSUME NEW k \in 2..Len(local'.modes), local'.modes[k] = "plain" PROVE read'[open'[1]].tag = "heading"
  <2>1. CASE open = <<>>
    <3>1. k = Len(open) + 2 /\ open'[1] = Here
      BY <1>4, <1>9, <1>10, <2>1
    <3>2. MdContents(token.tag) = "plain"
      BY <1>6, <1>9, <1>14, <2>1, <3>1
    <3>3. token.tag = "heading"
      BY <3>2 DEF MdContents
    <3>4. QED
      BY <1>3, <3>1, <3>3
  <2>2. CASE open # <<>>
    <3>1. PICK l \in 2..Len(local.modes) : local.modes[l] = "plain"
      <4>1. Len(open) > 0 /\ mode = local.modes[Len(open) + 1]
        BY <1>4, <1>6, <2>2
      <4> HIDE DEF mode
      <4>2. CASE k = Len(open) + 2
        <5>1. Len(open) + 1 \in 2..Len(local.modes)
          BY <1>4, <1>6, <4>1
        <5>2. QED
          BY <1>9, <1>14, <4>1, <4>2, <5>1
      <4>3. CASE k # Len(open) + 2
        <5>1. k \in 2..Len(local.modes) /\ k \in 1..(Len(open) + 1)
          BY <1>4, <1>6, <1>9, <4>3
        <5>2. QED
          BY <1>9, <1>14, <5>1
      <4>4. QED
        BY <4>2, <4>3
    <3>2. read[open[1]].tag = "heading"
      BY <1>5, <3>1 DEF MarkdownFinds
    <3>3. open'[1] = open[1] /\ open[1] \in DOMAIN read
      BY <1>4, <1>10, <2>2
    <3>4. QED
      BY <1>3, <3>2, <3>3 DEF Grows
  <2>3. QED
    BY <2>1, <2>2
<1>15. ASSUME NEW k \in DOMAIN open', read'[open'[k]].tag = "item"
       PROVE  k > 1 /\ read'[open'[k - 1]].tag = "list"
  <2>1. CASE k \in DOMAIN open
    <3>1. open'[k] = open[k] /\ read[open[k]].tag = "item"
      BY <1>3, <1>4, <1>10, <1>15, <2>1 DEF Grows
    <3>2. k > 1 /\ read[open[k - 1]].tag = "list"
      BY <1>5, <2>1, <3>1 DEF MarkdownFinds
    <3>3. k - 1 \in DOMAIN open
      BY <1>4, <2>1, <3>2
    <3>4. QED
      BY <1>3, <1>4, <1>10, <3>2, <3>3 DEF Grows
  <2>2. CASE k = Len(open) + 1
    <3>1. token.tag = "item"
      BY <1>3, <1>10, <1>15, <2>2
    <3>2. Parent = "list"
      BY <1>1, <3>1 DEF MdMayContain
    <3>3. open # <<>> /\ Last(open) = open[Len(open)] /\ read[Last(open)].tag = "list"
      BY <3>2 DEF Parent, Last
    <3>4. Len(open) \in DOMAIN open /\ k - 1 = Len(open) /\ k > 1
      BY <1>4, <2>2, <3>3
    <3>5. open'[k - 1] = open[Len(open)] /\ open[Len(open)] \in DOMAIN read
      BY <1>4, <1>10, <3>4
    <3>6. QED
      BY <1>3, <3>3, <3>4, <3>5 DEF Grows
  <2>3. k \in DOMAIN open \/ k = Len(open) + 1
    BY <1>4, <1>10
  <2>4. QED
    BY <2>1, <2>2, <2>3
<1>18. ASSUME NEW k \in DOMAIN open' PROVE read'[open'[k]].tag \in Wordless
  <2>1. CASE k \in DOMAIN open
    BY <1>3, <1>4, <1>5, <1>10, <2>1 DEF Grows, MarkdownFinds
  <2>2. CASE k = Len(open) + 1
    BY <1>1, <1>3, <1>10, <2>2 DEF Wordless
  <2>3. QED
    BY <1>4, <1>10, <2>1, <2>2
<1> HIDE DEF mode
<1>16. MarkdownFinds(read', open', local', blocks')
  BY <1>12, <1>13, <1>14, <1>15, <1>18 DEF MarkdownFinds
<1>17. QED
  BY <1>16 DEF MarkdownLoss

\* An element is over: if it is one of the document, what it holds is in its block.
LEMMA MarkdownCloses ==
    ASSUME MarkdownInv, MarkdownLoss, MdEnd
    PROVE  MarkdownLoss'
<1> DEFINE element == read[Last(open)]
           top == Len(local.modes) = 2
<1>1. /\ format = "markdown" /\ Reading /\ Leave /\ UNCHANGED <<upload, format, vocabulary, read, outcome>>
      /\ blocks' = (IF top THEN blocks \o Composed(element) ELSE blocks)
      /\ local' = [local EXCEPT !.modes = Front(@)]
  BY DEF MdEnd
<1>2. /\ Len(open) \in Nat \ {0} /\ Len(open') = Len(open) - 1
      /\ \A i \in 1..(Len(open) - 1) : open'[i] = open[i]
      /\ DOMAIN open = 1..Len(open) /\ DOMAIN open' = 1..(Len(open) - 1)
      /\ Last(open) = open[Len(open)] /\ open # <<>> /\ open' \in Seq(Nat)
  BY <1>1, LeaveForm DEF MarkdownInv, Five, Leave, Form
<1>3. MarkdownFinds(read, open, local, blocks) /\ MarkdownOK(read, open, local, blocks)
  BY <1>1 DEF MarkdownLoss, MarkdownInv, Markdown
<1>4. /\ DOMAIN local = {"modes", "words", "fence"} /\ local.modes \in Seq({"blocks", "plain", "inline"})
      /\ Len(local.modes) = Len(open) + 1 /\ blocks \in Seq(BlockRec)
  BY <1>1, MarkdownFacts
<1>5. /\ local'.words = local.words /\ Len(local'.modes) = Len(local.modes) - 1
      /\ \A k \in 1..(Len(local.modes) - 1) : local'.modes[k] = local.modes[k]
  <2>1. local'.words = local.words /\ local'.modes = Front(local.modes) /\ Len(local.modes) > 0
    BY <1>1, <1>2, <1>4
  <2>2. QED
    BY <1>4, <2>1, FrontFacts
<1>6. /\ local.words \in Seq(Nat) /\ read[open[1]].tag \in Tops /\ Held(open, local) = local.words
      /\ 1 \in DOMAIN open /\ open[1] \in DOMAIN read
  BY <1>2, <1>3, FormFacts DEF MarkdownOK, Pending, Held, MarkdownInv
<1>7. CASE top
  <2>1. Len(open) = 1 /\ open' = <<>> /\ element = read[open[1]] /\ Last(open) = open[1]
    <3>1. Len(open) = 1
      <4>1. PICK n \in Nat : n = Len(open)
        BY <1>2
      <4>2. n + 1 = 2
        BY <1>4, <1>7, <4>1
      <4>3. QED
        BY <4>1, <4>2
    <3>2. Last(open) = open[1] /\ Len(open') = 0
      BY <1>2, <3>1
    <3>3. open' = <<>>
      BY <1>2, <3>2
    <3>4. QED
      BY <3>1, <3>2, <3>3
  <2>2. blocks' = blocks \o Composed(element) /\ element.tag \in Tops
    BY <1>1, <1>6, <1>7, <2>1
  <2>3. element.tag = "heading" => element.arg \in 1..6
    BY <1>1, <1>6, <2>1 DEF MarkdownInv, Form, Known, MayBe
  <2>4. HasChild(read, open[1]) => Children # {}
    BY <2>1 DEF HasChild, Children
  <2> HIDE DEF element, top
  <2>5. ASSUME NEW i PROVE Says(blocks', i) <=> Says(blocks, i) \/ In(local.words, i)
    <3>1. CASE local.words = <<>> /\ blocks' = blocks \o <<>>
      BY <1>4, <3>1, InNothing
    <3>2. ASSUME NEW kind \in Kinds, NEW level \in Int, blocks' = blocks \o <<Block(kind, level, local.words)>>
          PROVE  Says(blocks', i) <=> Says(blocks, i) \/ In(local.words, i)
      BY <1>4, <1>6, <3>2, SaysBlock
    <3>3. CASE element.tag = "heading"
      <4>1. "heading" \in Kinds /\ element.arg \in Int
        BY <2>3, <3>3 DEF Kinds
      <4>2. Composed(element) = (IF local.words = <<>> THEN <<>> ELSE <<Block("heading", element.arg, local.words)>>)
        BY <3>3 DEF Composed
      <4>3. QED
        BY <2>2, <3>1, <3>2, <4>1, <4>2
    <3>4. CASE element.tag = "para"
      <4>1. Composed(element) = (IF SoleImage THEN <<Block("image", 0, local.words)>> ELSE Paragraph(local.words))
        BY <3>4 DEF Composed
      <4>2. "image" \in Kinds /\ 0 \in Int
        BY DEF Kinds
      <4>3. CASE SoleImage
        BY <2>2, <3>2, <4>1, <4>2, <4>3
      <4>4. CASE ~SoleImage
        BY <1>4, <1>6, <2>2, <4>1, <4>4, SaysParagraph
      <4>5. QED
        BY <4>3, <4>4
    <3>5. CASE element.tag = "quote"
      <4>1. Composed(element) = <<Block("quote", 0, local.words)>> /\ "quote" \in Kinds /\ 0 \in Int
        BY <3>5 DEF Composed, Kinds
      <4>2. QED
        BY <2>2, <3>2, <4>1
    <3>6. CASE element.tag \in {"list", "table"}
      <4>1. /\ Composed(element) = (IF Children = {} THEN <<>> ELSE <<Block(element.tag, 0, local.words)>>)
            /\ element.tag \in Kinds /\ 0 \in Int
        BY <3>6 DEF Composed, Kinds
      <4>2. Children = {} => local.words = <<>>
        BY <1>3, <1>6, <2>4 DEF MarkdownFinds
      <4>3. QED
        BY <2>2, <3>1, <3>2, <4>1, <4>2
    <3>7. QED
      BY <2>2, <3>3, <3>4, <3>5, <3>6 DEF Tops
  <2>6. Held(open', local') = <<>>
    BY <2>1 DEF Held
  <2>7. ASSUME NEW i \in DOMAIN read PROVE MdFound(read, blocks', <<>>, i)
    <3>1. MdFound(read, blocks, local.words, i)
      BY <1>3, <1>6 DEF MarkdownFinds
    <3>2. QED
      BY <2>5, <3>1 DEF MdFound
  <2>8. Len(local'.modes) = 1 /\ 2..1 = {}
    BY <1>5, <1>7 DEF top
  <2>9. MarkdownFinds(read, open', local', blocks')
    BY <2>1, <2>6, <2>7, <2>8 DEF MarkdownFinds
  <2>10. QED
    BY <1>1, <2>9 DEF MarkdownLoss
<1>8. CASE ~top
  <2>1. Len(open) > 1 /\ blocks' = blocks /\ open'[1] = open[1] /\ open' # <<>>
    BY <1>1, <1>2, <1>4, <1>8
  <2>2. Held(open', local') = Held(open, local)
    BY <1>2, <1>5, <2>1 DEF Held
  <2>3. \A k \in 2..Len(local'.modes) : k \in 2..Len(local.modes) /\ local'.modes[k] = local.modes[k]
    BY <1>2, <1>4, <1>5
  <2>4. ASSUME NEW k \in DOMAIN open', read[open'[k]].tag = "item"
        PROVE  k > 1 /\ read[open'[k - 1]].tag = "list"
    <3>1. k \in DOMAIN open /\ open'[k] = open[k]
      BY <1>2
    <3>2. k > 1 /\ read[open[k - 1]].tag = "list"
      BY <1>3, <2>4, <3>1 DEF MarkdownFinds
    <3>3. k - 1 \in 1..(Len(open) - 1)
      BY <1>2, <3>2
    <3>4. QED
      BY <1>2, <3>2, <3>3
  <2>7. \A k \in DOMAIN open' : read[open'[k]].tag \in Wordless
    <3>1. \A k \in DOMAIN open' : k \in DOMAIN open /\ open'[k] = open[k]
      BY <1>2
    <3>2. QED
      BY <1>3, <3>1 DEF MarkdownFinds
  <2>5. MarkdownFinds(read, open', local', blocks')
    BY <1>3, <2>1, <2>2, <2>3, <2>4, <2>7 DEF MarkdownFinds
  <2>6. QED
    BY <1>1, <2>5 DEF MarkdownLoss
<1>9. QED
  BY <1>7, <1>8

\* Every step of Markdown finds what it reads, and at the end all of it is in the document
\* or lost.
LEMMA MarkdownLossKept == MarkdownInv /\ MarkdownLoss /\ MdNext => MarkdownLoss' /\ NothingElseIsLost'
<1> SUFFICES ASSUME MarkdownInv, MarkdownLoss, MdNext PROVE MarkdownLoss' /\ NothingElseIsLost'
  OBVIOUS
<1>1. format = "markdown" /\ Reading /\ UNCHANGED <<upload, format, vocabulary>>
  BY DEF MdNext, MdElement, MdText, MdImage, MdLeaf, MdRawHtml, MdFence, MdFrontMatter, MdEnd, MdEof
<1>2. ASSUME ~MdEof PROVE NothingElseIsLost' /\ outcome' = outcome
  BY <1>1, <1>2 DEF MdNext, MdElement, MdText, MdImage, MdLeaf, MdRawHtml, MdFence, MdFrontMatter, MdEnd,
     NothingElseIsLost, Parsed, Reading
<1>3. /\ DOMAIN local = {"modes", "words", "fence"} /\ blocks \in Seq(BlockRec)
      /\ Parent = "root" \/ Len(open) > 0
      /\ MarkdownOK(read, open, local, blocks) /\ MarkdownFinds(read, open, local, blocks)
      /\ Len(open) \in Nat /\ open \in Seq(Nat)
      /\ Len(local.modes) = Len(open) + 1 /\ MdMode = local.modes[Len(open) + 1]
      /\ (MdMode = "blocks") <=> (open = <<>>)
  BY <1>1, MarkdownFacts DEF MarkdownInv, Markdown, MarkdownLoss
<1>4. Parent # "root" => /\ open # <<>> /\ Len(open) > 0 /\ Last(open) = open[Len(open)] /\ Parent = read[Last(open)].tag
                         /\ local.words \in Seq(Nat) /\ DOMAIN open = 1..Len(open)
  BY <1>3 DEF Parent, Last, MarkdownOK, Pending
<1>5. ASSUME NEW token, Write(token), token.tag # "title", open' = open
      PROVE  /\ Here \in Nat /\ read'[Here].tag = token.tag
             /\ Inside(read', Here) = {open[j] : j \in DOMAIN open} /\ Grows(read, read')
             /\ \A k \in DOMAIN open : open[k] \in DOMAIN read /\ read'[open[k]] = read[open[k]]
  <2>1. /\ Here \in Nat /\ read'[Here] = [tag |-> token.tag, arg |-> token.arg, inside |-> open]
        /\ Inside(read', Here) = {open[j] : j \in DOMAIN open} /\ Grows(read, read')
    BY <1>1, <1>5, WriteForm DEF MarkdownInv, Five
  <2>2. \A k \in DOMAIN open : open[k] \in DOMAIN read
    BY FormFacts DEF MarkdownInv
  <2>3. QED
    BY <2>1, <2>2 DEF Grows
<1>6. CASE MdElement
  <2>1. MarkdownLoss' /\ outcome' = outcome
    BY <1>6, MarkdownOpens DEF MdElement
  <2>2. QED
    BY <1>1, <2>1 DEF Reading, NothingElseIsLost, Parsed
<1>7. CASE MdText
  <2>1. /\ Write(Token("text", "")) /\ local' = [local EXCEPT !.words = Append(@, Here)] /\ Parent # "root"
        /\ UNCHANGED <<upload, format, vocabulary, open, blocks, title, outcome>>
    BY <1>7 DEF MdText
  <2>2. Token("text", "").tag = "text"
    BY DEF Token
  <2>3. Here \in Nat
    BY <1>5, <2>1, <2>2
  <2>4. local'.modes = local.modes /\ local'.words = Append(local.words, Here)
    BY <1>3, <2>1
  <2>9. local.words \in Seq(Nat)
    BY <1>4, <2>1
  <2>5. \A i : In(local'.words, i) <=> In(local.words, i) \/ i = Here
    BY <2>3, <2>4, <2>9, InAppend
  <2>6. MarkdownLoss'
    BY <1>1, <1>4, <2>1, <2>2, <2>4, <2>5, MarkdownReads
  <2>7. outcome' # "parsed"
    BY <1>1, <2>1 DEF Reading
  <2>8. QED
    BY <2>6, <2>7 DEF NothingElseIsLost, Parsed
<1>8. CASE MdImage
  <2>1. /\ Write(Token("image", "")) /\ Parent # "root"
        /\ local' = (IF MdMode = "plain" THEN local ELSE [local EXCEPT !.words = Append(@, Here)])
        /\ UNCHANGED <<upload, format, vocabulary, open, blocks, title, outcome>>
    BY <1>8 DEF MdImage
  <2>2. Token("image", "").tag = "image"
    BY DEF Token
  <2>3. /\ Here \in Nat /\ read'[Here].tag = "image" /\ Inside(read', Here) = {open[j] : j \in DOMAIN open}
        /\ \A k \in DOMAIN open : open[k] \in DOMAIN read /\ read'[open[k]] = read[open[k]]
    BY <1>5, <2>1, <2>2
  <2>4. CASE MdMode = "plain"
    <3>1. read[open[1]].tag = "heading" /\ 1 \in DOMAIN open
      <4>1. Len(open) > 0 /\ DOMAIN open = 1..Len(open)
        BY <1>4, <2>1
      <4>2. Len(open) + 1 \in 2..Len(local.modes) /\ local.modes[Len(open) + 1] = "plain" /\ 1 \in DOMAIN open
        BY <1>3, <2>4, <4>1
      <4>3. QED
        BY <1>3, <4>2 DEF MarkdownFinds
    <3>2. read[open[1]].inside = SubSeq(open, 1, 1 - 1)
      BY <3>1 DEF MarkdownInv, Form
    <3>3. Inside(read', open[1]) = {}
      <4>1. SubSeq(open, 1, 1 - 1) = <<>>
        BY <1>3
      <4>2. QED
        BY <2>3, <3>1, <3>2, <4>1 DEF Inside
    <3>4. MarkdownLosesIn(read', Here)
      BY <2>3, <3>1, <3>3 DEF MarkdownLosesIn
    <3>5. MarkdownLoss'
      BY <1>1, <2>1, <2>2, <2>4, <3>4, MarkdownReads
    <3>6. QED
      BY <1>1, <2>1, <3>5 DEF Reading, NothingElseIsLost, Parsed
  <2>5. CASE MdMode # "plain"
    <3>1. local'.modes = local.modes /\ local'.words = Append(local.words, Here)
      BY <1>3, <2>1, <2>5
    <3>5. local.words \in Seq(Nat)
      BY <1>4, <2>1
    <3>2. \A i : In(local'.words, i) <=> In(local.words, i) \/ i = Here
      BY <2>3, <3>1, <3>5, InAppend
    <3>3. MarkdownLoss'
      BY <1>1, <1>4, <2>1, <2>2, <3>1, <3>2, MarkdownReads
    <3>4. QED
      BY <1>1, <2>1, <3>3 DEF Reading, NothingElseIsLost, Parsed
  <2>6. QED
    BY <2>4, <2>5
<1>9. CASE MdLeaf
  <2>1. PICK tag \in {"code", "html"} :
          /\ Parent \in {"root", "item", "quote"}
          /\ Write(Token(tag, ""))
          /\ blocks' = (IF tag = "code" /\ MdMode = "blocks"
                        THEN Append(blocks, Block("code", 0, <<Here>>)) ELSE blocks)
          /\ local' = [local EXCEPT !.fence = Past(@)]
          /\ UNCHANGED <<upload, format, vocabulary, open, title, outcome>>
    BY <1>9 DEF MdLeaf
  <2>2. Token(tag, "").tag = tag
    BY DEF Token
  <2>3. /\ Here \in Nat /\ read'[Here].tag = tag /\ Inside(read', Here) = {open[j] : j \in DOMAIN open}
        /\ \A k \in DOMAIN open : open[k] \in DOMAIN read /\ read'[open[k]] = read[open[k]]
    BY <1>5, <2>1, <2>2
  <2>4. local'.modes = local.modes /\ local'.words = local.words
    BY <1>3, <2>1
  <2>5. /\ \A i : Says(blocks, i) => Says(blocks', i)
        /\ tag = "code" /\ MdMode = "blocks" => Says(blocks', Here)
    <3>1. CASE tag = "code" /\ MdMode = "blocks"
      <4>1. "code" \in Kinds /\ 0 \in Int /\ <<Here>> \in Seq(Nat)
        BY <2>3 DEF Kinds
      <4>2. \A i : Says(blocks', i) <=> Says(blocks, i) \/ In(<<Here>>, i)
        BY <1>3, <2>1, <3>1, <4>1, SaysBlock
      <4>3. QED
        BY <4>2, InOne
    <3>2. CASE ~(tag = "code" /\ MdMode = "blocks")
      BY <2>1, <3>2
    <3>3. QED
      BY <3>1, <3>2
  <2>6. ASSUME tag = "code", MdMode # "blocks" PROVE MarkdownLosesIn(read', Here)
    <3>1. Parent \in {"item", "quote"} /\ Len(open) > 0 /\ Len(open) \in DOMAIN open
          /\ Parent = read[open[Len(open)]].tag
      <4>1. Parent \in {"item", "quote"}
        <5>1. open # <<>> /\ Len(open) \in DOMAIN open /\ Last(open) = open[Len(open)]
          BY <1>3, <2>6 DEF Last
        <5>2. Parent \in Wordless
          BY <1>3, <5>1 DEF Parent, MarkdownFinds
        <5>3. QED
          BY <2>1, <5>2 DEF Wordless
      <4>2. Len(open) > 0 /\ DOMAIN open = 1..Len(open) /\ Parent = read[open[Len(open)]].tag
        BY <1>4, <4>1
      <4>3. QED
        BY <1>3, <4>1, <4>2
    <3>2. CASE Parent = "quote"
      BY <2>3, <2>6, <3>1, <3>2 DEF MarkdownLosesIn
    <3>3. CASE Parent = "item"
      <4>1. Len(open) > 1 /\ read[open[Len(open) - 1]].tag = "list"
        BY <1>3, <3>1, <3>3 DEF MarkdownFinds
      <4>2. Len(open) - 1 \in DOMAIN open
        BY <1>3, <4>1
      <4>3. open[Len(open) - 1] \in Inside(read', Here) /\ read'[open[Len(open) - 1]].tag = "list"
        BY <2>3, <4>1, <4>2
      <4>4. QED
        BY <2>3, <2>6, <4>3 DEF MarkdownLosesIn
    <3>4. QED
      BY <3>1, <3>2, <3>3
  <2>7. tag = "html" => tag \in Wordless
    BY DEF Wordless
  <2>8. MarkdownLoss'
    BY <1>1, <2>1, <2>2, <2>4, <2>5, <2>6, <2>7, MarkdownReads
  <2>9. QED
    BY <1>1, <2>1, <2>8 DEF Reading, NothingElseIsLost, Parsed
<1>10. CASE MdRawHtml
  <2>1. Write(Token("tag", "")) /\ UNCHANGED <<upload, format, vocabulary, open, local, blocks, title, outcome>>
    BY <1>10 DEF MdRawHtml
  <2>2. Token("tag", "").tag = "tag" /\ "tag" \in Wordless
    BY DEF Token, Wordless
  <2>3. MarkdownLoss'
    BY <1>1, <2>1, <2>2, MarkdownReads
  <2>4. QED
    BY <1>1, <2>1, <2>3 DEF Reading, NothingElseIsLost, Parsed
<1>11. CASE MdFence
  <2>1. PICK after \in {"rule", "inside", "after", "none"} :
          /\ local' = [local EXCEPT !.fence = after]
          /\ blocks' = (IF local.fence = "inside" \/ after = "inside" THEN blocks
                        ELSE Append(blocks, Block("rule", 0, <<>>)))
    BY <1>11 DEF MdFence
  <2>2. Write(Token("hr", "")) /\ UNCHANGED <<upload, format, vocabulary, open, title, outcome>>
    BY <1>11 DEF MdFence
  <2>3. Token("hr", "").tag = "hr" /\ "hr" \in Wordless
    BY DEF Token, Wordless
  <2>4. local'.modes = local.modes /\ local'.words = local.words
    BY <1>3, <2>1
  <2>5. \A i : Says(blocks, i) => Says(blocks', i)
    <3>1. "rule" \in Kinds /\ 0 \in Int /\ <<>> \in Seq(Nat)
      BY DEF Kinds
    <3>2. QED
      BY <1>3, <2>1, <3>1, SaysBlock
  <2>6. MarkdownLoss'
    BY <1>1, <2>2, <2>3, <2>4, <2>5, MarkdownReads
  <2>7. QED
    BY <1>1, <2>2, <2>6 DEF Reading, NothingElseIsLost, Parsed
<1>12. CASE MdFrontMatter
  <2>1. Write(Token("line", "")) /\ UNCHANGED <<upload, format, vocabulary, open, local, blocks, title, outcome>>
    BY <1>12 DEF MdFrontMatter
  <2>2. Token("line", "").tag = "line"
    BY DEF Token
  <2>3. MarkdownLoss'
    BY <1>1, <2>1, <2>2, MarkdownReads
  <2>4. QED
    BY <1>1, <2>1, <2>3 DEF Reading, NothingElseIsLost, Parsed
<1>13. CASE MdEnd
  <2>1. MarkdownLoss' /\ outcome' = outcome
    BY <1>13, MarkdownCloses DEF MdEnd
  <2>2. QED
    BY <1>1, <2>1 DEF Reading, NothingElseIsLost, Parsed
<1>14. CASE MdEof
  <2>1. open = <<>> /\ outcome' = "parsed" /\ UNCHANGED <<format, read, open, local, blocks>>
    BY <1>14 DEF MdEof, EndOfSource, Finish
  <2>2. ASSUME NEW i \in DOMAIN read, i \in Texts \cup Images PROVE i \in InDocument \/ Loses(i)
    <3>1. read[i].tag \notin Wordless
      BY <2>2 DEF Texts, Images, Tag, Wordless
    <3>2. Held(open, local) = <<>>
      BY <2>1 DEF Held
    <3>3. Says(blocks, i) \/ MarkdownLosesIn(read, i)
      BY <1>3, <3>1, <3>2, InNothing DEF MarkdownFinds, MdFound
    <3>4. QED
      BY <1>1, <3>3, SaysIs, MarkdownLosesIs DEF Loses
  <2>3. Texts \cup Images \subseteq DOMAIN read
    BY DEF Texts, Images
  <2>4. \A i \in Texts \cup Images : i \in InDocument \/ Loses(i)
    BY <2>2, <2>3
  <2>5. /\ Texts' = Texts /\ Images' = Images /\ InDocument' = InDocument
        /\ \A i : Loses(i) <=> MarkdownLoses(i)
        /\ \A i : Loses(i)' <=> MarkdownLoses(i)'
        /\ \A i : MarkdownLoses(i)' <=> MarkdownLoses(i)
    BY <1>1, <2>1 DEF Texts, Images, InDocument, Tag, Loses, MarkdownLoses, Has, Around
  <2>6. NothingElseIsLost'
    BY <2>4, <2>5 DEF NothingElseIsLost
  <2>7. QED
    BY <2>1, <2>6 DEF MarkdownLoss, Reading
<1>15. QED
  BY <1>6, <1>7, <1>8, <1>9, <1>10, <1>11, <1>12, <1>13, <1>14 DEF MdNext

---------------------------------------------------------------------------
(* DOCX: nothing else is lost *)

\* An image costs nothing or the size of its file.
LEMMA CostIsNat == ASSUME NEW rel PROVE CostOf(rel) \in Nat
  BY RelsAssumption DEF CostOf, Price

\* What was dropped stays dropped.
LEMMA DocxDropsGrows ==
    ASSUME NEW r, NEW s, Grows(r, s), Rooted(r), NEW i \in DOMAIN r, DocxDrops(r, i)
    PROVE  DocxDrops(s, i)
<1>1. ASSUME NEW j \in DOMAIN r
      PROVE  Inside(s, j) = Inside(r, j) /\ s[j] = r[j] /\ j \in DOMAIN s
             /\ \A e \in Inside(r, j) : e \in DOMAIN r /\ s[e] = r[e]
  BY DEF Grows, Inside, Rooted
<1>2. CASE ClosesIn(r, i)
  <2>1. PICK p \in DOMAIN r : /\ r[p].tag \in {"p", "tbl"} /\ p < i /\ p \notin Inside(r, i)
                              /\ Last(r[i].inside) \in Inside(r, p)
    BY <1>2 DEF ClosesIn
  <2>2. ClosesIn(s, i)
    BY <1>1, <2>1 DEF ClosesIn
  <2>3. QED
    BY <2>2 DEF DocxDrops
<1>3. CASE r[i].tag = "image" /\ (Hidden(r[i].arg) \/ \E e \in Inside(r, i) : r[e].tag = "tbl")
  BY <1>1, <1>3 DEF DocxDrops
<1>4. QED
  BY <1>2, <1>3 DEF DocxDrops

\* A token is read, and perhaps gathered.
LEMMA DocxReads ==
    ASSUME DocxInv, DocxLoss, format = "docx", Reading, NEW token, Write(token), token.tag \in DocxTokens,
           open' = open \/ Enter, UNCHANGED <<format, vocabulary, blocks, title, outcome>>,
           \A i : In(local.words, i) => In(local'.words, i),
           \/ local'.pics = local.pics /\ local'.budget = local.budget
           \/ /\ local'.pics = Append(local.pics, Here) /\ token.tag = "image"
              /\ local'.budget = local.budget - CostOf(token.arg),
           \/ token.tag \in DocxWordless \/ In(local'.words, Here) \/ In(local'.pics, Here)
           \/ DocxDrops(read', Here)
           \/ token.tag = "image" /\ CostOf(token.arg) > local.budget
    PROVE  DocxFinds(read', local', blocks')
<1> DEFINE n == Len(read)
           spent == IF local'.pics = local.pics THEN 0 ELSE CostOf(token.arg)
<1>1. /\ Grows(read, read') /\ Here \in Nat /\ Here = n + 1 /\ Len(read') = Here
      /\ read'[Here].tag = token.tag /\ read'[Here].arg = token.arg
  <2>1. format \in Five /\ token.tag # "title"
    BY DEF Five, DocxTokens
  <2>2. /\ Grows(read, read') /\ Here \in Nat /\ Here = n + 1 /\ Len(read') = Here
        /\ read'[Here] = [tag |-> token.tag, arg |-> token.arg, inside |-> open]
    BY <2>1, WriteForm DEF DocxInv
  <2>3. QED
    BY <2>2
<1>2. /\ DOMAIN read = 1..n /\ n \in Nat /\ Rooted(read) /\ DOMAIN read' = 1..(n + 1)
  BY <1>1, FormFacts DEF DocxInv, Form, Grows
<1>3. PICK g : /\ Pays(read, blocks, local.pics, g) /\ local.budget = ImageBudget - g[n]
               /\ \A i \in DOMAIN read : DocxFound(read, blocks, local, g, i)
  BY DEF DocxLoss, DocxFinds
<1>4. /\ g \in [0..n -> Nat] /\ g[0] = 0
      /\ \A k \in 1..n : g[k] = g[k - 1] + PaidFor(read, blocks, local.pics, k)
  BY <1>3 DEF Pays
<1>5. local.pics \in Seq(Nat) /\ Upto(n, local.pics) /\ Doc("docx", n, blocks) /\ ImageBudget \in Nat
  BY DocxFacts, DocxAssumption DEF DocxOK, Pending
<1>6. ~In(local.pics, Here) /\ ~Says(blocks, Here)
  <2>1. ~(n + 1 \in 1..n)
    BY <1>2
  <2>2. ~In(local.pics, Here)
    BY <1>1, <1>5, <2>1 DEF In, Upto
  <2>3. \A k \in DOMAIN blocks : Upto(n, blocks[k].words)
    BY <1>5 DEF Doc, Fits
  <2>4. QED
    BY <1>1, <2>1, <2>2, <2>3 DEF In, Says, Upto
<1>7. \A i : In(local'.pics, i) <=> In(local.pics, i) \/ (local'.pics # local.pics /\ i = Here)
  <2>1. CASE local'.pics = local.pics
    BY <2>1
  <2>2. CASE local'.pics = Append(local.pics, Here)
    <3>1. \A i : In(local'.pics, i) <=> In(local.pics, i) \/ i = Here
      BY <1>1, <1>5, <2>2, InAppend
    <3>2. local'.pics # local.pics
      BY <1>6, <3>1
    <3>3. QED
      BY <3>1, <3>2
  <2>3. QED
    BY <2>1, <2>2
<1>8. spent \in Nat /\ local'.budget = local.budget - spent /\ PaidFor(read', blocks, local'.pics, Here) = spent
  <2>1. CASE local'.pics = local.pics
    <3>1. PaidFor(read', blocks, local'.pics, Here) = 0
      BY <1>6, <2>1 DEF PaidFor
    <3>2. \/ local'.budget = local.budget
          \/ local'.pics = Append(local.pics, Here)
      OBVIOUS
    <3>3. local'.pics # Append(local.pics, Here)
      <4>1. In(Append(local.pics, Here), Here)
        BY <1>1, <1>5, InAppend
      <4>2. QED
        BY <1>6, <2>1, <4>1
    <3>4. local.budget - 0 = local.budget
      BY <1>2, <1>3, <1>4, <1>5
    <3>5. QED
      BY <2>1, <3>1, <3>2, <3>3, <3>4
  <2>2. CASE local'.pics # local.pics
    <3>1. token.tag = "image" /\ local'.budget = local.budget - CostOf(token.arg) /\ In(local'.pics, Here)
      BY <1>7, <2>2
    <3>2. PaidFor(read', blocks, local'.pics, Here) = CostOf(token.arg)
      BY <1>1, <3>1 DEF PaidFor
    <3>3. QED
      BY <2>2, <3>1, <3>2, CostIsNat
  <2>3. QED
    BY <2>1, <2>2
<1> HIDE DEF n, spent
<1> DEFINE h == [k \in 0..(n + 1) |-> IF k = n + 1 THEN g[n] + spent ELSE g[k]]
<1>9. /\ \A k \in 0..n : h[k] = g[k]
      /\ h[n + 1] = g[n] + spent
      /\ h \in [0..(n + 1) -> Nat]
  BY <1>2, <1>4, <1>8
<1> HIDE DEF h
<1>10. ASSUME NEW k \in 1..(n + 1) PROVE h[k] = h[k - 1] + PaidFor(read', blocks, local'.pics, k)
  <2>1. CASE k = n + 1
    <3>1. k - 1 = n /\ n \in 0..n
      BY <1>2, <2>1
    <3>2. h[k - 1] = g[n]
      BY <1>9, <3>1
    <3>3. QED
      BY <1>1, <1>8, <1>9, <2>1, <3>2
  <2>2. CASE k \in 1..n
    <3>1. k \in 0..n /\ k - 1 \in 0..n /\ k # Here /\ k \in DOMAIN read
      BY <1>1, <1>2, <2>2
    <3>2. PaidFor(read', blocks, local'.pics, k) = PaidFor(read, blocks, local.pics, k)
      BY <1>1, <1>7, <3>1 DEF PaidFor, Grows
    <3>3. QED
      BY <1>4, <1>9, <2>2, <3>1, <3>2
  <2>3. QED
    BY <1>2, <2>1, <2>2
<1>11. Pays(read', blocks, local'.pics, h)
  <2>1. h[0] = 0
    BY <1>2, <1>4, <1>9
  <2>2. QED
    BY <1>1, <1>9, <1>10, <2>1 DEF Pays
<1>12. local'.budget = ImageBudget - h[Len(read')]
  <2>1. g[n] \in Nat
    BY <1>2, <1>4
  <2>2. PICK x \in Nat, y \in Nat, z \in Nat : x = ImageBudget /\ y = g[n] /\ z = spent
    BY <1>5, <1>8, <2>1
  <2>3. local'.budget = (x - y) - z /\ h[Len(read')] = y + z
    BY <1>1, <1>3, <1>8, <1>9, <2>2 DEF n
  <2>4. (x - y) - z = x - (y + z)
    BY <2>2
  <2>5. QED
    BY <2>2, <2>3, <2>4
<1>13. ASSUME NEW i \in DOMAIN read' PROVE DocxFound(read', blocks, local', h, i)
  <2>1. CASE i \in DOMAIN read
    <3>1. DocxFound(read, blocks, local, g, i)
      BY <1>3, <2>1
    <3>2. read'[i] = read[i] /\ i - 1 \in 0..n
      BY <1>1, <1>2, <2>1 DEF Grows
    <3>3. TooDear(read, g, i) => TooDear(read', h, i)
      BY <1>9, <3>2 DEF TooDear
    <3>4. DocxDrops(read, i) => DocxDrops(read', i)
      BY <1>1, <1>2, <2>1, DocxDropsGrows
    <3>5. QED
      BY <1>7, <3>1, <3>2, <3>3, <3>4 DEF DocxFound
  <2>2. CASE i = Here
    <3>1. CostOf(token.arg) > local.budget => CostOf(token.arg) + h[Here - 1] > ImageBudget
      <4>1. Here - 1 = n /\ h[Here - 1] = g[n] /\ g[n] \in Nat
        BY <1>1, <1>2, <1>4, <1>9
      <4>2. PICK x \in Nat, y \in Nat, z \in Nat : x = ImageBudget /\ y = g[n] /\ z = CostOf(token.arg)
        BY <1>5, <4>1, CostIsNat
      <4>3. z > x - y => z + y > x
        BY <4>2
      <4>4. QED
        BY <1>3, <4>1, <4>2, <4>3
    <3>2. token.tag = "image" /\ CostOf(token.arg) > local.budget => TooDear(read', h, i)
      BY <1>1, <2>2, <3>1 DEF TooDear
    <3>3. QED
      BY <1>1, <2>2, <3>2 DEF DocxFound
  <2>3. i \in DOMAIN read \/ i = Here
    BY <1>1, <1>2
  <2>4. QED
    BY <2>1, <2>2, <2>3
<1>14. QED
  BY <1>11, <1>12, <1>13 DEF DocxFinds

\* Reading goes on in the paragraph that is open.
LEMMA DocxStays ==
    ASSUME NEW r, NEW s, Grows(r, s), Rooted(r), NEW o, NEW l, DocxPlaced(r, o, l),
           \A k \in DOMAIN o : o[k] \in DOMAIN r,
           o # <<>>, Len(o) \in DOMAIN o, r[o[Len(o)]].tag # "tbl",
           NEW m, m.mode = l.mode, m.rows = l.rows, m.mode # "p" => m.pics = l.pics
    PROVE  DocxPlaced(s, o, m)
<1>1. ASSUME NEW j \in DOMAIN r
      PROVE  Inside(s, j) = Inside(r, j) /\ s[j] = r[j] /\ j \in DOMAIN s
  BY DEF Grows, Inside
<1>2. \A e : HasParagraph(r, o, e) => HasParagraph(s, o, e)
  BY <1>1 DEF HasParagraph
<1>3. QED
  BY <1>1, <1>2 DEF DocxPlaced

\* Token Len(s) is read and its element opened.
Opens(r, s, o, u) ==
    /\ Grows(r, s) /\ Len(s) = Len(r) + 1 /\ Len(o) \in Nat
    /\ DOMAIN o = 1..Len(o) /\ Len(u) = Len(o) + 1 /\ DOMAIN u = 1..(Len(o) + 1)
    /\ \A k \in 1..Len(o) : u[k] = o[k]
    /\ u[Len(o) + 1] = Len(s)

\* An element is opened.
LEMMA DocxOpens ==
    ASSUME NEW r, NEW s, NEW o, NEW u, Opens(r, s, o, u), NEW l, DocxPlaced(r, o, l),
           \A k \in DOMAIN o : o[k] \in DOMAIN r,
           NEW m, m.rows = l.rows, m.pics = l.pics,
           s[Len(s)].tag \in {"p", "tbl", "cell"},
           s[Len(s)].tag = "cell" \/ Len(o) = 0 \/ r[o[Len(o)]].tag # "tbl",
           \/ m.mode = s[Len(s)].tag /\ l.mode = "body"
           \/ m.mode = l.mode /\ (l.mode # "body" \/ s[Len(s)].tag = "cell"),
           l.mode = "body" => l.pics = <<>>
    PROVE  DocxPlaced(s, u, m)
<1>9. PICK n \in Nat : n = Len(o)
  BY DEF Opens
<1>12. PICK here : here = Len(s)
  OBVIOUS
<1>0. here = Len(s) /\ n = Len(o)
  BY <1>9, <1>12
<1>10. /\ Grows(r, s) /\ here = Len(r) + 1 /\ Len(s) = here /\ Len(o) = n
       /\ DOMAIN o = 1..n /\ Len(u) = n + 1 /\ DOMAIN u = 1..(n + 1)
       /\ \A k \in 1..n : u[k] = o[k]
       /\ u[n + 1] = here
  BY <1>0 DEF Opens
<1>11. /\ s[here].tag \in {"p", "tbl", "cell"}
       /\ s[here].tag = "cell" \/ n = 0 \/ r[o[n]].tag # "tbl"
       /\ \/ m.mode = s[here].tag /\ l.mode = "body"
          \/ m.mode = l.mode /\ (l.mode # "body" \/ s[here].tag = "cell")
  BY <1>0
<1>1. ASSUME NEW j \in DOMAIN r
      PROVE  Inside(s, j) = Inside(r, j) /\ s[j] = r[j] /\ j \in DOMAIN s /\ j # here
  BY <1>10 DEF Grows, Inside
<1>2. ASSUME NEW k \in 1..(n + 1) PROVE (k \in 1..n /\ u[k] = o[k] /\ s[u[k]] = r[o[k]]) \/ (k = n + 1 /\ u[k] = here)
  <2>1. k \in 1..n \/ k = n + 1
    OBVIOUS
  <2>2. QED
    BY <1>1, <1>10, <2>1
<1>3. ASSUME NEW e, HasParagraph(r, o, e) PROVE HasParagraph(s, u, e)
  <2>1. PICK q \in DOMAIN r : /\ r[q].tag \in {"p", "tbl"} /\ e \in Inside(r, q)
                              /\ \A j \in DOMAIN o : o[j] # q
    BY <1>3 DEF HasParagraph
  <2>2. ASSUME NEW j \in DOMAIN u PROVE u[j] # q
    <3>1. (j \in DOMAIN o /\ u[j] = o[j]) \/ u[j] = here
      BY <1>2, <1>10
    <3>2. q # here
      BY <1>1, <2>1
    <3>3. QED
      BY <2>1, <3>1, <3>2
  <2>3. QED
    BY <1>1, <2>1, <2>2 DEF HasParagraph
<1>4. m.rows \in Nat /\ (m.mode # "p" => m.pics = <<>>)
  BY <1>11 DEF DocxPlaced
<1>5. ASSUME m.mode # "body" PROVE \E k \in DOMAIN u : s[u[k]].tag = m.mode
  <2>1. CASE m.mode = s[here].tag /\ l.mode = "body"
    <3>1. n + 1 \in DOMAIN u
      BY <1>10
    <3>2. QED
      BY <1>10, <2>1, <3>1
  <2>2. CASE m.mode = l.mode
    <3>1. PICK k \in DOMAIN o : r[o[k]].tag = l.mode
      BY <1>5, <2>2 DEF DocxPlaced
    <3>2. k \in 1..n /\ k \in DOMAIN u
      BY <1>10, <3>1
    <3>3. s[u[k]] = r[o[k]]
      BY <1>1, <1>10, <3>2
    <3>4. QED
      BY <2>2, <3>1, <3>2, <3>3
  <2>3. QED
    BY <1>11, <2>1, <2>2
<1>6. ASSUME m.mode = "body", NEW k \in DOMAIN u, s[u[k]].tag = "p" PROVE HasParagraph(s, u, u[k])
  <2>1. l.mode = "body" /\ s[here].tag = "cell"
    BY <1>6, <1>11
  <2>2. k \in 1..n /\ u[k] = o[k] /\ s[u[k]] = r[o[k]]
    BY <1>2, <1>6, <1>10, <2>1
  <2>3. HasParagraph(r, o, o[k])
    BY <1>6, <1>10, <2>1, <2>2 DEF DocxPlaced
  <2>4. QED
    BY <1>3, <2>2, <2>3
<1>7. ASSUME NEW k \in DOMAIN u, k > 1, s[u[k]].tag # "cell" PROVE s[u[k - 1]].tag # "tbl"
  <2>1. k - 1 \in 1..n /\ u[k - 1] = o[k - 1] /\ s[u[k - 1]] = r[o[k - 1]]
    <3>1. k - 1 \in 1..n
      BY <1>7, <1>10
    <3>2. QED
      BY <1>1, <1>10, <3>1
  <2>2. CASE k \in 1..n
    BY <1>2, <1>7, <1>10, <2>1, <2>2 DEF DocxPlaced
  <2>3. CASE k = n + 1
    <3>1. k - 1 = n /\ n > 0 /\ s[here].tag # "cell"
      BY <1>7, <1>10, <2>3
    <3>2. QED
      BY <1>10, <1>11, <2>1, <3>1
  <2>4. QED
    BY <1>10, <2>2, <2>3
<1>8. s[u[Len(u)]].tag = "tbl" => s[Len(s)].tag = "tbl"
  BY <1>10
<1>13. QED
  BY <1>4, <1>5, <1>6, <1>7, <1>8 DEF DocxPlaced

\* Open elements are around those opened later.
LEMMA OpenApart ==
    ASSUME Form, NEW j \in DOMAIN open, NEW k \in DOMAIN open, j < k
    PROVE  open[j] # open[k] /\ open[j] \in Inside(read, open[k])
<1>1. /\ open \in Seq(Nat) /\ Len(open) \in Nat /\ DOMAIN open = 1..Len(open)
      /\ read[open[j]].inside = SubSeq(open, 1, j - 1)
      /\ read[open[k]].inside = SubSeq(open, 1, k - 1)
      /\ \A i \in DOMAIN open : open[i] \in Nat
  BY FormFacts DEF Form
<1>2. /\ j - 1 \in Nat /\ k - 1 \in Nat /\ j - 1 <= Len(open) /\ k - 1 <= Len(open)
      /\ j \in 1..(k - 1) /\ j - 1 # k - 1
      /\ (\A i \in 1..(j - 1) : i \in DOMAIN open) /\ (\A i \in 1..(k - 1) : i \in DOMAIN open)
  BY <1>1
<1>3. Len(SubSeq(open, 1, j - 1)) = j - 1
  BY <1>1, <1>2, SubSeqProperties
<1>4. /\ Len(SubSeq(open, 1, k - 1)) = k - 1 /\ SubSeq(open, 1, k - 1) \in Seq(Nat)
      /\ \A i \in 1..(k - 1) : SubSeq(open, 1, k - 1)[i] = open[i]
  BY <1>1, <1>2, SubSeqProperties
<1>5. PICK s \in Seq(Nat) : s = SubSeq(open, 1, k - 1) /\ Len(s) = k - 1 /\ s[j] = open[j]
  BY <1>2, <1>4
<1>6. j \in DOMAIN s
  BY <1>2, <1>5
<1>7. QED
  BY <1>1, <1>2, <1>3, <1>5, <1>6 DEF Inside

\* What the blocks say together.
LEMMA SaysConcat ==
    ASSUME NEW bs \in Seq(BlockRec), NEW cs \in Seq(BlockRec), NEW i
    PROVE  Says(bs \o cs, i) <=> Says(bs, i) \/ Says(cs, i)
<1>1. PICK u : u = bs \o cs
  OBVIOUS
<1>7. /\ Len(bs) \in Nat /\ Len(cs) \in Nat
      /\ DOMAIN bs = 1..Len(bs) /\ DOMAIN cs = 1..Len(cs) /\ DOMAIN u = 1..(Len(bs) + Len(cs))
      /\ \A k \in DOMAIN bs : u[k] = bs[k]
      /\ \A k \in DOMAIN cs : u[Len(bs) + k] = cs[k]
      /\ \A k \in DOMAIN u : k \in DOMAIN bs \/ k - Len(bs) \in DOMAIN cs
      /\ \A k \in DOMAIN u : k - Len(bs) \in DOMAIN cs => u[k] = cs[k - Len(bs)]
  BY ONLY <1>1, bs \in Seq(BlockRec), cs \in Seq(BlockRec), ConcatFacts, SMTT(30)
<1>2. /\ \A k \in DOMAIN bs : k \in DOMAIN u /\ u[k] = bs[k]
      /\ \A k \in DOMAIN cs : Len(bs) + k \in DOMAIN u /\ u[Len(bs) + k] = cs[k]
      /\ \A k \in DOMAIN u : \/ k \in DOMAIN bs /\ u[k] = bs[k]
                             \/ k - Len(bs) \in DOMAIN cs /\ u[k] = cs[k - Len(bs)]
  <2>1. PICK m \in Nat, n \in Nat : m = Len(bs) /\ n = Len(cs)
    BY <1>7
  <2>2. /\ \A k \in 1..m : k \in 1..(m + n)
        /\ \A k \in 1..n : m + k \in 1..(m + n)
    OBVIOUS
  <2>3. \A k \in DOMAIN bs : k \in DOMAIN u /\ u[k] = bs[k]
    BY <1>7, <2>1, <2>2
  <2>4. \A k \in DOMAIN cs : Len(bs) + k \in DOMAIN u /\ u[Len(bs) + k] = cs[k]
    BY <1>7, <2>1, <2>2
  <2>5. \A k \in DOMAIN u : \/ k \in DOMAIN bs /\ u[k] = bs[k]
                            \/ k - Len(bs) \in DOMAIN cs /\ u[k] = cs[k - Len(bs)]
    BY <1>7, Zenon
  <2>6. QED
    BY <2>3, <2>4, <2>5, Zenon
<1>3. ASSUME Says(u, i) PROVE Says(bs, i) \/ Says(cs, i)
  <2>1. PICK k \in DOMAIN u : In(u[k].words, i)
    BY <1>3 DEF Says
  <2>2. CASE k \in DOMAIN bs /\ u[k] = bs[k]
    BY <2>1, <2>2 DEF Says
  <2>3. CASE k - Len(bs) \in DOMAIN cs /\ u[k] = cs[k - Len(bs)]
    BY <2>1, <2>3 DEF Says
  <2>4. QED
    BY <1>2, <2>2, <2>3
<1>4. ASSUME Says(bs, i) PROVE Says(u, i)
  BY <1>2, <1>4 DEF Says
<1>5. ASSUME Says(cs, i) PROVE Says(u, i)
  <2>1. PICK k \in DOMAIN cs : In(cs[k].words, i)
    BY <1>5 DEF Says
  <2>2. PICK l : l = Len(bs) + k
    OBVIOUS
  <2>3. l \in DOMAIN u /\ u[l] = cs[k]
    BY <1>2, <2>2
  <2>4. QED
    BY <2>1, <2>3 DEF Says
<1>6. QED
  BY <1>1, <1>3, <1>4, <1>5

\* The images of a paragraph are written as blocks of their own.
LEMMA SaysShown ==
    ASSUME NEW bs \in Seq(BlockRec), NEW pics \in Seq(Nat), NEW i
    PROVE  /\ Says(bs \o Shown(pics), i) <=> Says(bs, i) \/ In(pics, i)
           /\ bs \o Shown(pics) \in Seq(BlockRec)
<1>1. /\ Len(pics) \in Nat /\ DOMAIN pics = 1..Len(pics)
      /\ \A k \in DOMAIN pics : pics[k] \in Nat /\ <<pics[k]>> \in Seq(Nat)
  OBVIOUS
<1>2. \A k \in DOMAIN pics : Block("image", 0, <<pics[k]>>) \in BlockRec
  BY <1>1 DEF Block, BlockRec, Kinds
<1>3. PICK cs \in Seq(BlockRec) : cs = Shown(pics)
  <2>1. PICK n \in Nat : n = Len(pics) /\ DOMAIN pics = 1..n
    BY <1>1
  <2>2. Shown(pics) \in [1..n -> BlockRec]
    BY <1>2, <2>1 DEF Shown
  <2>3. QED
    BY <2>1, <2>2
<1>4. DOMAIN cs = DOMAIN pics /\ \A k \in DOMAIN pics : cs[k].words = <<pics[k]>>
  BY <1>3 DEF Shown, Block
<1>5. Says(cs, i) <=> In(pics, i)
  <2>1. ASSUME NEW k \in DOMAIN pics PROVE In(cs[k].words, i) <=> pics[k] = i
    <3>1. In(<<pics[k]>>, i) <=> pics[k] = i
      BY InOne
    <3>2. QED
      BY <1>4, <3>1
  <2>2. QED
    BY <1>4, <2>1 DEF Says, In
<1>6. Says(bs \o cs, i) <=> Says(bs, i) \/ Says(cs, i)
  BY SaysConcat
<1>7. bs \o cs \in Seq(BlockRec)
  BY <1>3
<1>8. QED
  BY <1>3, <1>5, <1>6, <1>7

\* One block goes on with more words.
LEMMA SaysMerge ==
    ASSUME NEW bs \in Seq(BlockRec), bs # <<>>, NEW w \in Seq(Nat), NEW i,
           NEW cs, cs = [bs EXCEPT ![Len(bs)].words = @ \o w]
    PROVE  Says(cs, i) <=> Says(bs, i) \/ In(w, i)
<1>1. /\ Len(bs) \in Nat /\ DOMAIN bs = 1..Len(bs) /\ Len(bs) \in DOMAIN bs
      /\ bs[Len(bs)] \in BlockRec
  OBVIOUS
<1>2. /\ DOMAIN cs = DOMAIN bs
      /\ \A k \in DOMAIN bs : k # Len(bs) => cs[k] = bs[k]
      /\ cs[Len(bs)] = [bs[Len(bs)] EXCEPT !.words = @ \o w]
  BY <1>1
<1>3. PICK b \in BlockRec : b = bs[Len(bs)]
  BY <1>1
<1>4. b.words \in Seq(Nat) /\ [b EXCEPT !.words = @ \o w].words = b.words \o w
  BY DEF BlockRec
<1>5. cs[Len(bs)].words = bs[Len(bs)].words \o w
  BY <1>2, <1>3, <1>4
<1>6. In(b.words \o w, i) <=> In(b.words, i) \/ In(w, i)
  BY <1>4, InConcat
<1>7. In(cs[Len(bs)].words, i) <=> In(bs[Len(bs)].words, i) \/ In(w, i)
  BY <1>3, <1>5, <1>6
<1>8. QED
  BY <1>1, <1>2, <1>7 DEF Says

\* emitParagraph loses nothing of what was gathered.
LEMMA EmitSays ==
    ASSUME DocxInv, format = "docx", Reading, Emit(Shown(local.pics)), NEW i
    PROVE  Says(blocks', i) <=> Says(blocks, i) \/ In(local.words, i) \/ In(local.pics, i)
<1>1. /\ DocxOK(read, open, local, blocks) /\ blocks \in Seq(BlockRec)
      /\ local.words \in Seq(Nat) /\ local.pics \in Seq(Nat)
      /\ local.style \in Bases /\ local.outline \in Int
  BY DocxFacts DEF DocxOK, Pending
<1>2. PICK level \in 0..6 : MarkdownLevel(ParagraphLevel) = level
  BY <1>1, LevelRange
<1>3. PICK shown \in Seq(BlockRec) :
         shown = blocks \o Shown(local.pics) /\ (Says(shown, i) <=> Says(blocks, i) \/ In(local.pics, i))
  BY <1>1, SaysShown
<1>4. blocks' =
             IF local.words = <<>> THEN shown
             ELSE IF level > 0 THEN Append(shown, Block("heading", level, local.words))
             ELSE IF ~local.numbered THEN Append(shown, Block("paragraph", 0, local.words))
             ELSE IF shown # <<>> /\ Last(shown).kind = "list"
                  THEN [shown EXCEPT ![Len(shown)].words = @ \o local.words]
             ELSE Append(shown, Block("list", 0, local.words))
  BY <1>2, <1>3 DEF Emit
<1>5. ASSUME NEW kind \in {"heading", "paragraph", "list"}, NEW v \in Int, blocks' = Append(shown, Block(kind, v, local.words))
      PROVE  Says(blocks', i) <=> Says(shown, i) \/ In(local.words, i)
  <2>1. kind \in Kinds
    BY DEF Kinds
  <2>2. QED
    BY <1>1, <1>5, <2>1, SaysBlock
<1>6. CASE local.words = <<>>
  <2>1. blocks' = shown /\ ~In(local.words, i)
    BY <1>4, <1>6, InNothing
  <2>2. QED
    BY <1>3, <2>1
<1>7. CASE local.words # <<>> /\ shown # <<>> /\ blocks' = [shown EXCEPT ![Len(shown)].words = @ \o local.words]
  <2>1. Says(blocks', i) <=> Says(shown, i) \/ In(local.words, i)
    BY <1>1, <1>7, SaysMerge
  <2>2. QED
    BY <1>3, <2>1
<1>8. CASE local.words # <<>> /\ \E kind \in {"heading", "paragraph", "list"}, v \in Int :
                                    blocks' = Append(shown, Block(kind, v, local.words))
  BY <1>3, <1>5, <1>8
<1>9. 0 \in Int /\ level \in Int
  OBVIOUS
<1>10. QED
  BY <1>4, <1>6, <1>7, <1>8, <1>9

\* The element that is read, for the provers.
LEMMA LastOpen ==
    ASSUME Form, open # <<>>
    PROVE  /\ Len(open) \in DOMAIN open /\ Last(open) = open[Len(open)]
           /\ Parent = read[open[Len(open)]].tag /\ open[Len(open)] \in DOMAIN read
<1>1. open \in Seq(Nat) /\ Len(open) \in Nat \ {0} /\ DOMAIN open = 1..Len(open)
  BY DEF Form
<1>2. Len(open) \in DOMAIN open
  BY <1>1
<1>3. Last(open) = open[Len(open)]
  BY DEF Last
<1>4. QED
  BY <1>2, <1>3 DEF Parent, Form

\* Behind a paragraph that is over, the text of the one around it is not looked for.
LEMMA TextBoxCloses ==
    ASSUME DocxInv, DocxLoss, format = "docx", Reading, NEW token, Write(token), token.tag \in DocxTokens,
           UNCHANGED <<format, vocabulary, blocks, title, outcome, open>>,
           Parent = "p", local.mode = "body"
    PROVE  DocxDrops(read', Here)
<1>1. /\ Form' /\ Grows(read, read') /\ Here \in Nat /\ Here = Len(read) + 1 /\ Len(read') = Here
      /\ read'[Here] = [tag |-> token.tag, arg |-> token.arg, inside |-> open]
      /\ Inside(read', Here) = {open[j] : j \in DOMAIN open}
  <2>1. format \in Five /\ token.tag # "title"
    BY DEF Five, DocxTokens
  <2>2. QED
    BY <2>1, WriteForm DEF DocxInv
<1>2. open # <<>>
  BY DEF Parent
<1>3. Len(open) \in DOMAIN open /\ Last(open) = open[Len(open)] /\ read[open[Len(open)]].tag = "p"
  BY <1>2, LastOpen DEF DocxInv
<1>4. PICK q \in DOMAIN read : /\ read[q].tag \in {"p", "tbl"} /\ open[Len(open)] \in Inside(read, q)
                               /\ \A j \in DOMAIN open : open[j] # q
  BY <1>3 DEF DocxLoss, DocxPlaced, HasParagraph
<1>5. /\ q \in DOMAIN read' /\ read'[q] = read[q] /\ q < Here /\ Inside(read', q) = Inside(read, q)
  <2>1. DOMAIN read = 1..Len(read) /\ Len(read) \in Nat
    BY FormFacts DEF DocxInv
  <2>2. q \in DOMAIN read' /\ read'[q] = read[q] /\ q < Here
    BY <1>1, <2>1 DEF Grows
  <2>3. QED
    BY <2>2 DEF Inside
<1>6. q \notin Inside(read', Here)
  BY <1>1, <1>4
<1>7. read'[Here].inside = open
  BY <1>1
<1>8. ClosesIn(read', Here)
  BY <1>3, <1>4, <1>5, <1>6, <1>7 DEF ClosesIn
<1>9. QED
  BY <1>8 DEF DocxDrops

\* A token in a paragraph.
LEMMA DocxTokenStays ==
    ASSUME DocxInv, DocxLoss, format = "docx", Reading, NEW token, Write(token), token.tag \in DocxTokens,
           UNCHANGED <<format, vocabulary, blocks, title, outcome, open>>,
           Parent = "p", DocxFinds(read', local', blocks'), local'.mode = local.mode, local'.rows = local.rows,
           local'.mode # "p" => local'.pics = local.pics
    PROVE  DocxLoss'
<1>1. Grows(read, read') /\ Rooted(read) /\ \A k \in DOMAIN open : open[k] \in DOMAIN read
  BY DocxToken, FormFacts DEF DocxInv, Form
<1>2. open # <<>>
  BY DEF Parent
<1>3. Len(open) \in DOMAIN open /\ read[open[Len(open)]].tag = "p"
  BY <1>2, LastOpen DEF DocxInv
<1>4. DocxPlaced(read, open, local)
  BY DEF DocxLoss
<1>5. PICK m : m = local'
  OBVIOUS
<1>6. m.mode = local.mode /\ m.rows = local.rows /\ (m.mode # "p" => m.pics = local.pics)
  BY <1>5
<1>7. DocxPlaced(read', open, m)
  BY <1>1, <1>2, <1>3, <1>4, <1>6, DocxStays
<1>8. DocxPlaced(read', open', local')
  BY <1>5, <1>7
<1>9. QED
  BY <1>8 DEF DocxLoss

\* A text goes to the paragraph or the table, or it follows a text box.
LEMMA DocxTextFound == DocxInv /\ DocxLoss /\ DocxText => DocxLoss'
<1> SUFFICES ASSUME DocxInv, DocxLoss, DocxText PROVE DocxLoss'
  OBVIOUS
<1>1. /\ format = "docx" /\ Reading /\ Write(Token("text", "")) /\ Parent = "p"
      /\ local' = IF local.mode = "body" THEN local ELSE [local EXCEPT !.words = Append(@, Here)]
      /\ UNCHANGED <<upload, format, vocabulary, open, blocks, title, outcome>>
  BY DEF DocxText
<1>2. PICK token : token = Token("text", "") /\ token.tag = "text" /\ token.tag \in DocxTokens
  <2>1. Token("text", "").tag = "text" /\ "text" \in DocxTokens
    BY DEF Token, DocxTokens
  <2>2. QED
    BY <2>1
<1>3. DOMAIN local = {"mode", "words", "pics", "style", "outline", "numbered", "rows", "budget"}
      /\ local.words \in Seq(Nat) /\ Here \in Nat
  BY <1>1, <1>2, DocxFacts, DocxToken DEF DocxOK, Pending
<1>4. /\ local'.mode = local.mode /\ local'.rows = local.rows /\ local'.pics = local.pics
      /\ local'.budget = local.budget
      /\ local.mode # "body" => local'.words = Append(local.words, Here)
      /\ local.mode = "body" => local'.words = local.words
  BY <1>1, <1>3
<1>5. /\ \A i : In(local.words, i) => In(local'.words, i)
      /\ local.mode # "body" => In(local'.words, Here)
  <2>1. CASE local.mode = "body"
    BY <1>4, <2>1
  <2>2. CASE local.mode # "body"
    <3>1. \A i : In(Append(local.words, Here), i) <=> In(local.words, i) \/ i = Here
      BY <1>3, InAppend
    <3>2. QED
      BY <1>4, <2>2, <3>1
  <2>3. QED
    BY <2>1, <2>2
<1>6. local.mode = "body" => DocxDrops(read', Here)
  BY <1>1, <1>2, TextBoxCloses
<1>7. DocxFinds(read', local', blocks')
  BY <1>1, <1>2, <1>4, <1>5, <1>6, DocxReads
<1>8. QED
  BY <1>1, <1>2, <1>4, <1>7, DocxTokenStays

\* A property has no words.
LEMMA DocxPropertyFound == DocxInv /\ DocxLoss /\ DocxProperty => DocxLoss'
<1> SUFFICES ASSUME DocxInv, DocxLoss, DocxProperty PROVE DocxLoss'
  OBVIOUS
<1>1. /\ format = "docx" /\ Reading /\ Parent = "p"
      /\ UNCHANGED <<upload, format, vocabulary, open, blocks, title, outcome>>
  BY DEF DocxProperty
<1>2. PICK token \in vocabulary.tokens :
         /\ token.tag \in {"style", "outline", "numPr"}
         /\ Write(token)
         /\ local' = IF local.mode # "p" THEN local
                     ELSE CASE token.tag = "style" -> [local EXCEPT !.style = token.arg]
                            [] token.tag = "outline" -> [local EXCEPT !.outline = token.arg]
                            [] token.tag = "numPr" -> [local EXCEPT !.numbered = TRUE]
  BY DEF DocxProperty
<1>3. DOMAIN local = {"mode", "words", "pics", "style", "outline", "numbered", "rows", "budget"}
  BY <1>1, DocxFacts
<1>4. \/ local' = local
      \/ local' = [local EXCEPT !.style = token.arg]
      \/ local' = [local EXCEPT !.outline = token.arg]
      \/ local' = [local EXCEPT !.numbered = TRUE]
  BY <1>2
<1>5. /\ local'.mode = local.mode /\ local'.rows = local.rows /\ local'.pics = local.pics
      /\ local'.budget = local.budget /\ local'.words = local.words
  BY <1>3, <1>4
<1>6. token.tag \in DocxTokens /\ token.tag \in DocxWordless
  BY <1>2 DEF DocxTokens, DocxWordless
<1>7. DocxFinds(read', local', blocks')
  BY <1>1, <1>2, <1>5, <1>6, DocxReads
<1>8. QED
  BY <1>1, <1>2, <1>5, <1>6, <1>7, DocxTokenStays

\* An image is paid for, or is not shown for one of its reasons.
LEMMA DocxImageFound == DocxInv /\ DocxLoss /\ DocxImage => DocxLoss'
<1> SUFFICES ASSUME DocxInv, DocxLoss, DocxImage PROVE DocxLoss'
  OBVIOUS
<1>1. /\ format = "docx" /\ Reading /\ Parent = "p"
      /\ UNCHANGED <<upload, format, vocabulary, open, blocks, title, outcome>>
  BY DEF DocxImage
<1>2. PICK token \in vocabulary.tokens :
         /\ token.tag = "image"
         /\ Write(token)
         /\ local' = IF local.mode = "p" /\ Resolves(token.arg)
                     THEN [local EXCEPT !.pics = Append(@, Here), !.budget = @ - Price(token.arg)]
                     ELSE local
  BY DEF DocxImage
<1>3. /\ DOMAIN local = {"mode", "words", "pics", "style", "outline", "numbered", "rows", "budget"}
      /\ local.pics \in Seq(Nat) /\ Here \in Nat /\ local.mode \in {"body", "p", "tbl"}
      /\ token.tag \in DocxTokens
  <2>1. token.tag \in DocxTokens
    BY <1>2 DEF DocxTokens
  <2>2. QED
    BY <1>1, <1>2, <2>1, DocxFacts, DocxToken DEF DocxOK, Pending
<1>4. CASE local.mode = "p" /\ Resolves(token.arg)
  <2>1. local' = [local EXCEPT !.pics = Append(@, Here), !.budget = @ - Price(token.arg)]
    BY <1>2, <1>4
  <2>2. /\ local'.mode = local.mode /\ local'.rows = local.rows /\ local'.pics = Append(local.pics, Here)
        /\ local'.budget = local.budget - Price(token.arg) /\ local'.words = local.words
    BY <1>3, <2>1
  <2>3. CostOf(token.arg) = Price(token.arg)
    BY <1>4 DEF Resolves, CostOf
  <2>4. In(local'.pics, Here)
    BY <1>3, <2>2, InAppend
  <2>5. DocxFinds(read', local', blocks')
    BY <1>1, <1>2, <1>3, <2>2, <2>3, <2>4, DocxReads
  <2>6. QED
    BY <1>1, <1>2, <1>3, <1>4, <2>2, <2>5, DocxTokenStays
<1>5. CASE ~(local.mode = "p" /\ Resolves(token.arg))
  <2>1. local' = local
    BY <1>2, <1>5
  <2>2. DocxDrops(read', Here) \/ CostOf(token.arg) > local.budget
    <3>1. CASE local.mode = "body"
      BY <1>1, <1>2, <1>3, <3>1, TextBoxCloses
    <3>2. /\ Grows(read, read') /\ read'[Here].tag = "image" /\ read'[Here].arg = token.arg
          /\ Inside(read', Here) = {open[j] : j \in DOMAIN open}
      <4>1. format \in Five /\ token.tag # "title"
        BY <1>1, <1>2 DEF Five
      <4>2. /\ Grows(read, read')
            /\ read'[Here] = [tag |-> token.tag, arg |-> token.arg, inside |-> open]
            /\ Inside(read', Here) = {open[j] : j \in DOMAIN open}
        BY <1>1, <1>2, <4>1, WriteForm DEF DocxInv
      <4>3. QED
        BY <1>2, <4>2
    <3>3. CASE local.mode = "tbl"
      <4>1. PICK k \in DOMAIN open : read[open[k]].tag = "tbl"
        BY <1>1, <3>3 DEF DocxLoss, DocxPlaced
      <4>2. open[k] \in DOMAIN read
        BY FormFacts DEF DocxInv
      <4>3. read'[open[k]].tag = "tbl"
        BY <3>2, <4>1, <4>2 DEF Grows
      <4>4. QED
        BY <3>2, <4>3 DEF DocxDrops
    <3>4. CASE local.mode = "p"
      <4>1. ~Resolves(token.arg)
        BY <1>5, <3>4
      <4>2. CASE Hidden(token.arg)
        BY <3>2, <4>2 DEF DocxDrops
      <4>3. CASE ~Hidden(token.arg)
        <5>1. /\ token.arg \in DOMAIN Rels /\ ~Rels[token.arg].external /\ Rels[token.arg].size # 0
              /\ Rels[token.arg].size \notin 1..local.budget
          BY <4>1, <4>3 DEF Hidden, Resolves
        <5>2. CostOf(token.arg) = Rels[token.arg].size /\ Rels[token.arg].size \in Nat
          BY <5>1, RelsAssumption DEF CostOf, Price
        <5>3. local.budget \in Int
          <6>1. PICK g : Pays(read, blocks, local.pics, g) /\ local.budget = ImageBudget - g[Len(read)]
            BY <1>1 DEF DocxLoss, DocxFinds
          <6>2. Len(read) \in Nat
            BY FormFacts DEF DocxInv
          <6>3. g[Len(read)] \in Nat /\ ImageBudget \in Nat
            BY <6>1, <6>2, DocxAssumption DEF Pays
          <6>4. QED
            BY <6>1, <6>3
        <5>4. QED
          BY <5>1, <5>2, <5>3
      <4>4. QED
        BY <4>2, <4>3
    <3>5. QED
      BY <1>3, <3>1, <3>3, <3>4
  <2>3. DocxFinds(read', local', blocks')
    BY <1>1, <1>2, <1>3, <2>1, <2>2, DocxReads
  <2>4. QED
    BY <1>1, <1>2, <1>3, <2>1, <2>3, DocxTokenStays
<1>6. QED
  BY <1>4, <1>5

\* An element that opens writes nothing.
LEMMA DocxElementFound == DocxInv /\ DocxLoss /\ DocxElement => DocxLoss'
<1> SUFFICES ASSUME DocxInv, DocxLoss, DocxElement PROVE DocxLoss'
  OBVIOUS
<1>1. PICK tag \in {"p", "tbl", "cell"} :
        /\ format = "docx" /\ Reading
        /\ \/ tag = "p" /\ Parent \in {"root", "cell", "p"}
           \/ tag = "tbl" /\ Parent \in {"root", "cell", "p"}
           \/ tag = "cell" /\ Parent = "tbl"
        /\ Write(Token(tag, "")) /\ Enter
        /\ local' = IF local.mode = "body" /\ tag \in {"p", "tbl"}
                    THEN [local EXCEPT !.mode = tag] ELSE local
        /\ UNCHANGED <<upload, format, vocabulary, blocks, title, outcome>>
  BY DEF DocxElement
<1>2. PICK token : token = Token(tag, "") /\ token.tag = tag /\ token.tag \in DocxTokens /\ token.tag \in DocxWordless
  <2>1. Token(tag, "").tag = tag /\ tag \in DocxTokens /\ tag \in DocxWordless
    BY DEF Token, DocxTokens, DocxWordless
  <2>2. QED
    BY <2>1
<1>3. /\ DOMAIN local = {"mode", "words", "pics", "style", "outline", "numbered", "rows", "budget"}
      /\ (local.mode = "body" => local.pics = <<>>)
      /\ Len(open) \in Nat /\ open \in Seq(Nat) /\ DOMAIN open = 1..Len(open)
      /\ \A j \in DOMAIN open : open[j] \in DOMAIN read
  BY <1>1, DocxFacts DEF DocxOK
<1>4. /\ Grows(read, read') /\ Here \in Nat /\ Here = Len(read) + 1 /\ Len(read') = Here
      /\ read'[Here].tag = token.tag
  BY <1>1, <1>2, DocxToken
<1>5. /\ local'.rows = local.rows /\ local'.pics = local.pics
      /\ local'.budget = local.budget /\ local'.words = local.words
      /\ local'.mode = IF local.mode = "body" /\ tag \in {"p", "tbl"} THEN tag ELSE local.mode
  BY <1>1, <1>3
<1>6. DocxFinds(read', local', blocks')
  BY <1>1, <1>2, <1>5, DocxReads
<1>7. /\ Len(open') = Len(open) + 1 /\ DOMAIN open' = 1..(Len(open) + 1)
      /\ \A k \in 1..Len(open) : open'[k] = open[k]
      /\ open'[Len(open) + 1] = Here
  <2>1. open' = Append(open, Here) /\ open \in Seq(Nat) /\ Here \in Nat
    BY <1>1, <1>3, <1>4 DEF Enter
  <2>2. QED
    BY ONLY <2>1
<1>8. tag # "cell" => (Len(open) > 0 => read[open[Len(open)]].tag # "tbl")
  <2>1. ASSUME tag # "cell", Len(open) > 0 PROVE read[open[Len(open)]].tag # "tbl"
    <3>1. open # <<>>
      BY <2>1
    <3>2. Parent # "tbl"
      BY <1>1, <2>1
    <3>3. QED
      BY <3>1, <3>2, LastOpen DEF DocxInv
  <2>2. QED
    BY <2>1
<1>9. DocxPlaced(read, open, local)
  BY <1>1 DEF DocxLoss
<1>10. DocxPlaced(read', open', local')
  <2>1. PICK m, u : m = local' /\ u = open'
    OBVIOUS
  <2>2. Opens(read, read', open, u)
    BY <1>3, <1>4, <1>7, <2>1 DEF Opens
  <2>3. /\ m.rows = local.rows /\ m.pics = local.pics
        /\ read'[Len(read')].tag = tag
        /\ \/ m.mode = tag /\ local.mode = "body"
           \/ m.mode = local.mode /\ (local.mode # "body" \/ tag = "cell")
    BY <1>2, <1>4, <1>5, <2>1
  <2>4. tag = "cell" \/ Len(open) = 0 \/ read[open[Len(open)]].tag # "tbl"
    BY <1>3, <1>8
  <2>5. DocxPlaced(read', u, m)
    BY <1>3, <1>9, <2>2, <2>3, <2>4, DocxOpens
  <2>6. QED
    BY <2>1, <2>5
<1>11. QED
  BY <1>6, <1>10 DEF DocxLoss

\* What was gathered moves into the document; what was paid for is the same.
LEMMA DocxMoves ==
    ASSUME DocxInv, DocxLoss, format = "docx", Reading, UNCHANGED read,
           \A i : Says(blocks', i) <=> Says(blocks, i) \/ In(local.words, i) \/ In(local.pics, i),
           local' = Between(local.budget)
    PROVE  DocxFinds(read', local', blocks')
<1>1. PICK g : /\ Pays(read, blocks, local.pics, g) /\ local.budget = ImageBudget - g[Len(read)]
               /\ \A i \in DOMAIN read : DocxFound(read, blocks, local, g, i)
  BY DEF DocxLoss, DocxFinds
<1>2. \A i \in DOMAIN local.words : read[local.words[i]].tag # "image"
  BY DEF DocxInv, Docx, DocxOK
<1>3. local'.words = <<>> /\ local'.pics = <<>> /\ local'.budget = local.budget /\ read' = read
  BY DEF Between
<1>4. \A i : ~In(<<>>, i)
  BY InNothing
<1>5. ASSUME NEW k PROVE PaidFor(read, blocks', <<>>, k) = PaidFor(read, blocks, local.pics, k)
  <2>1. read[k].tag = "image" => ~In(local.words, k)
    BY <1>2 DEF In
  <2>2. read[k].tag = "image" /\ (Says(blocks', k) \/ In(<<>>, k))
        <=> read[k].tag = "image" /\ (Says(blocks, k) \/ In(local.pics, k))
    BY <1>4, <2>1
  <2>3. QED
    BY <2>2 DEF PaidFor
<1>6. Pays(read, blocks', <<>>, g)
  BY <1>1, <1>5 DEF Pays
<1>7. \A i \in DOMAIN read : DocxFound(read, blocks', local', g, i)
  BY <1>1, <1>3, <1>4 DEF DocxFound
<1>8. QED
  BY <1>1, <1>3, <1>6, <1>7 DEF DocxFinds

\* An element ends.
LEMMA DocxCloses ==
    ASSUME DocxInv, DocxLoss, DocxEnd
    PROVE  DocxPlaced(read', open', local')
<1>1. /\ format = "docx" /\ Reading /\ Leave /\ UNCHANGED <<upload, format, vocabulary, read, outcome>>
      /\ format \in Five
  BY DEF DocxEnd, Five
<1>2. /\ Len(open) \in Nat \ {0}
      /\ \A i \in 1..(Len(open) - 1) : open'[i] = open[i]
      /\ DOMAIN open = 1..Len(open) /\ DOMAIN open' = 1..(Len(open) - 1)
      /\ Form' /\ read' = read
  BY <1>1, LeaveForm DEF DocxInv
<1>3. open # <<>> /\ Parent = read[open[Len(open)]].tag /\ open[Len(open)] \in DOMAIN read
  BY <1>1, LastOpen DEF Leave, DocxInv
<1>4. PICK n \in Nat : n = Len(open) - 1 /\ Len(open) = n + 1
  BY <1>2
<1>5. /\ DOMAIN open = 1..(n + 1) /\ DOMAIN open' = 1..n
      /\ \A i \in 1..n : i \in DOMAIN open /\ open'[i] = open[i]
      /\ n + 1 \in DOMAIN open
      /\ \A i \in DOMAIN open : i \in DOMAIN open' \/ i = n + 1
  BY <1>2, <1>4
<1>6. \A i \in 1..n : open[i] # open[n + 1] /\ open[i] \in Inside(read, open[n + 1])
  <2>1. \A i \in 1..n : i < n + 1
    OBVIOUS
  <2>2. QED
    BY <1>5, <2>1, OpenApart DEF DocxInv
<1>7. DocxPlaced(read, open, local) /\ DOMAIN local = {"mode", "words", "pics", "style", "outline", "numbered", "rows", "budget"}
  BY <1>1, DocxFacts DEF DocxLoss
<1>8. ASSUME NEW k \in DOMAIN open', k > 1, read[open'[k]].tag # "cell"
      PROVE  read[open'[k - 1]].tag # "tbl"
  <2>1. k \in DOMAIN open /\ k - 1 \in 1..n
    BY <1>5, <1>8
  <2>2. open'[k] = open[k] /\ open'[k - 1] = open[k - 1]
    BY <1>5, <1>8, <2>1
  <2>3. QED
    BY <1>7, <1>8, <2>1, <2>2 DEF DocxPlaced
<1>9. CASE Parent \in {"p", "tbl"} /\ Parent = local.mode
  <2>1. local' = Between(local.budget)
    BY <1>9 DEF DocxEnd, Resume
  <2>6. local'.mode = "body" /\ local'.pics = <<>> /\ local'.rows = 0
    BY <2>1 DEF Between
  <2>2. PICK m : m = local' /\ m.mode = "body" /\ m.pics = <<>> /\ m.rows = 0
    BY <2>6
  <2>3. ASSUME NEW k \in DOMAIN open' PROVE HasParagraph(read, open', open'[k])
    <3>1. open'[k] \in Inside(read, open[n + 1]) /\ open[n + 1] \in DOMAIN read
      BY <1>3, <1>4, <1>5, <1>6
    <3>2. read[open[n + 1]].tag \in {"p", "tbl"}
      BY <1>3, <1>4, <1>9
    <3>3. \A j \in DOMAIN open' : open'[j] # open[n + 1]
      BY <1>5, <1>6
    <3>4. QED
      BY <3>1, <3>2, <3>3 DEF HasParagraph
  <2>4. DocxPlaced(read, open', m)
    BY <1>8, <2>2, <2>3 DEF DocxPlaced
  <2>5. QED
    BY <1>2, <2>2, <2>4
<1>10. CASE ~(Parent \in {"p", "tbl"} /\ Parent = local.mode)
  <2>1. local' = IF Parent = "cell" /\ local.mode = "tbl" THEN [local EXCEPT !.rows = @ + 1] ELSE local
    BY <1>10 DEF DocxEnd
  <2>2. local.rows \in Nat
    BY <1>7 DEF DocxPlaced
  <2>3. /\ local'.mode = local.mode /\ local'.pics = local.pics /\ local'.rows \in Nat
        /\ local'.rows = 0 => local'.rows = local.rows /\ ~(Parent = "cell" /\ local.mode = "tbl")
    <3>1. CASE Parent = "cell" /\ local.mode = "tbl"
      <4>1. local' = [local EXCEPT !.rows = @ + 1]
        BY <2>1, <3>1
      <4>2. local'.mode = local.mode /\ local'.pics = local.pics /\ local'.rows = local.rows + 1
        BY <1>7, <4>1
      <4>3. local.rows + 1 \in Nat /\ local.rows + 1 # 0
        BY <2>2
      <4>4. QED
        BY <4>2, <4>3
    <3>2. CASE ~(Parent = "cell" /\ local.mode = "tbl")
      BY <2>1, <2>2, <3>2
    <3>3. QED
      BY <3>1, <3>2
  <2>4. PICK m : m = local' /\ m.mode = local.mode /\ m.pics = local.pics /\ m.rows \in Nat
                 /\ (m.rows = 0 => local.rows = 0 /\ ~(Parent = "cell" /\ local.mode = "tbl"))
    BY <2>3
  <2>5. ASSUME local.mode # "body" PROVE \E k \in DOMAIN open' : read[open'[k]].tag = local.mode
    <3>1. PICK k \in DOMAIN open : read[open[k]].tag = local.mode
      BY <1>7, <2>5 DEF DocxPlaced
    <3>2. local.mode \in {"p", "tbl"}
      BY <1>1, <2>5, DocxFacts DEF DocxOK
    <3>3. k # n + 1
      BY <1>3, <1>4, <1>10, <3>1, <3>2
    <3>4. QED
      BY <1>5, <3>1, <3>3
  <2>6. ASSUME local.mode = "body", NEW k \in DOMAIN open', read[open'[k]].tag = "p"
        PROVE  HasParagraph(read, open', open'[k])
    <3>1. HasParagraph(read, open, open[k]) /\ open'[k] = open[k]
      BY <1>5, <1>7, <2>6 DEF DocxPlaced
    <3>2. QED
      BY <1>5, <3>1 DEF HasParagraph
  <2>7. ASSUME local.mode = "tbl", m.rows = 0, n > 0, read[open'[n]].tag = "tbl" PROVE read[Len(read)].tag = "tbl"
    <3>1. local.rows = 0 /\ Parent # "cell" /\ Parent # "tbl" /\ n \in DOMAIN open' /\ open'[n] = open[n]
      BY <1>5, <1>10, <2>4, <2>7
    <3>3. n + 1 \in DOMAIN open /\ n + 1 > 1 /\ (n + 1) - 1 = n /\ read[open[n + 1]].tag # "cell"
      BY <1>3, <1>4, <1>5, <2>7, <3>1
    <3>4. PICK k \in DOMAIN open : k = n + 1 /\ k > 1 /\ k - 1 = n
      BY <3>3
    <3>5. read[open[k - 1]].tag # "tbl"
      BY <1>7, <3>3, <3>4 DEF DocxPlaced
    <3>6. QED
      BY <2>7, <3>1, <3>4, <3>5
  <2>8. Len(open') = n
    BY <1>1, <1>2, <1>4, LeaveForm DEF DocxInv
  <2>9. open' # <<>> => n > 0
    BY <1>2, <2>8 DEF Form
  <2>10. DocxPlaced(read, open', m)
    <3>1. m.mode # "p" => m.pics = <<>>
      BY <1>7, <2>4 DEF DocxPlaced
    <3>2. m.mode # "body" => \E k \in DOMAIN open' : read[open'[k]].tag = m.mode
      BY <2>4, <2>5
    <3>3. m.mode = "body" => \A k \in DOMAIN open' : read[open'[k]].tag = "p" => HasParagraph(read, open', open'[k])
      BY <2>4, <2>6
    <3>4. m.mode = "tbl" /\ m.rows = 0 /\ open' # <<>> /\ read[open'[Len(open')]].tag = "tbl"
          => read[Len(read)].tag = "tbl"
      BY <2>4, <2>7, <2>8, <2>9
    <3>5. QED
      BY <1>8, <2>4, <3>1, <3>2, <3>3, <3>4 DEF DocxPlaced
  <2>11. QED
    BY <1>2, <2>4, <2>10
<1>11. QED
  BY <1>9, <1>10

\* An end writes what the paragraph or the table gathered, or goes on with it.
LEMMA DocxEndFound == DocxInv /\ DocxLoss /\ DocxEnd => DocxLoss'
<1> SUFFICES ASSUME DocxInv, DocxLoss, DocxEnd PROVE DocxLoss'
  OBVIOUS
<1>1. /\ format = "docx" /\ Reading /\ Leave /\ UNCHANGED <<upload, format, vocabulary, read, outcome>>
  BY DEF DocxEnd
<1>2. DocxPlaced(read', open', local')
  BY DocxCloses
<1>3. /\ DocxOK(read, open, local, blocks) /\ blocks \in Seq(BlockRec) /\ local.words \in Seq(Nat)
      /\ DOMAIN local = {"mode", "words", "pics", "style", "outline", "numbered", "rows", "budget"}
  BY <1>1, DocxFacts DEF DocxOK, Pending
<1>4. CASE Parent \in {"p", "tbl"} /\ Parent = local.mode
  <2>1. local' = Between(local.budget)
    BY <1>4 DEF DocxEnd, Resume
  <2>2. ASSUME NEW i PROVE Says(blocks', i) <=> Says(blocks, i) \/ In(local.words, i) \/ In(local.pics, i)
    <3>1. CASE Parent = "p"
      <4>1. Emit([k \in DOMAIN local.pics |-> Block("image", 0, <<local.pics[k]>>)])
        BY <1>4, <3>1 DEF DocxEnd
      <4>2. Emit(Shown(local.pics))
        BY <4>1 DEF Shown
      <4>3. QED
        BY <1>1, <4>2, EmitSays
    <3>2. CASE Parent = "tbl"
      <4>1. local.pics = <<>>
        BY <1>1, <1>4, <3>2 DEF DocxLoss, DocxPlaced
      <4>2. local.rows > 0
        <5>1. open # <<>>
          BY <1>1 DEF Leave
        <5>2. Parent = read[open[Len(open)]].tag
          BY <5>1, LastOpen DEF DocxInv
        <5>3. read[Len(read)].tag # "tbl"
          BY <3>2 DEF DocxEnd
        <5>4. local.rows \in Nat /\ local.rows # 0
          BY <1>1, <1>4, <3>2, <5>1, <5>2, <5>3 DEF DocxLoss, DocxPlaced
        <5>5. QED
          BY <5>4
      <4>3. blocks' = Append(blocks, Block("table", 0, local.words))
        BY <1>4, <3>2, <4>2 DEF DocxEnd, EmitTable
      <4>4. "table" \in Kinds /\ 0 \in Int
        BY DEF Kinds
      <4>5. Says(blocks', i) <=> Says(blocks, i) \/ In(local.words, i)
        BY <1>3, <4>3, <4>4, SaysBlock
      <4>6. QED
        BY <4>1, <4>5, InNothing
    <3>3. QED
      BY <1>4, <3>1, <3>2
  <2>3. DocxFinds(read', local', blocks')
    BY <1>1, <2>1, <2>2, DocxMoves
  <2>4. QED
    BY <1>2, <2>3 DEF DocxLoss
<1>5. CASE ~(Parent \in {"p", "tbl"} /\ Parent = local.mode)
  <2>1. /\ local' = local \/ local' = [local EXCEPT !.rows = @ + 1]
        /\ UNCHANGED <<blocks, title>>
    BY <1>5 DEF DocxEnd
  <2>2. local'.words = local.words /\ local'.pics = local.pics /\ local'.budget = local.budget
    BY <1>3, <2>1
  <2>3. DocxFinds(read, local, blocks)
    BY <1>1 DEF DocxLoss
  <2>4. DocxFinds(read', local', blocks')
    BY <1>1, <2>1, <2>2, <2>3 DEF DocxFinds, DocxFound
  <2>5. QED
    BY <1>2, <2>4 DEF DocxLoss
<1>6. QED
  BY <1>4, <1>5

\* Spent, of the source r and the blocks bs.
Sums(r, bs, n, f) == f = [k \in 1..n |-> IF k = 1 THEN 0 ELSE f[k - 1] + PaidFor(r, bs, <<>>, k - 1)]
SpentIn(r, bs, n) == (CHOOSE f : Sums(r, bs, n, f))[n]

\* There is one such sum, and it is what was paid.
LEMMA SpentPays ==
    ASSUME NEW r, NEW bs, NEW g, Pays(r, bs, <<>>, g), Len(r) \in Nat, NEW i \in 1..Len(r)
    PROVE  SpentIn(r, bs, i) = g[i - 1]
<1>1. /\ g \in [0..Len(r) -> Nat] /\ g[0] = 0
      /\ \A k \in 1..Len(r) : g[k] = g[k - 1] + PaidFor(r, bs, <<>>, k)
  BY DEF Pays
<1> DEFINE h == [k \in 1..i |-> g[k - 1]]
<1>2. Sums(r, bs, i, h)
  <2>1. ASSUME NEW k \in 1..i PROVE g[k - 1] = IF k = 1 THEN 0 ELSE h[k - 1] + PaidFor(r, bs, <<>>, k - 1)
    <3>1. CASE k = 1
      BY <1>1, <3>1
    <3>2. CASE k # 1
      <4>1. k - 1 \in 1..i /\ k - 1 \in 1..Len(r)
        BY <3>2
      <4>2. h[k - 1] = g[(k - 1) - 1]
        BY <4>1
      <4>3. g[k - 1] = g[(k - 1) - 1] + PaidFor(r, bs, <<>>, k - 1)
        BY <1>1, <4>1
      <4>4. QED
        BY <3>2, <4>2, <4>3
    <3>3. QED
      BY <3>1, <3>2
  <2>2. h = [k \in 1..i |-> IF k = 1 THEN 0 ELSE h[k - 1] + PaidFor(r, bs, <<>>, k - 1)]
    BY <2>1
  <2>3. QED
    BY <2>2 DEF Sums
<1> HIDE DEF h
<1>3. PICK f : Sums(r, bs, i, f) /\ SpentIn(r, bs, i) = f[i]
  BY <1>2 DEF SpentIn
<1>4. ASSUME NEW k \in 1..i PROVE f[k] = IF k = 1 THEN 0 ELSE f[k - 1] + PaidFor(r, bs, <<>>, k - 1)
  BY <1>3 DEF Sums
<1> DEFINE Bad == {k \in Nat : k \in 1..i /\ f[k] # g[k - 1]}
<1>5. ASSUME Bad # {} PROVE FALSE
  <2>1. PICK k \in Bad : \A l \in Bad : k <= l
    BY <1>5, LeastNumber, Bad \subseteq Nat
  <2>2. k \in 1..i /\ f[k] # g[k - 1]
    OBVIOUS
  <2>3. k # 1
    BY <1>1, <1>4, <2>2
  <2>4. k - 1 \in Nat /\ k - 1 \in 1..i /\ ~(k <= k - 1) /\ k - 1 \in 1..Len(r)
    BY <2>2, <2>3
  <2>5. f[k - 1] = g[(k - 1) - 1]
    BY <2>1, <2>4
  <2>6. f[k] = f[k - 1] + PaidFor(r, bs, <<>>, k - 1)
    BY <1>4, <2>2, <2>3
  <2>7. g[k - 1] = g[(k - 1) - 1] + PaidFor(r, bs, <<>>, k - 1)
    BY <1>1, <2>4
  <2>8. QED
    BY <2>2, <2>5, <2>6, <2>7
<1>6. i \in Nat /\ i \in 1..i
  OBVIOUS
<1>7. f[i] = g[i - 1]
  BY <1>5, <1>6
<1>8. QED
  BY <1>3, <1>7

\* Spent of the model is that sum.
LEMMA SpentIs ==
    ASSUME Form, NEW i \in DOMAIN read
    PROVE  Spent(i) = SpentIn(read, blocks, i)
<1>1. DOMAIN read = 1..Len(read) /\ Len(read) \in Nat
  BY FormFacts
<1>2. ASSUME NEW k \in 1..i, k # 1 PROVE Paid(k - 1) = PaidFor(read, blocks, <<>>, k - 1)
  <2>1. k - 1 \in DOMAIN read
    BY <1>1, <1>2
  <2>2. k - 1 \in InDocument <=> Says(blocks, k - 1)
    BY SaysIs
  <2>3. ~In(<<>>, k - 1)
    BY InNothing
  <2>4. QED
    BY <2>1, <2>2, <2>3 DEF Paid, PaidFor, Images, Tag, Cost, CostOf
<1>3. ASSUME NEW f
      PROVE  [k \in 1..i |-> IF k = 1 THEN 0 ELSE f[k - 1] + Paid(k - 1)]
             = [k \in 1..i |-> IF k = 1 THEN 0 ELSE f[k - 1] + PaidFor(read, blocks, <<>>, k - 1)]
  BY <1>2
<1>4. \A f : (f = [k \in 1..i |-> IF k = 1 THEN 0 ELSE f[k - 1] + Paid(k - 1)]) <=> Sums(read, blocks, i, f)
  BY <1>3 DEF Sums
<1>5. (CHOOSE f : f = [k \in 1..i |-> IF k = 1 THEN 0 ELSE f[k - 1] + Paid(k - 1)])
      = (CHOOSE f : Sums(read, blocks, i, f))
  BY <1>4
<1>6. Spent(i) = (CHOOSE f : f = [k \in 1..i |-> IF k = 1 THEN 0 ELSE f[k - 1] + Paid(k - 1)])[i]
  BY DEF Spent
<1>7. QED
  BY <1>5, <1>6 DEF SpentIn

\* At the end, what is not in the document was dropped, or there was no budget for it.
LEMMA DocxEofFound == DocxInv /\ DocxLoss /\ DocxEof => NothingElseIsLost'
<1> SUFFICES ASSUME DocxInv, DocxLoss, DocxEof PROVE NothingElseIsLost'
  OBVIOUS
<1>1. /\ format = "docx" /\ Reading /\ open = <<>> /\ outcome' = "parsed"
      /\ UNCHANGED <<upload, format, vocabulary, read, open, local, blocks>>
  BY DEF DocxEof, EndOfSource, Finish
<1>2. local.words = <<>> /\ local.pics = <<>> /\ Form /\ DOMAIN read = 1..Len(read) /\ Len(read) \in Nat
  <2>1. local.mode = "body"
    BY <1>1 DEF DocxLoss, DocxPlaced
  <2>2. QED
    BY <1>1, <2>1, DocxFacts, FormFacts DEF DocxOK, DocxInv
<1>3. PICK g : Pays(read, blocks, <<>>, g) /\ \A i \in DOMAIN read : DocxFound(read, blocks, local, g, i)
  BY <1>1, <1>2 DEF DocxLoss, DocxFinds
<1>4. ASSUME NEW i \in DOMAIN read, read[i].tag \notin DocxWordless
      PROVE  i \in InDocument \/ DocxLoses(i)
  <2>1. DocxFound(read, blocks, local, g, i)
    BY <1>3
  <2>2. ~In(local.words, i) /\ ~In(local.pics, i)
    BY <1>2, InNothing
  <2>3. CASE Says(blocks, i)
    BY <2>3, SaysIs
  <2>4. CASE DocxDrops(read, i)
    <3>1. Around(i) = Inside(read, i) /\ \A p : Around(p) = Inside(read, p)
      BY DEF Around, Inside, ToSet
    <3>2. CASE ClosesIn(read, i)
      <4>1. AfterTextBox(i)
        BY <3>1, <3>2 DEF ClosesIn, AfterTextBox, Tag
      <4>2. QED
        BY <4>1 DEF DocxLoses
    <3>3. CASE read[i].tag = "image" /\ Hidden(read[i].arg)
      <4>1. i \in Images /\ NotShown(i)
        BY <3>3 DEF Images, Tag, NotShown, Hidden
      <4>2. QED
        BY <4>1 DEF DocxLoses
    <3>4. CASE read[i].tag = "image" /\ \E e \in Inside(read, i) : read[e].tag = "tbl"
      <4>1. i \in Images /\ Has(i, {"tbl"})
        BY <3>1, <3>4 DEF Images, Tag, Has
      <4>2. QED
        BY <4>1 DEF DocxLoses
    <3>5. QED
      BY <2>4, <3>2, <3>3, <3>4 DEF DocxDrops
  <2>5. CASE TooDear(read, g, i)
    <3>1. Spent(i) = g[i - 1]
      BY <1>2, <1>3, SpentIs, SpentPays
    <3>2. Cost(i) = CostOf(read[i].arg)
      BY DEF Cost, CostOf
    <3>3. Cost(i) + Spent(i) > ImageBudget
      BY <2>5, <3>1, <3>2 DEF TooDear
    <3>4. i \in Images /\ NotShown(i)
      BY <2>5, <3>3 DEF Images, Tag, NotShown, TooDear
    <3>5. QED
      BY <3>4 DEF DocxLoses
  <2>6. QED
    BY <1>4, <2>1, <2>2, <2>3, <2>4, <2>5 DEF DocxFound
<1>5. ASSUME NEW i \in Texts \cup Images PROVE i \in InDocument \/ Loses(i)
  <2>1. i \in DOMAIN read /\ read[i].tag \notin DocxWordless
    BY <1>5 DEF Texts, Images, Tag, DocxWordless
  <2>2. QED
    BY <1>1, <1>4, <2>1 DEF Loses
<1>6. (Texts \cup Images)' = Texts \cup Images /\ InDocument' = InDocument
  BY <1>1 DEF Texts, Images, Tag, InDocument
<1>7. ASSUME NEW i PROVE Loses(i)' = Loses(i)
  BY <1>1, <1>7 DEF Loses, DocxLoses, AfterTextBox, NotShown, Cost, Spent, Paid, Price, Images, InDocument, Tag,
     Around, Has
<1>8. QED
  BY <1>5, <1>6, <1>7 DEF NothingElseIsLost

\* Every step over a DOCX keeps what it gathered.
LEMMA DocxLossKept == DocxInv /\ DocxLoss /\ DocxNext => DocxLoss' /\ NothingElseIsLost'
<1> SUFFICES ASSUME DocxInv, DocxLoss, DocxNext PROVE DocxLoss' /\ NothingElseIsLost'
  OBVIOUS
<1>1. CASE DocxEof
  <2>1. outcome' = "parsed"
    BY <1>1 DEF DocxEof, EndOfSource, Finish
  <2>2. QED
    BY <1>1, <2>1, DocxEofFound DEF DocxLoss, Reading
<1>2. CASE DocxMalformed
  <2>1. outcome' = "docx_xml"
    BY <1>2 DEF DocxMalformed, Finish
  <2>2. QED
    BY <2>1 DEF DocxLoss, Reading, NothingElseIsLost, Parsed
<1>3. CASE DocxElement \/ DocxText \/ DocxProperty \/ DocxImage \/ DocxEnd
  <2>1. DocxLoss'
    BY <1>3, DocxElementFound, DocxTextFound, DocxPropertyFound, DocxImageFound, DocxEndFound
  <2>2. Reading /\ outcome' = outcome
    BY <1>3 DEF DocxElement, DocxText, DocxProperty, DocxImage, DocxEnd
  <2>3. QED
    BY <2>1, <2>2 DEF NothingElseIsLost, Parsed, Reading
<1>4. QED
  BY <1>1, <1>2, <1>3 DEF DocxNext

---------------------------------------------------------------------------
(* HTML: nothing else is lost *)

\* What was dropped stays dropped.
LEMMA HtmlDropsGrows ==
    ASSUME NEW r, NEW s, Grows(r, s), Rooted(r), NEW i \in DOMAIN r, NEW hasMain,
           NEW d \in Nat, NEW c \in Nat, d <= c, HtmlDrops(r, hasMain, d, i)
    PROVE  HtmlDrops(s, hasMain, c, i)
<1>1. ASSUME NEW j \in DOMAIN r
      PROVE  Inside(s, j) = Inside(r, j) /\ s[j] = r[j] /\ j \in DOMAIN s
             /\ \A e \in Inside(r, j) : e \in DOMAIN r /\ s[e] = r[e]
  BY DEF Grows, Inside, Rooted
<1>2. ASSUME NEW j \in DOMAIN r, NEW tags PROVE Amid(s, j, tags) <=> Amid(r, j, tags)
  BY <1>1 DEF Amid
<1>3. ASSUME NEW e, FirstLi(r, e, i) PROVE FirstLi(s, e, i)
  BY <1>1, <1>3 DEF FirstLi
<1>4. CASE Captioned(r, i)
  BY <1>1, <1>4 DEF Captioned, HtmlDrops
<1>5. CASE Listed(r, i)
  <2>1. PICK e \in Inside(r, i) :
           /\ r[e].tag = "list" /\ \A b \in Inside(r, i) : b < e => r[b].tag \notin {"h", "pre", "quote", "table"}
           /\ \A b \in Inside(r, i) : r[b].tag = "li" => \E a \in Inside(r, i) : e < a /\ a < b
    BY <1>5 DEF Listed
  <2>3. Listed(s, i)
    BY <1>1, <2>1 DEF Listed
  <2>2. QED
    BY <2>3 DEF HtmlDrops
<1>6. CASE Broken(r, i)
  <2>1. PICK e : /\ FirstLi(r, e, i)
                 /\ \/ \E b \in Inside(r, i) : b > e /\ r[b].tag \in Breaks
                    \/ \E k \in DOMAIN r : e \in Inside(r, k) /\ k > i /\ r[k].tag \in Breaks /\ ~Amid(r, k, {"skip"})
    BY <1>6 DEF Broken
  <2>2. FirstLi(s, e, i)
    BY <1>3, <2>1
  <2>3. CASE \E b \in Inside(r, i) : b > e /\ r[b].tag \in Breaks
    <3>1. \E b \in Inside(s, i) : b > e /\ s[b].tag \in Breaks
      BY <1>1, <2>3
    <3>2. QED
      BY <2>2, <3>1 DEF Broken, HtmlDrops
  <2>4. CASE \E k \in DOMAIN r : e \in Inside(r, k) /\ k > i /\ r[k].tag \in Breaks /\ ~Amid(r, k, {"skip"})
    <3>1. \E k \in DOMAIN s : e \in Inside(s, k) /\ k > i /\ s[k].tag \in Breaks /\ ~Amid(s, k, {"skip"})
      BY <1>1, <1>2, <2>4
    <3>2. QED
      BY <2>2, <3>1 DEF Broken, HtmlDrops
  <2>5. QED
    BY <2>1, <2>3, <2>4
<1>7. CASE Amid(r, i, {"skip"}) /\ (d > 0 \/ Amid(r, i, Boxes))
  <2>1. d > 0 => c > 0
    OBVIOUS
  <2>2. QED
    BY <1>2, <1>7, <2>1 DEF HtmlDrops
<1>8. CASE hasMain /\ ~Amid(r, i, {"main"})
  BY <1>2, <1>8 DEF HtmlDrops
<1>9. CASE r[i].tag = "image" /\ (r[i].arg = "unsafe" \/ Amid(r, i, Boxes))
  BY <1>1, <1>2, <1>9 DEF HtmlDrops
<1>10. QED
  BY <1>4, <1>5, <1>6, <1>7, <1>8, <1>9 DEF HtmlDrops

\* What was dropped is what HtmlLoses says.
LEMMA HtmlDropsLoses ==
    ASSUME Form, NEW i \in DOMAIN read, HtmlDrops(read, local.hasMain, local.dropped, i)
    PROVE  HtmlLoses(i)
<1>1. \A k : Around(k) = Inside(read, k)
  BY DEF Around, Inside, ToSet
<1>2. \A k, tags : Has(k, tags) <=> Amid(read, k, tags)
  BY <1>1 DEF Has, Amid, Tag
<1>3. \A e \in Inside(read, i) : e \in Nat
  <2>1. Rooted(read) /\ DOMAIN read = 1..Len(read) /\ Len(read) \in Nat
    BY FormFacts DEF Form
  <2>2. QED
    BY <2>1 DEF Rooted, Inside
<1> DEFINE first(tags) == \A e \in {v \in Around(i) : Tag(v) \in {"h", "pre", "quote", "cell"}} :
                              \E d \in Around(i) : d < e /\ Tag(d) \in tags
<1>4. CASE Captioned(read, i)
  <2>1. Has(i, {"caption"}) /\ first({"caption"})
    BY <1>1, <1>4 DEF Captioned, Has, Tag, Verbal
  <2>2. QED
    BY <2>1 DEF HtmlLoses
<1>5. CASE Listed(read, i)
  <2>1. \E e \in Around(i) : OutOfItems(i, e)
    BY <1>1, <1>5 DEF Listed, OutOfItems, Tag
  <2>2. QED
    BY <2>1 DEF HtmlLoses
<1>6. CASE Broken(read, i)
  <2>1. PICK e : /\ FirstLi(read, e, i)
                 /\ \/ \E b \in Inside(read, i) : b > e /\ read[b].tag \in Breaks
                    \/ \E k \in DOMAIN read : e \in Inside(read, k) /\ k > i /\ read[k].tag \in Breaks
                                              /\ ~Amid(read, k, {"skip"})
    BY <1>6 DEF Broken
  <2>2. Has(i, {"li"})
    BY <1>1, <2>1 DEF Has, Tag, FirstLi
  <2>3. first({"li"})
    <3>1. ASSUME NEW v \in Around(i), Tag(v) \in {"h", "pre", "quote", "cell"} PROVE e < v
      <4>1. e <= v /\ e # v /\ e \in Nat /\ v \in Nat
        BY <1>1, <1>3, <2>1, <3>1 DEF FirstLi, Verbal, Tag
      <4>2. QED
        BY <4>1
    <3>2. e \in Around(i) /\ Tag(e) \in {"li"}
      BY <1>1, <2>1 DEF FirstLi, Tag
    <3>3. QED
      BY <3>1, <3>2
  <2>4. Item(i) = e
    <3>1. e \in Around(i) /\ Tag(e) = "li" /\ \A d \in Around(i) : Tag(d) = "li" => e <= d
      BY <1>1, <2>1 DEF FirstLi, Tag
    <3>2. Item(i) \in Around(i) /\ Tag(Item(i)) = "li" /\ \A d \in Around(i) : Tag(d) = "li" => Item(i) <= d
      BY <3>1 DEF Item
    <3>3. e <= Item(i) /\ Item(i) <= e /\ e \in Nat /\ Item(i) \in Nat
      BY <1>1, <1>3, <3>1, <3>2
    <3>4. QED
      BY <3>3
  <2>5. \/ \E b \in Around(i) : b > Item(i) /\ Tag(b) \in Breaks
        \/ \E k \in InItem(i) : k > i /\ Tag(k) \in Breaks /\ ~Has(k, {"skip"})
    BY <1>1, <1>2, <2>1, <2>4 DEF InItem, Tag
  <2>6. QED
    BY <2>2, <2>3, <2>5 DEF HtmlLoses
<1>7. CASE Amid(read, i, {"skip"}) /\ (local.dropped > 0 \/ Amid(read, i, Boxes))
  BY <1>2, <1>7 DEF HtmlLoses, Boxes
<1>8. CASE local.hasMain /\ ~Amid(read, i, {"main"})
  BY <1>2, <1>8 DEF HtmlLoses
<1>9. CASE read[i].tag = "image" /\ (read[i].arg = "unsafe" \/ Amid(read, i, Boxes))
  BY <1>2, <1>9 DEF HtmlLoses, Boxes, Images, Tag
<1>10. QED
  BY <1>4, <1>5, <1>6, <1>7, <1>8, <1>9 DEF HtmlDrops

\* It is so whatever is read later, and whatever else is open.
LEMMA ShapeSame ==
    ASSUME NEW r, NEW s, NEW o, NEW u, NEW l, NEW m, NEW k \in Nat, ShapeOf(r, o, l, k),
           \A j \in 1..k : s[u[j]] = r[o[j]],
           \A j \in 1..(k + 1) : m.modes[j] = l.modes[j],
           m.hasMain = l.hasMain, l.dropped \in Nat, m.dropped \in Nat, l.dropped <= m.dropped
    PROVE  ShapeOf(s, u, m, k)
<1>1. ASSUME NEW x \in Int, x <= k, Plain(r, o, x) PROVE Plain(s, u, x)
  BY <1>1 DEF Plain
<1>2. ASSUME NEW x \in 1..k, LiAt(r, o, l.modes, x) PROVE LiAt(s, u, m.modes, x)
  <2>1. x > 1 /\ x \in 1..(k + 1) /\ x + 1 \in 1..(k + 1) /\ x - 1 \in 1..k /\ x - 2 \in Int /\ x - 2 <= k
    BY <1>2 DEF LiAt
  <2>2. Plain(s, u, x - 2)
    BY <1>1, <1>2, <2>1 DEF LiAt
  <2>3. QED
    BY <1>2, <2>1, <2>2 DEF LiAt
<1>3. k + 1 \in 1..(k + 1) /\ m.modes[k + 1] = l.modes[k + 1] /\ (l.dropped > 0 => m.dropped > 0)
  OBVIOUS
<1>4. CASE l.modes[k + 1] \in {"outside", "page"}
  <2>1. Plain(r, o, k) => Plain(s, u, k)
    BY <1>1
  <2>2. QED
    BY <1>3, <1>4, <2>1 DEF ShapeOf
<1>5. CASE l.modes[k + 1] = "list"
  <2>1. k \in 1..k /\ k - 1 \in Int /\ k - 1 <= k /\ Plain(r, o, k - 1) /\ k > 0 /\ r[o[k]].tag = "list"
    BY <1>5 DEF ShapeOf
  <2>2. Plain(s, u, k - 1)
    BY <1>1, <2>1
  <2>3. QED
    BY <1>3, <1>5, <2>1, <2>2 DEF ShapeOf
<1>6. CASE l.modes[k + 1] = "item"
  BY <1>2, <1>3, <1>6 DEF ShapeOf
<1>7. CASE l.modes[k + 1] = "text"
  BY <1>3, <1>7 DEF ShapeOf
<1>8. CASE l.modes[k + 1] = "rows"
  <2>1. PICK t \in 1..k : r[o[t]].tag = "table" /\ Plain(r, o, t - 1) /\ (t < k => r[o[t + 1]].tag = "caption")
    BY <1>8 DEF ShapeOf
  <2>2. t - 1 \in Int /\ t - 1 <= k /\ (t < k => t + 1 \in 1..k)
    OBVIOUS
  <2>3. Plain(s, u, t - 1)
    BY <1>1, <2>1, <2>2
  <2>4. s[u[t]].tag = "table" /\ (t < k => s[u[t + 1]].tag = "caption")
    BY <2>1, <2>2
  <2>5. QED
    BY <1>3, <1>8, <2>3, <2>4 DEF ShapeOf
<1>9. CASE l.modes[k + 1] = "lost"
  <2>1. ASSUME NEW x \in 1..k, LiAt(r, o, l.modes, x), NEW b \in (x + 1)..k, r[o[b]].tag \in Structural
        PROVE  LiAt(s, u, m.modes, x) /\ s[u[b]].tag \in Structural
    <3>1. b \in 1..k
      OBVIOUS
    <3>2. QED
      BY <1>2, <2>1, <3>1
  <2>3. ASSUME NEW x \in 1..(k - 1), ListAt(r, o, x) PROVE ListAt(s, u, x)
    <3>1. x \in 1..k /\ x + 1 \in 1..k /\ x - 1 \in Int /\ x - 1 <= k
      OBVIOUS
    <3>2. Plain(s, u, x - 1)
      BY <1>1, <2>3, <3>1 DEF ListAt
    <3>3. QED
      BY <2>3, <3>1, <3>2 DEF ListAt
  <2>2. QED
    BY <1>3, <1>9, <2>1, <2>3 DEF ShapeOf
<1>10. CASE l.modes[k + 1] \notin Modes
  BY <1>3, <1>10 DEF ShapeOf, Modes
<1>11. QED
  BY <1>4, <1>5, <1>6, <1>7, <1>8, <1>9, <1>10 DEF Modes

\* One element more.
LEMMA ShapeDeeper ==
    ASSUME NEW r, NEW o, NEW l, NEW n \in Nat, ShapeOf(r, o, l, n), NEW t, r[o[n + 1]].tag = t,
           l.modes[n + 1] \in Modes, l.modes[n + 2] = ModeIn(l.modes[n + 1], t),
           t \in Structural \cup {"li", "caption", "cell", "span", "skip", "main"},
           n > 0 /\ r[o[n]].tag = "table" => t \in {"caption", "cell"},
           t = "li" => n > 0 /\ r[o[n]].tag = "list",
           t \in {"caption", "cell"} => n > 0 /\ r[o[n]].tag = "table",
           t = "main" => n = 0,
           l.dropped \in Nat, l.modes[n + 1] = "page" /\ t = "skip" => l.dropped > 0
    PROVE  ShapeOf(r, o, l, n + 1)
<1>1. PICK k \in Nat : k = n + 1 /\ k > 0 /\ k - 1 = n /\ k \in 1..k /\ n + 2 = k + 1
  OBVIOUS
<1>2. \A j \in 1..k : j \in 1..n \/ j = k
  BY <1>1
<1>3. \A j \in 1..n : j \in 1..k
  BY <1>1
<1>4. t = "list" \/ t = "table" \/ t = "h" \/ t = "pre" \/ t = "quote" \/ t = "p" \/ t = "li"
      \/ t = "caption" \/ t = "cell" \/ t = "span" \/ t = "skip" \/ t = "main"
  BY DEF Structural
<1>5. CASE l.modes[n + 1] = "outside"
  <2>1. l.hasMain /\ \A j \in 1..n : r[o[j]].tag # "main"
    BY <1>5 DEF ShapeOf
  <2>2. CASE t = "main"
    <3>1. l.modes[k + 1] = "page" /\ 1..n = {}
      BY <1>1, <1>5, <2>2 DEF ModeIn
    <3>2. Plain(r, o, k)
      BY <1>1, <1>2, <2>2, <3>1 DEF Plain
    <3>3. QED
      BY <1>1, <3>1, <3>2 DEF ShapeOf
  <2>3. CASE t # "main"
    <3>1. l.modes[k + 1] = "outside"
      BY <1>1, <1>5, <2>3 DEF ModeIn
    <3>2. \A j \in 1..k : r[o[j]].tag # "main"
      BY <1>1, <1>2, <2>1, <2>3
    <3>3. QED
      BY <1>1, <2>1, <3>1, <3>2 DEF ShapeOf
  <2>4. QED
    BY <2>2, <2>3
<1>6. CASE l.modes[n + 1] = "page"
  <2>1. Plain(r, o, n) /\ (n > 0 => n \in 1..n)
    BY <1>6 DEF ShapeOf
  <2>2. t \notin {"li", "caption", "cell"}
    BY <2>1 DEF Plain
  <2>3. CASE t \in {"h", "pre", "quote"}
    <3>1. l.modes[k + 1] = "text"
      BY <1>1, <1>6, <2>3 DEF ModeIn, Contents
    <3>2. QED
      BY <1>1, <2>3, <3>1 DEF ShapeOf
  <2>4. CASE t = "list"
    <3>1. l.modes[k + 1] = "list"
      BY <1>1, <1>6, <2>4 DEF ModeIn, Contents
    <3>2. QED
      BY <1>1, <2>1, <2>4, <3>1 DEF ShapeOf
  <2>5. CASE t = "table"
    <3>1. l.modes[k + 1] = "rows"
      BY <1>1, <1>6, <2>5 DEF ModeIn, Contents
    <3>2. r[o[k]].tag = "table" /\ Plain(r, o, k - 1) /\ ~(k < k)
      BY <1>1, <2>1, <2>5
    <3>3. QED
      BY <1>1, <3>1, <3>2 DEF ShapeOf
  <2>6. CASE t = "skip"
    <3>1. l.modes[k + 1] = "lost"
      BY <1>1, <1>6, <2>6 DEF ModeIn, Contents
    <3>2. QED
      BY <1>1, <1>6, <2>6, <3>1 DEF ShapeOf
  <2>7. CASE t \in {"p", "span", "main"}
    <3>1. l.modes[k + 1] = "page"
      BY <1>1, <1>6, <2>7 DEF ModeIn, Contents
    <3>2. Plain(r, o, k)
      BY <1>1, <1>2, <2>1, <2>7 DEF Plain
    <3>3. QED
      BY <1>1, <3>1, <3>2 DEF ShapeOf
  <2>8. QED
    BY <1>4, <2>2, <2>3, <2>4, <2>5, <2>6, <2>7
<1>7. CASE l.modes[n + 1] = "item"
  <2>1. PICK x \in 1..n : LiAt(r, o, l.modes, x)
    BY <1>7 DEF ShapeOf
  <2>2. \A j \in 1..n : r[o[j]].tag # "skip"
    BY <1>7 DEF ShapeOf
  <2>3. x \in 1..k /\ x - 1 \in 1..k /\ k \in (x + 1)..k /\ r[o[x - 1]].tag = "list"
    BY <1>1, <2>1 DEF LiAt
  <2>4. CASE t \in {"p", "li", "caption", "cell", "span", "main"}
    <3>1. l.modes[k + 1] = "item"
      BY <1>1, <1>7, <2>4 DEF ModeIn, Contents
    <3>2. \A j \in 1..k : r[o[j]].tag # "skip"
      BY <1>1, <1>2, <2>2, <2>4
    <3>3. QED
      BY <1>1, <2>1, <2>3, <3>1, <3>2 DEF ShapeOf
  <2>5. CASE t = "skip"
    <3>1. l.modes[k + 1] = "lost"
      BY <1>1, <1>7, <2>5 DEF ModeIn, Contents
    <3>2. (\E j \in 1..k : r[o[j]].tag = "skip") /\ \E j \in 1..k : r[o[j]].tag \in Boxes
      BY <1>1, <2>3, <2>5 DEF Boxes
    <3>3. QED
      BY <1>1, <3>1, <3>2 DEF ShapeOf
  <2>6. CASE t \in {"h", "pre", "quote", "list", "table"}
    <3>1. l.modes[k + 1] = "lost"
      BY <1>1, <1>7, <2>6 DEF ModeIn, Contents
    <3>2. \E b \in (x + 1)..k : r[o[b]].tag \in Structural
      BY <1>1, <2>3, <2>6 DEF Structural
    <3>3. QED
      BY <1>1, <2>1, <2>3, <3>1, <3>2 DEF ShapeOf
  <2>7. QED
    BY <1>4, <2>4, <2>5, <2>6
<1>8. CASE l.modes[n + 1] = "text"
  <2>1. PICK j \in 1..n : r[o[j]].tag \in {"h", "pre", "quote", "table"}
    BY <1>8 DEF ShapeOf
  <2>2. CASE t = "skip"
    <3>1. l.modes[k + 1] = "lost"
      BY <1>1, <1>8, <2>2 DEF ModeIn
    <3>2. (\E i \in 1..k : r[o[i]].tag = "skip") /\ \E i \in 1..k : r[o[i]].tag \in Boxes
      BY <1>1, <1>3, <2>1, <2>2 DEF Boxes
    <3>3. QED
      BY <1>1, <3>1, <3>2 DEF ShapeOf
  <2>3. CASE t # "skip"
    <3>1. l.modes[k + 1] = "text"
      BY <1>1, <1>8, <2>3 DEF ModeIn
    <3>2. QED
      BY <1>1, <1>3, <2>1, <3>1 DEF ShapeOf
  <2>4. QED
    BY <2>2, <2>3
<1>9. CASE l.modes[n + 1] = "list"
  <2>1. n > 0 /\ r[o[n]].tag = "list" /\ Plain(r, o, n - 1)
    BY <1>9 DEF ShapeOf
  <2>2. k > 1 /\ k - 2 = n - 1 /\ \A j \in 1..k : j \in 1..(n - 1) \/ j = n \/ j = k
    BY <1>1, <2>1
  <2>3. CASE t = "li"
    <3>1. l.modes[k + 1] = "item"
      BY <1>1, <1>9, <2>3 DEF ModeIn
    <3>2. LiAt(r, o, l.modes, k)
      BY <1>1, <1>9, <2>1, <2>2, <2>3, <3>1 DEF LiAt
    <3>3. \A j \in 1..k : r[o[j]].tag # "skip"
      BY <1>1, <2>1, <2>2, <2>3 DEF Plain
    <3>4. QED
      BY <1>1, <3>1, <3>2, <3>3 DEF ShapeOf
  <2>4. CASE t # "li"
    <3>1. l.modes[k + 1] = "lost"
      BY <1>1, <1>9, <2>4 DEF ModeIn
    <3>2. n \in 1..(k - 1) /\ ListAt(r, o, n)
      BY <1>1, <2>1, <2>4 DEF ListAt
    <3>3. QED
      BY <1>1, <3>1, <3>2 DEF ShapeOf
  <2>5. QED
    BY <2>3, <2>4
<1>10. CASE l.modes[n + 1] = "rows"
  <2>1. PICK y \in 1..n : r[o[y]].tag = "table" /\ Plain(r, o, y - 1) /\ (y < n => r[o[y + 1]].tag = "caption")
    BY <1>10 DEF ShapeOf
  <2>2. CASE t = "cell"
    <3>1. l.modes[k + 1] = "text"
      BY <1>1, <1>10, <2>2 DEF ModeIn
    <3>2. QED
      BY <1>1, <1>3, <2>1, <3>1 DEF ShapeOf
  <2>3. CASE t # "cell"
    <3>1. l.modes[k + 1] = "rows"
      BY <1>1, <1>10, <2>3 DEF ModeIn
    <3>2. r[o[y + 1]].tag = "caption"
      <4>1. CASE y = n
        BY <2>1, <2>3, <4>1
      <4>2. CASE y < n
        BY <2>1, <4>2
      <4>3. QED
        BY <4>1, <4>2
    <3>3. QED
      BY <1>1, <1>3, <2>1, <3>1, <3>2 DEF ShapeOf
  <2>4. QED
    BY <2>2, <2>3
<1>11. CASE l.modes[n + 1] = "lost"
  <2>1. l.modes[k + 1] = "lost"
    BY <1>1, <1>11 DEF ModeIn
  <2>2. /\ \A x \in 1..n : \A b \in (x + 1)..n : b \in (x + 1)..k
        /\ \A x \in 1..(n - 1) : x \in 1..(k - 1)
    BY <1>1
  <2>3. QED
    BY <1>1, <1>3, <1>11, <2>1, <2>2 DEF ShapeOf
<1>12. QED
  BY <1>5, <1>6, <1>7, <1>8, <1>9, <1>10, <1>11 DEF Modes

\* Token x is read inside of the elements o that are open.
At(s, o, x) ==
    /\ s[x].inside = o /\ Inside(s, x) = {o[j] : j \in DOMAIN o}
    /\ Len(o) \in Nat /\ DOMAIN o = 1..Len(o)
    /\ \A j \in DOMAIN o : o[j] \in Nat
    /\ \A j, k \in DOMAIN o : j < k => o[j] < o[k]

\* What token x is read amid are the elements that are open.
LEMMA AmidAt ==
    ASSUME NEW s, NEW o, NEW x, At(s, o, x), NEW tags
    PROVE  Amid(s, x, tags) <=> \E j \in DOMAIN o : s[o[j]].tag \in tags
  BY DEF At, Amid

\* In the list item of the page that is open it is in no other, and in no text of its own.
LEMMA LiFirst ==
    ASSUME NEW s, NEW o, NEW x, At(s, o, x), NEW j \in DOMAIN o, j > 1,
           s[o[j]].tag = "li", s[o[j - 1]].tag = "list", Plain(s, o, j - 2)
    PROVE  FirstLi(s, o[j], x)
<1>1. Len(o) \in Nat /\ DOMAIN o = 1..Len(o) /\ j \in Nat /\ \A k \in DOMAIN o : o[k] \in Nat
  BY DEF At
<1>2. ASSUME NEW k \in DOMAIN o, s[o[k]].tag \in Verbal \cup {"li"} PROVE o[j] <= o[k]
  <2>1. k \notin 1..(j - 2)
    BY <1>2 DEF Plain, Verbal
  <2>2. k # j - 1
    BY <1>2 DEF Verbal
  <2>3. k = j \/ j < k
    BY <1>1, <2>1, <2>2
  <2>4. CASE k = j
    BY <1>1, <2>4
  <2>5. CASE j < k
    <3>1. o[j] < o[k] /\ o[j] \in Nat /\ o[k] \in Nat
      BY <1>1, <2>5 DEF At
    <3>2. QED
      BY <3>1
  <2>6. QED
    BY <2>3, <2>4, <2>5
<1>3. Inside(s, x) = {o[k] : k \in DOMAIN o}
  BY DEF At
<1>4. QED
  BY <1>2, <1>3 DEF FirstLi

\* In a list of the page, right there or in an element of it that is no item, it is in no
\* item of it.
LEMMA ListAround ==
    ASSUME NEW s, NEW o, NEW x, At(s, o, x), NEW n \in Nat, n = Len(o), NEW y \in 1..n,
           s[o[y]].tag = "list", Plain(s, o, y - 1), y < n => s[o[y + 1]].tag # "li"
    PROVE  Listed(s, x)
<1>1. /\ DOMAIN o = 1..n /\ Inside(s, x) = {o[j] : j \in 1..n}
      /\ \A j \in 1..n : o[j] \in Nat
      /\ \A j, k \in 1..n : j < k => o[j] < o[k]
  BY DEF At
<1>2. ASSUME NEW j \in 1..n, o[j] < o[y] PROVE s[o[j]].tag \notin {"h", "pre", "quote", "table"}
  <2>1. j \in 1..(y - 1)
    <3>1. CASE j < y
      BY <3>1
    <3>2. CASE j = y
      BY <1>1, <1>2, <3>2
    <3>3. CASE y < j
      <4>1. o[y] < o[j] /\ o[y] \in Nat /\ o[j] \in Nat
        BY <1>1, <3>3
      <4>2. QED
        BY <1>2, <4>1
    <3>4. QED
      BY <3>1, <3>2, <3>3
  <2>2. QED
    BY <2>1 DEF Plain
<1>3. ASSUME NEW j \in 1..n, s[o[j]].tag = "li" PROVE \E d \in Inside(s, x) : o[y] < d /\ d < o[j]
  <2>1. j \notin 1..(y - 1) /\ j # y
    BY <1>3 DEF Plain
  <2>2. y < n /\ j # y + 1
    BY <1>3, <2>1
  <2>3. y + 1 \in 1..n /\ y < y + 1 /\ y + 1 < j
    BY <2>1, <2>2
  <2>4. o[y] < o[y + 1] /\ o[y + 1] < o[j] /\ o[y + 1] \in Inside(s, x)
    BY <1>1, <2>3
  <2>5. QED
    BY <2>4
<1>4. o[y] \in Inside(s, x)
  BY <1>1
<1>5. \A d \in Inside(s, x) : d < o[y] => s[d].tag \notin {"h", "pre", "quote", "table"}
  BY <1>1, <1>2
<1>6. \A c \in Inside(s, x) : s[c].tag = "li" => \E d \in Inside(s, x) : o[y] < d /\ d < c
  BY <1>1, <1>3
<1>7. QED
  BY <1>4, <1>5, <1>6 DEF Listed

\* What is read where nothing is kept is dropped.
LEMMA Misses ==
    ASSUME NEW s, NEW o, NEW x, At(s, o, x), NEW l, ShapeOf(s, o, l, Len(o)), NEW mode \in Modes,
           mode = l.modes[Len(o) + 1],
           \/ mode \in {"outside", "lost", "list"}
           \/ mode = "rows" /\ s[o[Len(o)]].tag # "table"
           \/ mode \in {"item", "text", "rows"} /\ s[x].tag = "image"
    PROVE  HtmlDrops(s, l.hasMain, l.dropped, x)
<1>1. /\ Len(o) \in Nat /\ DOMAIN o = 1..Len(o) /\ Inside(s, x) = {o[j] : j \in DOMAIN o}
      /\ \A j \in DOMAIN o : o[j] \in Nat
      /\ \A j, k \in DOMAIN o : j < k => o[j] < o[k]
      /\ s[x].inside = o
  BY DEF At
<1>2. PICK n \in Nat : n = Len(o) /\ DOMAIN o = 1..n
  BY <1>1
<1>3. \A tags : Amid(s, x, tags) <=> \E j \in 1..n : s[o[j]].tag \in tags
  BY <1>2, AmidAt
<1>4. ShapeOf(s, o, l, n) /\ l.modes[n + 1] = mode
  BY <1>2
<1>5. ASSUME NEW y \in 1..n, LiAt(s, o, l.modes, y) PROVE FirstLi(s, o[y], x) /\ Amid(s, x, {"list"}) /\ Amid(s, x, Boxes)
  <2>1. y > 1 /\ s[o[y]].tag = "li" /\ s[o[y - 1]].tag = "list" /\ Plain(s, o, y - 2) /\ y \in DOMAIN o
    BY <1>2, <1>5 DEF LiAt
  <2>2. y - 1 \in 1..n
    BY <2>1
  <2>3. QED
    BY <1>3, <2>1, <2>2, LiFirst DEF Boxes
<1>6. CASE mode = "outside"
  <2>1. l.hasMain /\ ~Amid(s, x, {"main"})
    BY <1>3, <1>4, <1>6 DEF ShapeOf
  <2>2. QED
    BY <2>1 DEF HtmlDrops
<1>7. CASE mode = "list"
  <2>1. n > 0 /\ s[o[n]].tag = "list" /\ Plain(s, o, n - 1)
    BY <1>4, <1>7 DEF ShapeOf
  <2>2. Listed(s, x)
    BY <1>2, <2>1, ListAround
  <2>3. QED
    BY <2>2 DEF HtmlDrops
<1>8. CASE mode = "lost"
  <2>1. CASE (\E j \in 1..n : s[o[j]].tag = "skip") /\ (l.dropped > 0 \/ \E j \in 1..n : s[o[j]].tag \in Boxes)
    <3>1. Amid(s, x, {"skip"}) /\ (l.dropped > 0 \/ Amid(s, x, Boxes))
      BY <1>3, <2>1
    <3>2. QED
      BY <3>1 DEF HtmlDrops
  <2>2. CASE \E y \in 1..n : LiAt(s, o, l.modes, y) /\ \E b \in (y + 1)..n : s[o[b]].tag \in Structural
    <3>1. PICK y \in 1..n : LiAt(s, o, l.modes, y) /\ \E b \in (y + 1)..n : s[o[b]].tag \in Structural
      BY <2>2
    <3>2. PICK b \in (y + 1)..n : s[o[b]].tag \in Structural
      BY <3>1
    <3>3. b \in DOMAIN o /\ y \in DOMAIN o /\ y < b
      BY <1>2
    <3>4. o[b] \in Inside(s, x) /\ o[y] < o[b] /\ o[y] \in Nat /\ o[b] \in Nat
      BY <1>1, <3>3
    <3>5. o[b] > o[y] /\ s[o[b]].tag \in Breaks
      BY <3>2, <3>4 DEF Breaks
    <3>6. Broken(s, x)
      BY <1>5, <3>1, <3>4, <3>5 DEF Broken
    <3>7. QED
      BY <3>6 DEF HtmlDrops
  <2>4. CASE \E y \in 1..(n - 1) : ListAt(s, o, y)
    <3>1. Listed(s, x)
      BY <1>2, <2>4, ListAround DEF ListAt
    <3>2. QED
      BY <3>1 DEF HtmlDrops
  <2>3. QED
    BY <1>4, <1>8, <2>1, <2>2, <2>4 DEF ShapeOf
<1>9. CASE mode = "rows"
  <2>1. PICK t \in 1..n : s[o[t]].tag = "table" /\ Plain(s, o, t - 1) /\ (t < n => s[o[t + 1]].tag = "caption")
    BY <1>4, <1>9 DEF ShapeOf
  <2>2. CASE s[x].tag = "image"
    <3>1. Amid(s, x, Boxes)
      BY <1>3, <2>1 DEF Boxes
    <3>2. QED
      BY <2>2, <3>1 DEF HtmlDrops
  <2>3. CASE s[o[n]].tag # "table"
    <3>1. t < n /\ t + 1 \in 1..n /\ s[o[t + 1]].tag = "caption"
      BY <2>1, <2>3
    <3>2. ASSUME NEW v \in 1..n, s[o[v]].tag \in Verbal PROVE o[t + 1] < o[v]
      <4>1. v \notin 1..(t - 1)
        BY <2>1, <3>2 DEF Plain, Verbal
      <4>2. v # t /\ v # t + 1
        BY <2>1, <3>1, <3>2 DEF Verbal
      <4>3. t + 1 < v
        BY <4>1, <4>2
      <4>4. QED
        BY <1>1, <1>2, <3>1, <4>3
    <3>3. o[t + 1] \in Inside(s, x)
      BY <1>1, <1>2, <3>1
    <3>4. Captioned(s, x)
      BY <1>1, <1>2, <3>1, <3>2, <3>3 DEF Captioned
    <3>5. QED
      BY <3>4 DEF HtmlDrops
  <2>4. QED
    BY <1>2, <1>9, <2>2, <2>3
<1>10. CASE mode = "text" /\ s[x].tag = "image"
  <2>1. Amid(s, x, Boxes)
    BY <1>3, <1>4, <1>10 DEF ShapeOf, Boxes
  <2>2. QED
    BY <1>10, <2>1 DEF HtmlDrops
<1>11. CASE mode = "item" /\ s[x].tag = "image"
  <2>1. PICK y \in 1..n : LiAt(s, o, l.modes, y)
    BY <1>4, <1>11 DEF ShapeOf
  <2>2. QED
    BY <1>5, <1>11, <2>1 DEF HtmlDrops
<1>12. QED
  BY <1>6, <1>7, <1>8, <1>9, <1>10, <1>11

\* A list item is the first around a word whatever is read later.
LEMMA FirstLiGrows ==
    ASSUME NEW r, NEW s, Grows(r, s), Rooted(r), NEW i \in DOMAIN r, NEW e, FirstLi(r, e, i)
    PROVE  FirstLi(s, e, i)
<1>1. Inside(s, i) = Inside(r, i) /\ \A d \in Inside(r, i) : s[d] = r[d]
  BY DEF Grows, Inside, Rooted
<1>2. QED
  BY <1>1 DEF FirstLi

\* The words of the item stay, or go,
LEMMA ItemsStay ==
    ASSUME NEW r, NEW s, Grows(r, s), Rooted(r), NEW o, NEW l, ItemsOf(r, o, l), NEW m, m.modes = l.modes,
           \/ m.item = <<>>
           \/ m.item = l.item /\ \A i : In(l.item, i) /\ Among(l.modes, {"item"}) => i \in DOMAIN r,
           Len(o) \in Nat, DOMAIN o = 1..Len(o), DOMAIN l.modes = 1..(Len(o) + 1)
    PROVE  ItemsOf(s, o, m)
<1>1. CASE m.item = <<>>
  BY <1>1, InNothing DEF ItemsOf
<1>2. CASE m.item = l.item /\ \A i : In(l.item, i) /\ Among(l.modes, {"item"}) => i \in DOMAIN r
  <2>1. ASSUME NEW j \in DOMAIN o, l.modes[j] = "list", l.modes[j + 1] = "item", NEW i, In(l.item, i)
        PROVE  FirstLi(s, o[j], i)
    <3>1. j + 1 \in DOMAIN l.modes
      OBVIOUS
    <3>2. i \in DOMAIN r
      BY <1>2, <2>1, <3>1 DEF Among
    <3>3. FirstLi(r, o[j], i)
      BY <2>1, <3>2 DEF ItemsOf
    <3>4. QED
      BY <3>2, <3>3, FirstLiGrows
  <2>2. QED
    BY <1>2, <2>1 DEF ItemsOf
<1>3. QED
  BY <1>1, <1>2

\* or are one more.
LEMMA ItemsMore ==
    ASSUME NEW r, NEW s, Grows(r, s), Rooted(r), NEW o, NEW l, ItemsOf(r, o, l), NEW m, m.modes = l.modes,
           l.item \in Seq(Nat), NEW x \in Nat, m.item = Append(l.item, x), At(s, o, x),
           \A i : In(l.item, i) => i \in DOMAIN r,
           Steps(s, o, l.modes), \A k \in 0..Len(o) : ShapeOf(s, o, l, k)
    PROVE  ItemsOf(s, o, m)
<1>1. Len(o) \in Nat /\ DOMAIN o = 1..Len(o)
  BY DEF At
<1>2. ASSUME NEW j \in DOMAIN o, l.modes[j] = "list", l.modes[j + 1] = "item", NEW i, In(m.item, i)
      PROVE  FirstLi(s, o[j], i)
  <2>1. CASE In(l.item, i)
    <3>1. i \in DOMAIN r /\ FirstLi(r, o[j], i)
      BY <1>2, <2>1 DEF ItemsOf
    <3>2. QED
      BY <3>1, FirstLiGrows
  <2>2. CASE i = x
    <3>1. s[o[j]].tag = "li"
      <4>1. ModeIn("list", s[o[j]].tag) = "item"
        BY <1>2 DEF Steps
      <4>2. QED
        BY <4>1 DEF ModeIn
    <3>2. PICK k \in 0..Len(o) : k = j - 1 /\ k + 1 = j /\ k - 1 = j - 2
      <4>1. j \in 1..Len(o) /\ Len(o) \in Nat
        BY <1>1
      <4>2. j - 1 \in 0..Len(o) /\ j - 1 + 1 = j /\ j - 1 - 1 = j - 2
        BY ONLY <4>1
      <4>3. QED
        BY <4>2
    <3>3. k > 0 /\ s[o[k]].tag = "list" /\ Plain(s, o, k - 1)
      BY <1>2, <3>2 DEF ShapeOf
    <3>4. j > 1 /\ s[o[j - 1]].tag = "list" /\ Plain(s, o, j - 2)
      BY <1>1, <3>2, <3>3
    <3>5. QED
      BY <2>2, <3>1, <3>4, LiFirst
  <2>3. QED
    BY <1>2, <2>1, <2>2, InAppend
<1>3. QED
  BY <1>2 DEF ItemsOf

\* Another token is read inside of the elements that are open.
Reads(r, s, o) ==
    /\ Grows(r, s) /\ Rooted(r) /\ Len(r) \in Nat /\ Len(s) = Len(r) + 1
    /\ DOMAIN r = 1..Len(r) /\ DOMAIN s = 1..Len(s)
    /\ At(s, o, Len(s)) /\ (\A k \in DOMAIN o : o[k] \in DOMAIN r)
    /\ s[Len(s)].tag \in HtmlTokens \cup {"title"}

\* One more token, in the elements that are open, is in all of them;
LEMMA CoversMore ==
    ASSUME NEW r, NEW s, NEW o, Reads(r, s, o), Covers(r, o)
    PROVE  Covers(s, o)
<1>1. ASSUME NEW k \in DOMAIN o, NEW i \in DOMAIN s, o[k] < i PROVE o[k] \in Inside(s, i)
  <2>1. CASE i \in DOMAIN r
    <3>1. Inside(s, i) = Inside(r, i)
      BY <2>1 DEF Reads, Grows, Inside
    <3>2. QED
      BY <1>1, <2>1, <3>1 DEF Covers
  <2>2. CASE i = Len(s)
    BY <2>2 DEF Reads, At
  <2>3. QED
    BY <2>1, <2>2 DEF Reads
<1>2. ASSUME NEW i \in DOMAIN s PROVE s[i].tag \in HtmlTokens \cup {"title"}
  <2>1. CASE i \in DOMAIN r
    BY <2>1 DEF Covers, Reads, Grows
  <2>2. CASE i = Len(s)
    BY <2>2 DEF Reads
  <2>3. QED
    BY <2>1, <2>2 DEF Reads
<1>3. \A j, k \in DOMAIN o : j < k => o[j] < o[k]
  BY DEF Covers
<1>4. QED
  BY <1>1, <1>2, <1>3 DEF Covers

\* they are read as they were,
LEMMA StepsMore ==
    ASSUME NEW r, NEW s, NEW o, Reads(r, s, o), NEW ms, Steps(r, o, ms)
    PROVE  Steps(s, o, ms)
  BY DEF Steps, Reads, Grows

\* for the reasons they were.
LEMMA ShapesMore ==
    ASSUME NEW r, NEW s, NEW o, Reads(r, s, o), NEW l, l.dropped \in Nat, \A k \in 0..Len(o) : ShapeOf(r, o, l, k)
    PROVE  \A k \in 0..Len(o) : ShapeOf(s, o, l, k)
<1>1. Len(o) \in Nat /\ DOMAIN o = 1..Len(o) /\ \A k \in DOMAIN o : s[o[k]] = r[o[k]]
  BY DEF Reads, Grows, At
<1>2. ASSUME NEW k \in 0..Len(o) PROVE ShapeOf(s, o, l, k)
  <2>1. k \in Nat /\ (\A j \in 1..k : s[o[j]] = r[o[j]]) /\ l.dropped <= l.dropped
    BY <1>1
  <2>2. QED
    BY <2>1, ShapeSame
<1>3. QED
  BY <1>2

\* It opens no element.
LEMMA HtmlStays ==
    ASSUME NEW r, NEW s, NEW o, Reads(r, s, o), NEW l, HtmlPlaced(r, o, l),
           NEW m, m.modes = l.modes, m.hasMain = l.hasMain, m.dropped = l.dropped, m.rows = l.rows,
           RowsOf(m), ItemsOf(s, o, m)
    PROVE  HtmlPlaced(s, o, m)
<1>1. Covers(s, o) /\ Steps(s, o, m.modes)
  BY CoversMore, StepsMore DEF HtmlPlaced
<1>2. \A k \in 0..Len(o) : ShapeOf(s, o, l, k)
  BY ShapesMore DEF HtmlPlaced
<1>3. \A k \in 0..Len(o) : ShapeOf(s, o, m, k)
  BY <1>2 DEF ShapeOf
<1>4. QED
  BY <1>1, <1>3 DEF HtmlPlaced

\* It opens one.
LEMMA HtmlOpens ==
    ASSUME NEW r, NEW s, NEW o, Reads(r, s, o), NEW u, Opens(r, s, o, u), NEW l, HtmlPlaced(r, o, l),
           NEW n \in Nat, n = Len(o), NEW t, s[Len(s)].tag = t,
           l.modes[n + 1] \in Modes, DOMAIN l.modes = 1..(n + 1),
           NEW m, \A k \in 1..(n + 1) : m.modes[k] = l.modes[k],
           m.modes[n + 2] = ModeIn(l.modes[n + 1], t),
           m.hasMain = l.hasMain, m.dropped \in Nat, l.dropped <= m.dropped, m.rows \in Nat,
           t \in Structural \cup {"li", "caption", "cell", "span", "skip", "main"},
           n > 0 /\ r[o[n]].tag = "table" => t \in {"caption", "cell"},
           t = "li" => n > 0 /\ r[o[n]].tag = "list",
           t \in {"caption", "cell"} => n > 0 /\ r[o[n]].tag = "table",
           t = "main" => n = 0,
           l.modes[n + 1] = "page" /\ t = "skip" => m.dropped > 0,
           RowsOf(m), ItemsOf(s, u, m)
    PROVE  HtmlPlaced(s, u, m)
<1>1. /\ DOMAIN o = 1..n /\ DOMAIN u = 1..(n + 1) /\ Len(u) = n + 1
      /\ \A k \in 1..n : u[k] = o[k] /\ s[o[k]] = r[o[k]] /\ o[k] \in DOMAIN r
      /\ u[n + 1] = Len(s) /\ Len(r) \in Nat /\ Len(s) = Len(r) + 1
      /\ DOMAIN r = 1..Len(r) /\ DOMAIN s = 1..Len(s)
  BY DEF Opens, Reads, Grows
<1>2. Covers(s, o)
  BY CoversMore DEF HtmlPlaced
<1>3. Covers(s, u)
  <2>1. ASSUME NEW k \in DOMAIN u, NEW i \in DOMAIN s, u[k] < i PROVE u[k] \in Inside(s, i)
    <3>1. CASE k \in 1..n
      BY <1>1, <1>2, <2>1, <3>1 DEF Covers
    <3>2. CASE k = n + 1
      BY <1>1, <2>1, <3>2
    <3>3. QED
      BY <1>1, <3>1, <3>2
  <2>2. ASSUME NEW j \in DOMAIN u, NEW k \in DOMAIN u, j < k PROVE u[j] < u[k]
    <3>1. j \in 1..n
      BY <1>1, <2>2
    <3>2. CASE k \in 1..n
      BY <1>1, <1>2, <2>2, <3>1, <3>2 DEF Covers
    <3>3. CASE k = n + 1
      <4>1. PICK y \in 1..Len(r) : y = u[j]
        BY <1>1, <3>1
      <4>2. QED
        BY <1>1, <3>3, <4>1
    <3>4. QED
      BY <1>1, <3>2, <3>3
  <2>3. \A i \in DOMAIN s : s[i].tag \in HtmlTokens \cup {"title"}
    BY <1>2 DEF Covers
  <2>4. QED
    BY <2>1, <2>2, <2>3 DEF Covers
<1>4. Steps(s, u, m.modes)
  <2>1. ASSUME NEW k \in DOMAIN u PROVE m.modes[k + 1] = ModeIn(m.modes[k], s[u[k]].tag)
    <3>1. CASE k \in 1..n
      <4>1. l.modes[k + 1] = ModeIn(l.modes[k], r[o[k]].tag)
        BY <1>1, <3>1 DEF HtmlPlaced, Steps
      <4>2. k \in 1..(n + 1) /\ k + 1 \in 1..(n + 1)
        BY <3>1
      <4>3. QED
        BY <1>1, <3>1, <4>1, <4>2
    <3>2. CASE k = n + 1
      <4>1. k + 1 = n + 2 /\ k \in 1..(n + 1)
        BY <3>2
      <4>2. QED
        BY <1>1, <3>2, <4>1
    <3>3. QED
      BY <1>1, <3>1, <3>2
  <2>2. QED
    BY <2>1 DEF Steps
<1>5. ASSUME NEW k \in 0..n PROVE ShapeOf(s, u, m, k)
  <2>1. k \in Nat /\ ShapeOf(r, o, l, k) /\ l.dropped \in Nat
    BY <1>5 DEF HtmlPlaced
  <2>2. (\A j \in 1..k : s[u[j]] = r[o[j]]) /\ (\A j \in 1..(k + 1) : m.modes[j] = l.modes[j])
    BY <1>1, <1>5
  <2>3. QED
    BY <2>1, <2>2, ShapeSame
<1>6. ShapeOf(s, u, m, n + 1)
  <2>1. /\ ShapeOf(s, u, m, n) /\ s[u[n + 1]].tag = t /\ m.modes[n + 1] = l.modes[n + 1]
        /\ (n > 0 => n \in 1..n /\ s[u[n]] = r[o[n]])
    BY <1>1, <1>5
  <2>2. m.modes[n + 1] \in Modes /\ m.modes[n + 2] = ModeIn(m.modes[n + 1], t)
    BY <2>1
  <2>3. /\ n > 0 /\ s[u[n]].tag = "table" => t \in {"caption", "cell"}
        /\ t = "li" => n > 0 /\ s[u[n]].tag = "list"
        /\ t \in {"caption", "cell"} => n > 0 /\ s[u[n]].tag = "table"
        /\ m.modes[n + 1] = "page" /\ t = "skip" => m.dropped > 0
    BY <2>1
  <2>4. QED
    BY <2>1, <2>2, <2>3, ShapeDeeper
<1>7. \A k \in 0..Len(u) : ShapeOf(s, u, m, k)
  <2>1. \A k \in 0..Len(u) : k \in 0..n \/ k = n + 1
    BY <1>1
  <2>2. QED
    BY <1>5, <1>6, <2>1
<1>8. QED
  BY <1>3, <1>4, <1>7 DEF HtmlPlaced

\* The last one that was opened is over.
LEMMA HtmlCloses ==
    ASSUME NEW r, NEW o, NEW n \in Nat \ {0}, n = Len(o), DOMAIN o = 1..n, NEW p, Shorter(p, o),
           NEW l, HtmlPlaced(r, o, l), NEW m, \A k \in 1..n : m.modes[k] = l.modes[k],
           m.hasMain = l.hasMain, m.dropped = l.dropped, m.rows \in Nat, RowsOf(m), ItemsOf(r, p, m)
    PROVE  HtmlPlaced(r, p, m)
<1>1. Len(p) = n - 1 /\ DOMAIN p = 1..(n - 1) /\ \A k \in 1..(n - 1) : p[k] = o[k] /\ k \in DOMAIN o
  BY DEF Shorter
<1>2. Covers(r, p)
  BY <1>1 DEF HtmlPlaced, Covers
<1>3. Steps(r, p, m.modes)
  <2>1. ASSUME NEW k \in DOMAIN p PROVE m.modes[k + 1] = ModeIn(m.modes[k], r[p[k]].tag)
    <3>1. k \in 1..n /\ k + 1 \in 1..n
      BY <1>1
    <3>2. QED
      BY <1>1, <3>1 DEF HtmlPlaced, Steps
  <2>2. QED
    BY <2>1 DEF Steps
<1>4. ASSUME NEW k \in 0..Len(p) PROVE ShapeOf(r, p, m, k)
  <2>1. k \in Nat /\ k \in 0..Len(o) /\ (\A j \in 1..k : j \in 1..(n - 1)) /\ (\A j \in 1..(k + 1) : j \in 1..n)
    BY <1>1
  <2>2. ShapeOf(r, o, l, k) /\ l.dropped \in Nat /\ l.dropped <= m.dropped /\ m.dropped \in Nat
    BY <2>1 DEF HtmlPlaced
  <2>3. (\A j \in 1..k : r[p[j]] = r[o[j]]) /\ (\A j \in 1..(k + 1) : m.modes[j] = l.modes[j])
    BY <1>1, <2>1
  <2>4. QED
    BY <2>1, <2>2, <2>3, ShapeSame
<1>5. QED
  BY <1>2, <1>3, <1>4 DEF HtmlPlaced

\* What is said stays said; what is gathered stays gathered, is said, or is dropped.
Carries(s, bs, l, cs, m, i) ==
    /\ Says(bs, i) \/ In(l.inline, i) => Says(cs, i) \/ In(m.inline, i)
    /\ In(l.text, i) /\ Among(l.modes, Texting) => Says(cs, i) \/ (In(m.text, i) /\ Among(m.modes, Texting))
    /\ In(l.item, i) /\ Among(l.modes, {"item"})
          => \/ In(m.item, i) /\ Among(m.modes, {"item"})
             \/ In(m.text, i) /\ Among(m.modes, Texting)
             \/ HtmlDrops(s, m.hasMain, m.dropped, i)

\* Tokens stay found if their words move on, and what is new is found.
LEMMA HtmlFindsMore ==
    ASSUME NEW r, NEW s, Grows(r, s), Rooted(r), NEW bs, NEW cs, NEW l, NEW m, HtmlFinds(r, bs, l),
           l.dropped \in Nat, m.dropped \in Nat, l.dropped <= m.dropped, m.hasMain = l.hasMain,
           \A i \in DOMAIN r : r[i].tag \in Silent \/ Carries(s, bs, l, cs, m, i),
           \A i \in DOMAIN s : i \in DOMAIN r \/ HtmlFound(s, cs, m, i)
    PROVE  HtmlFinds(s, cs, m)
<1>1. ASSUME NEW i \in DOMAIN r PROVE HtmlFound(s, cs, m, i)
  <2>1. s[i] = r[i] /\ HtmlFound(r, bs, l, i)
    BY DEF Grows, HtmlFinds
  <2>2. HtmlDrops(r, l.hasMain, l.dropped, i) => HtmlDrops(s, m.hasMain, m.dropped, i)
    BY HtmlDropsGrows
  <2>3. CASE r[i].tag \in Silent
    BY <2>1, <2>3 DEF HtmlFound
  <2>4. CASE Carries(s, bs, l, cs, m, i)
    BY <2>1, <2>2, <2>4 DEF HtmlFound, Carries
  <2>5. QED
    BY <2>3, <2>4
<1>2. QED
  BY <1>1 DEF HtmlFinds

\* What the invariants say of what is read of a page.
LEMMA HtmlLossFacts ==
    ASSUME HtmlInv, HtmlLoss, format = "html", Reading
    PROVE  /\ HtmlPlaced(read, open, local) /\ HtmlFinds(read, blocks, local) /\ Rooted(read)
           /\ local.inline \in Seq(Nat) /\ blocks \in Seq(BlockRec)
           /\ Among(local.modes, Gathers) => local.text \in Seq(Nat)
           /\ Among(local.modes, {"item"}) => local.item \in Seq(Nat)
           /\ \A i : In(local.item, i) /\ Among(local.modes, {"item"}) => i \in DOMAIN read
           /\ Nested(read, open, local.modes)
<1>1. HtmlPlaced(read, open, local) /\ HtmlFinds(read, blocks, local)
  BY DEF HtmlLoss
<1>2. HtmlOK(read, open, local, blocks) /\ blocks \in Seq(BlockRec)
  BY HtmlFacts
<1>3. Rooted(read) /\ DOMAIN read = 1..Len(read)
  BY FormFacts DEF HtmlInv, Form
<1>4. Among(local.modes, {"item"}) => local.item \in Seq(Nat) /\ Upto(Len(read), local.item)
  BY <1>2 DEF HtmlOK, ItemOK, Pending
<1>5. \A i : In(local.item, i) /\ Among(local.modes, {"item"}) => i \in DOMAIN read
  BY <1>3, <1>4 DEF In, Upto
<1>6. local.inline \in Seq(Nat) /\ (Among(local.modes, Gathers) => local.text \in Seq(Nat))
  BY <1>2 DEF HtmlOK, TextOK, Pending
<1>7. QED
  BY <1>1, <1>2, <1>3, <1>4, <1>5, <1>6 DEF HtmlOK

\* A token is read.
LEMMA HtmlReads ==
    ASSUME HtmlInv, HtmlLoss, format = "html", Reading, NEW token, Write(token), token.tag \in HtmlTokens,
           open' = open \/ Enter, UNCHANGED <<format, vocabulary>>
    PROVE  /\ Reads(read, read', open) /\ Here \in Nat /\ Here = Len(read) + 1 /\ Len(read') = Here
           /\ read'[Here].tag = token.tag /\ read'[Here].arg = token.arg
           /\ \A i \in DOMAIN read' : i \in DOMAIN read \/ i = Here
<1>1. format \in Five /\ token.tag # "title"
  BY DEF Five, HtmlTokens, Structural
<1>2. /\ Form' /\ Grows(read, read') /\ Here \in Nat /\ Here = Len(read) + 1 /\ Len(read') = Here
      /\ read'[Here] = [tag |-> token.tag, arg |-> token.arg, inside |-> open]
      /\ Inside(read', Here) = {open[j] : j \in DOMAIN open}
  BY <1>1, WriteForm DEF HtmlInv
<1>3. read'[Here].tag = token.tag /\ read'[Here].arg = token.arg /\ read'[Here].inside = open
  BY <1>2
<1>4. /\ Len(open) \in Nat /\ DOMAIN open = 1..Len(open) /\ open \in Seq(Nat)
      /\ \A j \in DOMAIN open : open[j] \in DOMAIN read
      /\ Len(read) \in Nat /\ DOMAIN read = 1..Len(read) /\ Rooted(read)
  BY FormFacts DEF HtmlInv, Form
<1>5. \A j \in DOMAIN open : open[j] \in Nat
  BY <1>4
<1>6. Covers(read, open)
  BY HtmlLossFacts DEF HtmlPlaced
<1>7. At(read', open, Here)
  BY <1>2, <1>3, <1>4, <1>5, <1>6 DEF At, Covers
<1>8. DOMAIN read' = 1..Len(read')
  BY <1>2 DEF Grows
<1>9. \A i \in DOMAIN read' : i \in DOMAIN read \/ i = Here
  BY <1>2, <1>4, <1>8
<1>10. Reads(read, read', open)
  BY <1>2, <1>3, <1>4, <1>7, <1>8 DEF Reads
<1>11. QED
  BY <1>2, <1>3, <1>9, <1>10

\* What is read where nothing is kept is dropped.
LEMMA HtmlMisses ==
    ASSUME HtmlInv, HtmlLoss, format = "html", Reading, Reads(read, read', open), Len(read') = Here,
           \/ Mode \in {"outside", "lost", "list"}
           \/ Mode = "rows" /\ Parent # "table"
           \/ Mode \in {"item", "text", "rows"} /\ read'[Here].tag = "image"
    PROVE  HtmlDrops(read', local.hasMain, local.dropped, Here)
<1>1. At(read', open, Here)
  BY DEF Reads
<1>2. HtmlPlaced(read, open, local)
  BY HtmlLossFacts
<1>3. \A k \in 0..Len(open) : ShapeOf(read', open, local, k)
  BY <1>2, ShapesMore DEF HtmlPlaced
<1>4. Len(open) \in Nat /\ Mode = local.modes[Len(open) + 1] /\ Mode \in Modes
  BY HtmlFacts
<1>5. ShapeOf(read', open, local, Len(open))
  BY <1>3, <1>4
<1>6. Mode = "rows" /\ Parent # "table" => read'[open[Len(open)]].tag # "table"
  <2> SUFFICES ASSUME Mode = "rows", Parent # "table" PROVE read'[open[Len(open)]].tag # "table"
    OBVIOUS
  <2>1. Len(open) # 0
    BY <1>4, <1>5 DEF ShapeOf
  <2>2. open # <<>>
    BY <2>1
  <2>3. open[Len(open)] \in DOMAIN read /\ Parent = read[open[Len(open)]].tag
    BY <2>2, LastOpen DEF HtmlInv
  <2>4. QED
    BY <2>3 DEF Reads, Grows
<1>7. PICK mode \in Modes : mode = Mode
  BY <1>4
<1>8. QED
  BY <1>1, <1>4, <1>5, <1>6, <1>7, Misses

\* What ends the paragraph of a list item takes its words.
LEMMA ItemBroken ==
    ASSUME NEW r, NEW s, NEW o, Reads(r, s, o), NEW l, HtmlPlaced(r, o, l), NEW x, x = Len(s),
           l.modes[Len(o) + 1] = "item", s[x].tag \in Breaks, NEW i \in DOMAIN r, In(l.item, i)
    PROVE  \A hasMain, d : HtmlDrops(s, hasMain, d, i)
<1>1. /\ Len(o) \in Nat /\ DOMAIN o = 1..Len(o) /\ At(s, o, x) /\ Grows(r, s) /\ Rooted(r)
      /\ Len(r) \in Nat /\ x = Len(r) + 1 /\ x \in DOMAIN s /\ i \in 1..Len(r)
      /\ Inside(s, x) = {o[j] : j \in DOMAIN o}
  BY DEF Reads, At
<1>2. ShapeOf(r, o, l, Len(o))
  BY <1>1 DEF HtmlPlaced
<1>3. PICK y \in 1..Len(o) : LiAt(r, o, l.modes, y)
  BY <1>2 DEF ShapeOf
<1>4. FirstLi(r, o[y], i)
  BY <1>1, <1>3 DEF LiAt, HtmlPlaced, ItemsOf
<1>5. FirstLi(s, o[y], i)
  BY <1>1, <1>4, FirstLiGrows
<1>6. ~Amid(s, x, {"skip"})
  <2>1. \A j \in 1..Len(o) : s[o[j]] = r[o[j]] /\ r[o[j]].tag # "skip"
    BY <1>1, <1>2 DEF ShapeOf, Reads, Grows
  <2>2. QED
    BY <1>1, <2>1, AmidAt
<1>7. o[y] \in Inside(s, x) /\ x > i
  BY <1>1, <1>3
<1>8. Broken(s, i)
  BY <1>1, <1>5, <1>6, <1>7 DEF Broken
<1>9. QED
  BY <1>8 DEF HtmlDrops

\* What is read, and only that, is among the modes.
LEMMA AmongHere ==
    ASSUME HtmlInv, format = "html", Reading
    PROVE  /\ Among(local.modes, {Mode})
           /\ \A S : Mode \in S => Among(local.modes, S)
           /\ Mode = "text" => Among(local.modes, Texting) /\ Among(local.modes, {"text"}) /\ Among(local.modes, Gathers)
           /\ Mode = "item" => Among(local.modes, {"item"})
<1>1. Len(open) \in Nat /\ DOMAIN local.modes = 1..(Len(open) + 1) /\ Mode = local.modes[Len(open) + 1]
  BY HtmlFacts
<1>2. Len(open) + 1 \in DOMAIN local.modes
  BY <1>1
<1>3. \A S : Mode \in S => Among(local.modes, S)
  BY <1>1, <1>2 DEF Among
<1>4. QED
  BY <1>3 DEF Texting, Gathers

\* A token that opens nothing.
LEMMA HtmlTokenFound ==
    ASSUME HtmlInv, HtmlLoss, format = "html", Reading, Reads(read, read', open),
           UNCHANGED <<format, open>>, DOMAIN read' = 1..Len(read'),
           \A i \in DOMAIN read' : i \in DOMAIN read \/ i = Here,
           local'.modes = local.modes, local'.hasMain = local.hasMain,
           local'.dropped = local.dropped, local'.rows = local.rows,
           local'.text = local.text \/ Among(local.modes, {"text"}),
           ItemsOf(read', open, local'),
           \A i \in DOMAIN read : read[i].tag \in Silent \/ Carries(read', blocks, local, blocks', local', i),
           HtmlFound(read', blocks', local', Here)
    PROVE  HtmlLoss'
<1>1. HtmlPlaced(read, open, local) /\ HtmlFinds(read, blocks, local)
  BY HtmlLossFacts
<1>2. PICK l : l = local'
  OBVIOUS
<1>3. RowsOf(l)
  BY <1>1, <1>2 DEF HtmlPlaced, RowsOf
<1>4. HtmlPlaced(read', open, l)
  BY <1>1, <1>2, <1>3, HtmlStays
<1>5. HtmlFinds(read', blocks', l)
  <2>1. Grows(read, read') /\ Rooted(read)
    BY DEF Reads
  <2>2. /\ local.dropped \in Nat /\ l.dropped \in Nat /\ local.dropped <= l.dropped
        /\ l.hasMain = local.hasMain
    BY <1>1, <1>2 DEF HtmlPlaced
  <2>3. /\ \A i \in DOMAIN read : read[i].tag \in Silent \/ Carries(read', blocks, local, blocks', l, i)
        /\ \A i \in DOMAIN read' : i \in DOMAIN read \/ HtmlFound(read', blocks', l, i)
    BY <1>2
  <2>4. QED
    BY <1>1, <2>1, <2>2, <2>3, HtmlFindsMore
<1>6. QED
  BY <1>2, <1>4, <1>5 DEF HtmlLoss

\* A text is gathered by the loop that reads it, or is dropped for a reason.
LEMMA HtmlTextFound == HtmlInv /\ HtmlLoss /\ HtmlText => HtmlLoss'
<1> SUFFICES ASSUME HtmlInv, HtmlLoss, HtmlText PROVE HtmlLoss'
  OBVIOUS
<1>1. /\ format = "html" /\ Reading /\ Write(Token("text", "")) /\ Parent # "table"
      /\ local' = CASE Mode = "page" -> [local EXCEPT !.inline = Append(@, Here)]
                    [] Mode = "item" -> [local EXCEPT !.item = Append(@, Here)]
                    [] Mode = "text" -> [local EXCEPT !.text = Append(@, Here)]
                    [] OTHER -> local
      /\ UNCHANGED <<upload, format, vocabulary, open, blocks, title, outcome>>
  BY DEF HtmlText
<1>2. PICK token : token = Token("text", "") /\ token.tag \in HtmlTokens
  <2>1. Token("text", "").tag \in HtmlTokens
    BY DEF Token, HtmlTokens
  <2>2. QED
    BY <2>1
<1>3. /\ Reads(read, read', open) /\ Here \in Nat /\ Here = Len(read) + 1 /\ Len(read') = Here
      /\ \A i \in DOMAIN read' : i \in DOMAIN read \/ i = Here
  BY <1>1, <1>2, HtmlReads
<1>4. /\ Grows(read, read') /\ Rooted(read) /\ DOMAIN read' = 1..Len(read') /\ At(read', open, Here)
      /\ Len(open) \in Nat /\ DOMAIN open = 1..Len(open)
  BY <1>3 DEF Reads, At
<1>5. /\ HtmlPlaced(read, open, local) /\ HtmlFinds(read, blocks, local)
      /\ local.inline \in Seq(Nat) /\ blocks \in Seq(BlockRec)
      /\ Among(local.modes, Gathers) => local.text \in Seq(Nat)
      /\ Among(local.modes, {"item"}) => local.item \in Seq(Nat)
      /\ \A i : In(local.item, i) /\ Among(local.modes, {"item"}) => i \in DOMAIN read
  BY <1>1, HtmlLossFacts
<1>6. /\ DOMAIN local = {"modes", "hasMain", "inline", "item", "text", "rows", "dropped", "page"}
      /\ Mode = local.modes[Len(open) + 1] /\ Mode \in Modes /\ DOMAIN local.modes = 1..(Len(open) + 1)
  BY <1>1, HtmlFacts
<1>7. /\ Mode = "text" => Among(local.modes, Texting) /\ Among(local.modes, {"text"}) /\ Among(local.modes, Gathers)
      /\ Mode = "item" => Among(local.modes, {"item"})
  BY <1>1, AmongHere
<1>8. blocks' = blocks
  BY <1>1
<1>9. PICK l : l = local'
  OBVIOUS
<1>10. ASSUME l.item = local.item, l.modes = local.modes PROVE ItemsOf(read', open, l)
  <2>1. ItemsOf(read, open, local)
    BY <1>5 DEF HtmlPlaced
  <2>2. QED
    BY <1>4, <1>5, <1>6, <1>10, <2>1, ItemsStay
<1>11. CASE Mode = "page"
  <2>1. local' = [local EXCEPT !.inline = Append(@, Here)]
    BY <1>1, <1>11
  <2>2. /\ l.inline = Append(local.inline, Here) /\ l.item = local.item /\ l.text = local.text
        /\ l.modes = local.modes /\ l.hasMain = local.hasMain /\ l.dropped = local.dropped
        /\ l.rows = local.rows
    BY <1>6, <1>9, <2>1
  <2>3. \A i : In(l.inline, i) <=> In(local.inline, i) \/ i = Here
    BY <1>3, <1>5, <2>2, InAppend
  <2>4. \A i : Carries(read', blocks, local, blocks', l, i)
    BY <1>8, <2>2, <2>3 DEF Carries
  <2>5. HtmlFound(read', blocks', l, Here)
    BY <2>3 DEF HtmlFound
  <2>6. ItemsOf(read', open, l)
    BY <1>10, <2>2
  <2>7. QED
    BY <1>1, <1>3, <1>4, <1>9, <2>2, <2>4, <2>5, <2>6, HtmlTokenFound
<1>12. CASE Mode = "item"
  <2>1. local' = [local EXCEPT !.item = Append(@, Here)]
    BY <1>1, <1>12
  <2>2. /\ l.item = Append(local.item, Here) /\ l.inline = local.inline /\ l.text = local.text
        /\ l.modes = local.modes /\ l.hasMain = local.hasMain /\ l.dropped = local.dropped
        /\ l.rows = local.rows
    BY <1>6, <1>9, <2>1
  <2>3. local.item \in Seq(Nat) /\ Among(l.modes, {"item"})
    BY <1>5, <1>7, <1>12, <2>2
  <2>4. \A i : In(l.item, i) <=> In(local.item, i) \/ i = Here
    BY <1>3, <2>2, <2>3, InAppend
  <2>5. \A i : Carries(read', blocks, local, blocks', l, i)
    BY <1>8, <2>2, <2>4 DEF Carries
  <2>6. HtmlFound(read', blocks', l, Here)
    BY <2>3, <2>4 DEF HtmlFound
  <2>7. ItemsOf(read', open, l)
    <3>1. /\ Steps(read', open, local.modes) /\ ItemsOf(read, open, local)
          /\ \A k \in 0..Len(open) : ShapeOf(read', open, local, k)
      BY <1>3, <1>5, StepsMore, ShapesMore DEF HtmlPlaced
    <3>2. \A i : In(local.item, i) => i \in DOMAIN read
      BY <1>5, <2>2, <2>3
    <3>3. QED
      BY <1>3, <1>4, <2>2, <2>3, <3>1, <3>2, ItemsMore
  <2>8. QED
    BY <1>1, <1>3, <1>4, <1>9, <2>2, <2>5, <2>6, <2>7, HtmlTokenFound
<1>13. CASE Mode = "text"
  <2>1. local' = [local EXCEPT !.text = Append(@, Here)]
    BY <1>1, <1>13
  <2>2. /\ l.text = Append(local.text, Here) /\ l.inline = local.inline /\ l.item = local.item
        /\ l.modes = local.modes /\ l.hasMain = local.hasMain /\ l.dropped = local.dropped
        /\ l.rows = local.rows
    BY <1>6, <1>9, <2>1
  <2>3. local.text \in Seq(Nat) /\ Among(l.modes, Texting) /\ Among(local.modes, {"text"})
    BY <1>5, <1>7, <1>13, <2>2
  <2>4. \A i : In(l.text, i) <=> In(local.text, i) \/ i = Here
    BY <1>3, <2>2, <2>3, InAppend
  <2>5. \A i : Carries(read', blocks, local, blocks', l, i)
    BY <1>8, <2>2, <2>4 DEF Carries
  <2>6. HtmlFound(read', blocks', l, Here)
    BY <2>3, <2>4 DEF HtmlFound
  <2>7. ItemsOf(read', open, l)
    BY <1>10, <2>2
  <2>8. QED
    BY <1>1, <1>3, <1>4, <1>9, <2>2, <2>3, <2>5, <2>6, <2>7, HtmlTokenFound
<1>14. CASE Mode \notin {"page", "item", "text"}
  <2>1. l = local
    BY <1>1, <1>9, <1>14
  <2>2. HtmlDrops(read', local.hasMain, local.dropped, Here)
    <3>1. Mode \in {"outside", "lost", "list"} \/ Mode = "rows"
      BY <1>6, <1>14 DEF Modes
    <3>2. QED
      BY <1>1, <1>3, <3>1, HtmlMisses
  <2>3. HtmlFound(read', blocks', l, Here)
    BY <2>1, <2>2 DEF HtmlFound
  <2>4. \A i : Carries(read', blocks, local, blocks', l, i)
    BY <1>8, <2>1 DEF Carries
  <2>5. ItemsOf(read', open, l)
    BY <1>10, <2>1
  <2>6. QED
    BY <1>1, <1>3, <1>4, <1>9, <2>1, <2>3, <2>4, <2>5, HtmlTokenFound
<1>15. QED
  BY <1>11, <1>12, <1>13, <1>14

\* An image or a rule: in the document, or dropped.
LEMMA HtmlBreakFound ==
    ASSUME HtmlInv, HtmlLoss, format = "html", Reading, NEW token, Write(token), token.tag \in {"image", "hr"},
           UNCHANGED <<format, vocabulary, open, title, outcome>>,
           local' = CASE Mode = "page" -> [local EXCEPT !.inline = <<>>]
                      [] Mode = "item" -> [local EXCEPT !.item = <<>>]
                      [] OTHER -> local,
           \/ Mode # "page" /\ blocks' = blocks
           \/ /\ Mode = "page"
              /\ \A i : Says(blocks', i) <=> Says(blocks, i) \/ In(local.inline, i) \/ (i = Here /\ token.tag = "image" /\ token.arg # "unsafe")
    PROVE  HtmlLoss'
<1>1. token.tag \in HtmlTokens
  BY DEF HtmlTokens
<1>3. /\ Reads(read, read', open) /\ Here \in Nat /\ Here = Len(read) + 1 /\ Len(read') = Here
      /\ \A i \in DOMAIN read' : i \in DOMAIN read \/ i = Here
      /\ read'[Here].tag = token.tag /\ read'[Here].arg = token.arg
  BY <1>1, HtmlReads
<1>4. /\ Grows(read, read') /\ Rooted(read) /\ DOMAIN read' = 1..Len(read') /\ At(read', open, Here)
      /\ Len(open) \in Nat /\ DOMAIN open = 1..Len(open)
  BY <1>3 DEF Reads, At
<1>5. /\ HtmlPlaced(read, open, local) /\ HtmlFinds(read, blocks, local)
      /\ \A i : In(local.item, i) /\ Among(local.modes, {"item"}) => i \in DOMAIN read
  BY HtmlLossFacts
<1>6. /\ DOMAIN local = {"modes", "hasMain", "inline", "item", "text", "rows", "dropped", "page"}
      /\ Mode = local.modes[Len(open) + 1] /\ Mode \in Modes /\ DOMAIN local.modes = 1..(Len(open) + 1)
  BY HtmlFacts
<1>7. Mode = "item" => Among(local.modes, {"item"})
  BY AmongHere
<1>9. PICK l : l = local'
  OBVIOUS
<1>10. /\ l.text = local.text
       /\ l.modes = local.modes /\ l.hasMain = local.hasMain /\ l.dropped = local.dropped
       /\ l.rows = local.rows
       /\ l.item = local.item \/ (l.item = <<>> /\ Mode = "item")
       /\ l.inline = local.inline \/ (l.inline = <<>> /\ Mode = "page")
  <2>1. CASE Mode = "page"
    BY <1>6, <1>9, <2>1
  <2>2. CASE Mode = "item"
    BY <1>6, <1>9, <2>2
  <2>3. CASE Mode \notin {"page", "item"}
    <3>1. local' = local
      BY <2>3
    <3>2. QED
      BY <1>9, <3>1
  <2>4. QED
    BY <2>1, <2>2, <2>3
<1>11. ItemsOf(read', open, l)
  <2>1. ItemsOf(read, open, local)
    BY <1>5 DEF HtmlPlaced
  <2>2. QED
    BY <1>4, <1>5, <1>6, <1>10, <2>1, ItemsStay
<1>12. ASSUME NEW i \in DOMAIN read PROVE Carries(read', blocks, local, blocks', l, i)
  <2>1. Says(blocks, i) \/ In(local.inline, i) => Says(blocks', i) \/ In(l.inline, i)
    BY <1>10
  <2>2. In(local.text, i) /\ Among(local.modes, Texting) => In(l.text, i) /\ Among(l.modes, Texting)
    BY <1>10
  <2>3. ASSUME In(local.item, i)
        PROVE  (In(l.item, i) /\ l.modes = local.modes) \/ HtmlDrops(read', l.hasMain, l.dropped, i)
    <3>1. CASE l.item = local.item
      BY <1>10, <2>3, <3>1
    <3>2. CASE Mode = "item"
      <4>1. read'[Here].tag \in Breaks /\ local.modes[Len(open) + 1] = "item"
        BY <1>3, <1>6, <3>2 DEF Breaks
      <4>2. \A hasMain, d : HtmlDrops(read', hasMain, d, i)
        BY <1>3, <1>5, <1>12, <2>3, <4>1, ItemBroken
      <4>3. QED
        BY <4>2
    <3>3. QED
      BY <1>10, <3>1, <3>2
  <2>4. QED
    BY <2>1, <2>2, <2>3 DEF Carries
<1>13. HtmlFound(read', blocks', l, Here)
  <2>1. CASE token.tag = "hr"
    <3>1. "hr" \in Silent
      BY DEF Silent, HtmlTokens
    <3>2. QED
      BY <1>3, <2>1, <3>1 DEF HtmlFound
  <2>2. CASE token.tag = "image" /\ Mode = "page"
    <3>1. token.arg = "unsafe" => HtmlDrops(read', l.hasMain, l.dropped, Here)
      BY <1>3, <2>2 DEF HtmlDrops
    <3>2. QED
      BY <2>2, <3>1 DEF HtmlFound
  <2>3. CASE token.tag = "image" /\ Mode # "page"
    <3>1. Mode \in {"outside", "lost", "list"} \/ Mode \in {"item", "text", "rows"}
      BY <1>6, <2>3 DEF Modes
    <3>2. HtmlDrops(read', local.hasMain, local.dropped, Here)
      BY <1>3, <2>3, <3>1, HtmlMisses
    <3>3. QED
      BY <1>10, <3>2 DEF HtmlFound
  <2>4. QED
    BY <2>1, <2>2, <2>3
<1>14. QED
  BY <1>3, <1>4, <1>9, <1>10, <1>11, <1>12, <1>13, HtmlTokenFound

\* An image is a block of the page, or is dropped for a reason; an item loses what it held.
LEMMA HtmlImageFound == HtmlInv /\ HtmlLoss /\ HtmlImage => HtmlLoss'
<1> SUFFICES ASSUME HtmlInv, HtmlLoss, HtmlImage PROVE HtmlLoss'
  OBVIOUS
<1>1. PICK token \in vocabulary.tokens :
         /\ token.tag = "image"
         /\ Write(token)
         /\ blocks' = IF Mode # "page" THEN blocks
                      ELSE blocks \o Paragraph(local.inline)
                           \o (IF token.arg = "unsafe" THEN <<>> ELSE <<Block("image", 0, <<Here>>)>>)
  BY DEF HtmlImage
<1>2. /\ format = "html" /\ Reading
      /\ local' = CASE Mode = "page" -> [local EXCEPT !.inline = <<>>]
                    [] Mode = "item" -> [local EXCEPT !.item = <<>>]
                    [] OTHER -> local
      /\ UNCHANGED <<upload, format, vocabulary, open, title, outcome>>
  BY DEF HtmlImage
<1>3. blocks \in Seq(BlockRec) /\ local.inline \in Seq(Nat)
  BY <1>2, HtmlLossFacts
<1>4. PICK mid \in Seq(BlockRec) :
         mid = blocks \o Paragraph(local.inline) /\ \A i : Says(mid, i) <=> Says(blocks, i) \/ In(local.inline, i)
  BY <1>3, SaysParagraph
<1>5. Here \in Nat
  BY <1>2, FormFacts DEF HtmlInv, Here
<1>6. CASE Mode # "page"
  <2>1. blocks' = blocks
    BY <1>1, <1>6
  <2>2. QED
    BY <1>1, <1>2, <1>6, <2>1, HtmlBreakFound
<1>7. CASE Mode = "page" /\ token.arg = "unsafe"
  <2>1. blocks' = mid \o <<>>
    BY <1>1, <1>4, <1>7
  <2>2. blocks' = mid
    BY <1>4, <2>1
  <2>3. QED
    BY <1>1, <1>2, <1>4, <1>7, <2>2, HtmlBreakFound
<1>8. CASE Mode = "page" /\ token.arg # "unsafe"
  <2>1. blocks' = mid \o <<Block("image", 0, <<Here>>)>>
    BY <1>1, <1>4, <1>8
  <2>2. PICK w \in Seq(Nat) : w = <<Here>> /\ \A i : In(w, i) <=> i = Here
    <3>1. <<Here>> \in Seq(Nat)
      BY <1>5
    <3>2. QED
      BY <3>1, InOne
  <2>3. "image" \in Kinds /\ 0 \in Int
    BY DEF Kinds
  <2>4. \A i : Says(blocks', i) <=> Says(mid, i) \/ In(w, i)
    BY <2>1, <2>2, <2>3, SaysBlock
  <2>5. \A i : Says(blocks', i) <=> Says(blocks, i) \/ In(local.inline, i) \/ (i = Here /\ token.tag = "image" /\ token.arg # "unsafe")
    BY <1>1, <1>4, <1>8, <2>2, <2>4
  <2>6. QED
    BY <1>1, <1>2, <1>8, <2>5, HtmlBreakFound
<1>9. QED
  BY <1>6, <1>7, <1>8

\* A rule ends the paragraph before it, and the item it stands in loses what it held.
LEMMA HtmlRuleFound == HtmlInv /\ HtmlLoss /\ HtmlRule => HtmlLoss'
<1> SUFFICES ASSUME HtmlInv, HtmlLoss, HtmlRule PROVE HtmlLoss'
  OBVIOUS
<1>1. /\ format = "html" /\ Reading /\ Write(Token("hr", ""))
      /\ blocks' = IF Mode # "page" THEN blocks
                   ELSE blocks \o Paragraph(local.inline) \o <<Block("rule", 0, <<>>)>>
      /\ local' = CASE Mode = "page" -> [local EXCEPT !.inline = <<>>]
                    [] Mode = "item" -> [local EXCEPT !.item = <<>>]
                    [] OTHER -> local
      /\ UNCHANGED <<upload, format, vocabulary, open, title, outcome>>
  BY DEF HtmlRule
<1>2. PICK token : token = Token("hr", "") /\ token.tag = "hr"
  <2>1. Token("hr", "").tag = "hr"
    BY DEF Token
  <2>2. QED
    BY <2>1
<1>3. blocks \in Seq(BlockRec) /\ local.inline \in Seq(Nat)
  BY <1>1, HtmlLossFacts
<1>4. PICK mid \in Seq(BlockRec) :
         mid = blocks \o Paragraph(local.inline) /\ \A i : Says(mid, i) <=> Says(blocks, i) \/ In(local.inline, i)
  BY <1>3, SaysParagraph
<1>5. CASE Mode # "page"
  <2>1. blocks' = blocks
    BY <1>1, <1>5
  <2>2. QED
    BY <1>1, <1>2, <1>5, <2>1, HtmlBreakFound
<1>6. CASE Mode = "page"
  <2>1. blocks' = mid \o <<Block("rule", 0, <<>>)>>
    BY <1>1, <1>4, <1>6
  <2>2. "rule" \in Kinds /\ 0 \in Int /\ <<>> \in Seq(Nat)
    BY DEF Kinds
  <2>3. \A i : Says(blocks', i) <=> Says(mid, i) \/ In(<<>>, i)
    BY <2>1, <2>2, SaysBlock
  <2>4. \A i : Says(blocks', i) <=> Says(blocks, i) \/ In(local.inline, i) \/ (i = Here /\ token.tag = "image" /\ token.arg # "unsafe")
    BY <1>2, <1>4, <2>3, InNothing
  <2>5. QED
    BY <1>1, <1>2, <1>6, <2>4, HtmlBreakFound
<1>7. QED
  BY <1>5, <1>6

\* The title of the page is the first of its tokens.
LEMMA HtmlTitleFound == HtmlInv /\ HtmlLoss /\ HtmlTitle => HtmlLoss'
<1> SUFFICES ASSUME HtmlInv, HtmlLoss, HtmlTitle PROVE HtmlLoss'
  OBVIOUS
<1>1. /\ format = "html" /\ Reading /\ read = <<>> /\ Write(Token("title", ""))
      /\ local' = [local EXCEPT !.page = <<Here>>]
      /\ UNCHANGED <<upload, format, vocabulary, open, blocks, title, outcome>>
  BY DEF HtmlTitle
<1>2. format \in Five
  BY <1>1 DEF Five
<1>3. PICK token : token = Token("title", "") /\ token.tag = "title"
  <2>1. Token("title", "").tag = "title"
    BY DEF Token
  <2>2. QED
    BY <2>1
<1>4. /\ Form' /\ Grows(read, read') /\ Here \in Nat /\ Here = Len(read) + 1 /\ Len(read') = Here
      /\ read'[Here] = [tag |-> token.tag, arg |-> token.arg, inside |-> open]
      /\ Inside(read', Here) = {open[j] : j \in DOMAIN open}
  <2>1. /\ Form /\ Write(token) /\ open' = open /\ UNCHANGED <<format, vocabulary>>
        /\ token.tag = "title" => format = "html" /\ read = <<>>
    BY <1>1, <1>3 DEF HtmlInv
  <2>2. QED
    BY ONLY <1>2, <2>1, WriteForm
<1>5. /\ Len(open) \in Nat /\ DOMAIN open = 1..Len(open) /\ open \in Seq(Nat)
      /\ \A j \in DOMAIN open : open[j] \in DOMAIN read
      /\ Len(read) \in Nat /\ DOMAIN read = 1..Len(read) /\ Rooted(read)
  BY FormFacts DEF HtmlInv, Form
<1>6. read'[Here].tag = "title" /\ read'[Here].inside = open
  <2>1. read'[Here].tag = token.tag /\ read'[Here].inside = open
    BY <1>4
  <2>2. QED
    BY <1>3, <2>1
<1>7. /\ HtmlPlaced(read, open, local) /\ HtmlFinds(read, blocks, local)
      /\ \A i : In(local.item, i) /\ Among(local.modes, {"item"}) => i \in DOMAIN read
  BY <1>1, HtmlLossFacts
<1>8. At(read', open, Here)
  <2>1. \A j \in DOMAIN open : open[j] \in Nat
    BY <1>5
  <2>2. QED
    BY <1>4, <1>5, <1>6, <1>7, <2>1 DEF At, HtmlPlaced, Covers
<1>9. DOMAIN read' = 1..Len(read') /\ \A i \in DOMAIN read' : i \in DOMAIN read \/ i = Here
  BY <1>4, <1>5 DEF Grows
<1>10. Reads(read, read', open)
  BY <1>4, <1>5, <1>6, <1>8, <1>9 DEF Reads
<1>11. /\ DOMAIN local = {"modes", "hasMain", "inline", "item", "text", "rows", "dropped", "page"}
       /\ DOMAIN local.modes = 1..(Len(open) + 1)
  BY <1>1, HtmlFacts
<1>12. PICK l : l = local'
  OBVIOUS
<1>13. /\ l.text = local.text /\ l.inline = local.inline /\ l.item = local.item
       /\ l.modes = local.modes /\ l.hasMain = local.hasMain /\ l.dropped = local.dropped
       /\ l.rows = local.rows
  BY <1>1, <1>11, <1>12
<1>14. ItemsOf(read', open, l)
  <2>1. ItemsOf(read, open, local)
    BY <1>7 DEF HtmlPlaced
  <2>2. QED
    BY <1>4, <1>5, <1>7, <1>11, <1>13, <2>1, ItemsStay
<1>15. \A i : Carries(read', blocks, local, blocks', l, i)
  BY <1>1, <1>13 DEF Carries
<1>16. HtmlFound(read', blocks', l, Here)
  BY <1>6 DEF HtmlFound, Silent
<1>17. QED
  BY <1>1, <1>9, <1>10, <1>12, <1>13, <1>14, <1>15, <1>16, HtmlTokenFound

\* An element that opens ends a paragraph, starts a gathering or makes an item lose what it held.
LEMMA HtmlElementFound == HtmlInv /\ HtmlLoss /\ HtmlElement => HtmlLoss'
<1> SUFFICES ASSUME HtmlInv, HtmlLoss, HtmlElement PROVE HtmlLoss'
  OBVIOUS
<1>1. PICK token \in vocabulary.tokens :
        /\ format = "html" /\ Reading
        /\ token.tag \in Structural \cup {"li", "caption", "cell", "span", "skip", "main"}
        /\ MayContain(Parent, token.tag)
        /\ Write(token) /\ Enter
        /\ LET flushes == token.tag \in Structural
               mode == ModeIn(Mode, token.tag)
           IN  /\ blocks' = IF Mode = "page" /\ flushes THEN blocks \o Paragraph(local.inline) ELSE blocks
               /\ local' = [local EXCEPT
                     !.modes = Append(@, mode),
                     !.inline = IF Mode = "page" /\ flushes THEN <<>> ELSE @,
                     !.item = IF (Mode = "item" /\ flushes) \/ (Mode = "list" /\ mode = "item") THEN <<>> ELSE @,
                     !.text = IF Mode = "page" /\ flushes THEN <<>> ELSE @,
                     !.rows = IF Mode = "page" /\ flushes THEN 0 ELSE @,
                     !.dropped = IF Mode = "page" /\ token.tag = "skip" THEN @ + 1 ELSE @]
        /\ UNCHANGED <<upload, format, vocabulary, title, outcome>>
  BY DEF HtmlElement
<1> DEFINE t == token.tag
           flushes == t \in Structural
           mode == ModeIn(Mode, t)
           ms == local.modes
<1>2. /\ Reads(read, read', open) /\ Here \in Nat /\ Here = Len(read) + 1 /\ Len(read') = Here
      /\ read'[Here].tag = t /\ \A i \in DOMAIN read' : i \in DOMAIN read \/ i = Here
  <2>1. token.tag \in HtmlTokens /\ Enter
    BY <1>1 DEF HtmlTokens
  <2>2. QED
    BY <1>1, <2>1, HtmlReads
<1>3. /\ HtmlPlaced(read, open, local) /\ HtmlFinds(read, blocks, local)
      /\ local.inline \in Seq(Nat) /\ blocks \in Seq(BlockRec)
      /\ \A i : In(local.item, i) /\ Among(ms, {"item"}) => i \in DOMAIN read
      /\ Nested(read, open, ms)
  BY <1>1, HtmlLossFacts
<1>4. /\ DOMAIN local = {"modes", "hasMain", "inline", "item", "text", "rows", "dropped", "page"}
      /\ ms \in Seq(Modes) /\ Len(ms) = Len(open) + 1 /\ DOMAIN ms = 1..(Len(open) + 1)
      /\ Mode = ms[Len(open) + 1] /\ Mode \in Modes
      /\ Len(open) \in Nat /\ open \in Seq(Nat) /\ DOMAIN open = 1..Len(open)
  BY <1>1, HtmlFacts
<1>5. PICK n \in Nat : n = Len(open)
  BY <1>4
<1>6. open' = Append(open, Here)
  BY <1>1 DEF Enter
<1>7. Opens(read, read', open, open')
  <2>1. /\ Len(open') = Len(open) + 1 /\ DOMAIN open' = 1..(Len(open) + 1)
        /\ \A k \in 1..Len(open) : open'[k] = open[k]
        /\ open'[Len(open) + 1] = Here
    <3>1. open' = Append(open, Here) /\ open \in Seq(Nat) /\ Here \in Nat
      BY <1>2, <1>4, <1>6
    <3>2. QED
      BY ONLY <3>1
  <2>2. QED
    BY <1>2, <1>4, <2>1 DEF Opens, Reads
<1>8. PICK l : l = local'
  OBVIOUS
<1>9. /\ l.modes = Append(ms, mode) /\ l.hasMain = local.hasMain
      /\ l.inline = IF Mode = "page" /\ flushes THEN <<>> ELSE local.inline
      /\ l.text = IF Mode = "page" /\ flushes THEN <<>> ELSE local.text
      /\ l.rows = IF Mode = "page" /\ flushes THEN 0 ELSE local.rows
      /\ l.item = IF (Mode = "item" /\ flushes) \/ (Mode = "list" /\ mode = "item")
                  THEN <<>> ELSE local.item
      /\ l.dropped = IF Mode = "page" /\ t = "skip" THEN local.dropped + 1 ELSE local.dropped
  BY <1>1, <1>4, <1>8
<1>10. blocks' = IF Mode = "page" /\ flushes THEN blocks \o Paragraph(local.inline) ELSE blocks
  BY <1>1
<1>11. local.rows \in Nat /\ local.dropped \in Nat
  BY <1>3 DEF HtmlPlaced
<1>12. l.rows \in Nat /\ l.dropped \in Nat /\ local.dropped <= l.dropped
       /\ (Mode = "page" /\ t = "skip" => l.dropped > 0)
  BY <1>9, <1>11
<1>13. mode \in Modes
  BY <1>4, ModesLater
<1>14. /\ \A k \in 1..(n + 1) : l.modes[k] = ms[k]
       /\ l.modes[n + 2] = mode
       /\ \A S : Among(l.modes, S) <=> Among(ms, S) \/ mode \in S
  <2>1. PICK u \in Modes : u = mode
    BY <1>13
  <2>2. l.modes = Append(ms, u)
    BY <1>9, <2>1
  <2>3. /\ Len(l.modes) = n + 2 /\ DOMAIN l.modes = 1..(n + 2)
        /\ \A k \in 1..(n + 1) : l.modes[k] = ms[k]
        /\ l.modes[n + 2] = u
    BY <1>4, <1>5, <2>2
  <2> HIDE DEF mode, ms
  <2>4. ASSUME NEW S PROVE Among(l.modes, S) <=> Among(ms, S) \/ u \in S
    <3>1. DOMAIN ms = 1..(n + 1)
      BY <1>4, <1>5
    <3>2. \A k \in 1..(n + 2) : k \in 1..(n + 1) \/ k = n + 2
      OBVIOUS
    <3>3. n + 2 \in 1..(n + 2) /\ \A k \in 1..(n + 1) : k \in 1..(n + 2)
      OBVIOUS
    <3>4. QED
      BY <2>3, <3>1, <3>2, <3>3 DEF Among
  <2>5. QED
    BY <2>1, <2>3, <2>4
<1>15. /\ Mode \in {"page", "outside"} => ~Among(ms, Gathers)
       /\ Mode \in {"text", "list"} => ~Among(ms, {"item"})
       /\ Mode = "rows" => Among(ms, {"rows"})
  <2>1. \A S : Mode \in S => Among(ms, S)
    BY <1>1, AmongHere
  <2>2. PICK ns : ns = ms
    OBVIOUS
  <2>3. Nested(read, open, ns) /\ Len(open) \in Nat /\ Mode = ns[Len(ns)]
    BY <1>3, <1>4, <2>2
  <2>4. /\ Mode \in {"page", "outside"} => ~Among(ns, Gathers)
        /\ Mode \in {"text", "list"} => ~Among(ns, {"item"})
    BY <2>3, GatheringModes
  <2>5. QED
    BY <2>1, <2>2, <2>4
<1> HIDE DEF mode, ms
<1>16. RowsOf(l)
  <2> SUFFICES ASSUME Among(l.modes, {"rows"}), ~Among(l.modes, {"text"}) PROVE l.rows > 0 \/ l.text = <<>>
    BY DEF RowsOf
  <2>1. CASE Mode = "page" /\ flushes
    BY <1>9, <2>1
  <2>2. CASE ~(Mode = "page" /\ flushes)
    <3>1. mode = "rows" => Mode = "rows"
      <4>1. mode = "rows" => Mode \in {"rows", "page"}
        BY <1>4 DEF mode, ModeIn, Modes
      <4>2. Mode = "page" => mode = Contents(t)
        BY DEF mode, ModeIn
      <4>3. Contents(t) = "rows" => t = "table"
        BY DEF Contents
      <4>4. "table" \in Structural
        BY DEF Structural
      <4>5. QED
        BY <2>2, <4>1, <4>2, <4>3, <4>4
    <3>2. Among(ms, {"rows"}) /\ ~Among(ms, {"text"})
      BY <1>14, <1>15, <3>1
    <3>3. local.rows > 0 \/ local.text = <<>>
      BY <1>3, <3>2 DEF HtmlPlaced, RowsOf, ms
    <3>4. QED
      BY <1>9, <2>2, <3>3
  <2>3. QED
    BY <2>1, <2>2
<1>17. ItemsOf(read', open', l)
  <2>1. CASE l.item = <<>>
    BY <2>1, InNothing DEF ItemsOf
  <2>2. CASE l.item = local.item /\ ~(Mode = "list" /\ mode = "item")
    <3>1. ItemsOf(read', open, local)
      <4>1. ItemsOf(read, open, local) /\ Grows(read, read') /\ Rooted(read)
        BY <1>2, <1>3 DEF HtmlPlaced, Reads
      <4>2. QED
        BY <1>3, <1>4, <4>1, ItemsStay DEF ms
    <3>2. ASSUME NEW j \in DOMAIN open', l.modes[j] = "list", l.modes[j + 1] = "item",
                 NEW i \in DOMAIN read', In(l.item, i)
          PROVE  FirstLi(read', open'[j], i)
      <4>1. j \in 1..n \/ j = n + 1
        BY <1>5, <1>7 DEF Opens
      <4>2. CASE j \in 1..n
        <5>1. j \in 1..(n + 1) /\ j + 1 \in 1..(n + 1) /\ j \in DOMAIN open /\ open'[j] = open[j]
          BY <1>4, <1>5, <1>7, <4>2 DEF Opens
        <5>2. local.modes[j] = "list" /\ local.modes[j + 1] = "item"
          BY <1>14, <3>2, <5>1 DEF ms
        <5>3. QED
          BY <2>2, <3>1, <3>2, <5>1, <5>2 DEF ItemsOf
      <4>3. CASE j = n + 1
        <5>1. j \in 1..(n + 1) /\ j + 1 = n + 2
          BY <4>3
        <5>2. Mode = "list" /\ mode = "item"
          BY <1>4, <1>5, <1>14, <3>2, <4>3, <5>1
        <5>3. QED
          BY <2>2, <5>2
      <4>4. QED
        BY <4>1, <4>2, <4>3
    <3>3. QED
      BY <3>2 DEF ItemsOf
  <2>3. QED
    BY <1>9, <2>1, <2>2
<1>18. HtmlPlaced(read', open', l)
  <2>1. /\ Parent = "root" => n = 0
        /\ n > 0 => Parent = read[open[n]].tag
        /\ n = 0 => Parent = "root"
    <3>1. CASE n = 0
      <4>1. open = <<>>
        BY <1>4, <1>5, <3>1
      <4>2. QED
        BY <3>1, <4>1 DEF Parent
    <3>2. CASE n > 0
      <4>1. open # <<>>
        BY <1>5, <3>2
      <4>2. Parent = read[open[n]].tag /\ open[n] \in DOMAIN read
        BY <1>5, <4>1, LastOpen DEF HtmlInv
      <4>3. read[open[n]].tag # "root"
        BY <1>3, <4>2 DEF HtmlPlaced, Covers, HtmlTokens, Structural
      <4>4. QED
        BY <3>2, <4>2, <4>3
    <3>3. QED
      BY <3>1, <3>2
  <2>2. /\ Parent = "table" => t \in {"caption", "cell"}
        /\ t = "li" => Parent = "list"
        /\ t \in {"caption", "cell"} => Parent = "table"
        /\ t = "main" => Parent = "root"
    BY <1>1 DEF MayContain
  <2>3. /\ n > 0 /\ read[open[n]].tag = "table" => t \in {"caption", "cell"}
        /\ t = "li" => n > 0 /\ read[open[n]].tag = "list"
        /\ t \in {"caption", "cell"} => n > 0 /\ read[open[n]].tag = "table"
        /\ t = "main" => n = 0
    BY <2>1, <2>2
  <2>4. PICK g : g = t
    OBVIOUS
  <2>5. /\ read'[Len(read')].tag = g /\ local.modes[n + 1] = Mode /\ DOMAIN local.modes = 1..(n + 1)
        /\ l.modes[n + 2] = ModeIn(local.modes[n + 1], g)
        /\ \A k \in 1..(n + 1) : l.modes[k] = local.modes[k]
    BY <1>2, <1>4, <1>5, <1>14, <2>4 DEF mode, ms
  <2>6. g \in Structural \cup {"li", "caption", "cell", "span", "skip", "main"}
    BY <1>1, <2>4
  <2>7. /\ n > 0 /\ read[open[n]].tag = "table" => g \in {"caption", "cell"}
        /\ g = "li" => n > 0 /\ read[open[n]].tag = "list"
        /\ g \in {"caption", "cell"} => n > 0 /\ read[open[n]].tag = "table"
        /\ g = "main" => n = 0
        /\ local.modes[n + 1] = "page" /\ g = "skip" => l.dropped > 0
    BY <1>12, <2>3, <2>4, <2>5
  <2>8. /\ Reads(read, read', open) /\ Opens(read, read', open, open') /\ HtmlPlaced(read, open, local)
        /\ n = Len(open) /\ local.modes[n + 1] \in Modes /\ l.hasMain = local.hasMain
        /\ l.dropped \in Nat /\ local.dropped <= l.dropped /\ l.rows \in Nat
        /\ RowsOf(l) /\ ItemsOf(read', open', l)
    BY <1>2, <1>3, <1>4, <1>5, <1>7, <1>9, <1>12, <1>16, <1>17, <2>5
  <2>9. QED
    BY ONLY n \in Nat, <2>5, <2>6, <2>7, <2>8, HtmlOpens
<1>19. ASSUME NEW i \in DOMAIN read PROVE Carries(read', blocks, local, blocks', l, i)
  <2>1. \A S : Among(ms, S) => Among(l.modes, S)
    BY <1>14
  <2>2. CASE Mode = "page" /\ flushes
    <3>1. Says(blocks', i) <=> Says(blocks, i) \/ In(local.inline, i)
      BY <1>3, <1>10, <2>2, SaysParagraph
    <3>2. ~Among(ms, Texting) /\ ~Among(ms, {"item"})
      BY <1>15, <2>2 DEF Among, Gathers, Texting
    <3>3. QED
      BY <3>1, <3>2 DEF Carries, ms
  <2>3. CASE ~(Mode = "page" /\ flushes)
    <3>1. blocks' = blocks /\ l.inline = local.inline /\ l.text = local.text
      BY <1>9, <1>10, <2>3
    <3>2. ASSUME In(local.item, i), Among(ms, {"item"})
          PROVE  In(l.item, i) \/ HtmlDrops(read', l.hasMain, l.dropped, i)
      <4>1. CASE Mode = "item" /\ flushes
        <5>1. PICK here : here = Here
          OBVIOUS
        <5>2. read'[here].tag \in Breaks /\ local.modes[Len(open) + 1] = "item" /\ here = Len(read')
          BY <1>2, <1>4, <4>1, <5>1 DEF Breaks, ms
        <5>3. QED
          BY <1>2, <1>3, <1>19, <3>2, <5>2, ItemBroken
      <4>2. CASE Mode = "list" /\ mode = "item"
        BY <1>15, <3>2, <4>2
      <4>3. CASE l.item = local.item
        BY <3>2, <4>3
      <4>4. QED
        BY <1>9, <4>1, <4>2, <4>3
    <3>3. QED
      BY <2>1, <3>1, <3>2 DEF Carries, ms
  <2>4. QED
    BY <2>2, <2>3
<1>20. HtmlFound(read', blocks', l, Here)
  <2>1. t \in Silent
    BY <1>1 DEF Silent, HtmlTokens, Structural
  <2>2. QED
    BY <1>2, <2>1 DEF HtmlFound
<1>21. HtmlFinds(read', blocks', l)
  <2>1. Grows(read, read') /\ Rooted(read)
    BY <1>2 DEF Reads
  <2>2. \A i \in DOMAIN read' : i \in DOMAIN read \/ HtmlFound(read', blocks', l, i)
    BY <1>2, <1>20
  <2>3. \A i \in DOMAIN read : read[i].tag \in Silent \/ Carries(read', blocks, local, blocks', l, i)
    BY <1>19
  <2>4. l.hasMain = local.hasMain
    BY <1>9
  <2>5. QED
    BY <1>3, <1>11, <1>12, <2>1, <2>2, <2>3, <2>4, HtmlFindsMore
<1>22. QED
  BY <1>8, <1>18, <1>21 DEF HtmlLoss

\* The element that is open is inside of those that were opened before it, and no others.
LEMMA OpenInside ==
    ASSUME Form, NEW k \in DOMAIN open, NEW e \in Inside(read, open[k])
    PROVE  \E j \in 1..(k - 1) : e = open[j]
<1>1. /\ open \in Seq(Nat) /\ Len(open) \in Nat /\ DOMAIN open = 1..Len(open)
      /\ read[open[k]].inside = SubSeq(open, 1, k - 1)
  BY FormFacts DEF Form
<1>2. k - 1 \in Nat /\ k - 1 <= Len(open)
  BY <1>1
<1>3. PICK p : p = SubSeq(open, 1, k - 1) /\ Len(p) = k - 1 /\ DOMAIN p = 1..(k - 1) /\ \A j \in 1..(k - 1) : p[j] = open[j]
  BY <1>1, <1>2
<1>4. PICK j \in DOMAIN p : e = p[j]
  BY <1>1, <1>3 DEF Inside
<1>5. QED
  BY <1>3, <1>4

\* The end of a paragraph inside a list item takes the words of the item.
LEMMA ParagraphBroken ==
    ASSUME HtmlInv, HtmlLoss, format = "html", Reading, open # <<>>,
           local.modes[Len(open)] = "item", read[open[Len(open)]].tag = "p",
           NEW i \in DOMAIN read, In(local.item, i), read[i].tag \notin Silent
    PROVE  \A hasMain, d : HtmlDrops(read, hasMain, d, i)
<1>1. HtmlPlaced(read, open, local) /\ Rooted(read)
  BY HtmlLossFacts
<1>2. /\ open \in Seq(Nat) /\ Len(open) \in Nat /\ DOMAIN open = 1..Len(open)
      /\ Len(read) \in Nat /\ DOMAIN read = 1..Len(read) /\ \A j \in DOMAIN open : open[j] \in DOMAIN read
  BY FormFacts DEF HtmlInv
<1>3. PICK n \in Nat : n = Len(open) /\ n > 0
  <2>1. Len(open) # 0
    BY ONLY open # <<>>, <1>2
  <2>2. Len(open) \in Nat /\ Len(open) > 0
    BY <1>2, <2>1
  <2>3. QED
    BY <2>2
<1>4. PICK k \in Nat : k = n - 1 /\ k \in 0..Len(open) /\ k + 1 = n
  BY <1>3
<1>5. ShapeOf(read, open, local, k) /\ local.modes[k + 1] = "item"
  BY <1>1, <1>3, <1>4 DEF HtmlPlaced
<1>6. (\A j \in 1..k : read[open[j]].tag # "skip") /\ \E x \in 1..k : LiAt(read, open, local.modes, x)
  BY <1>5 DEF ShapeOf
<1>7. PICK x \in 1..k : LiAt(read, open, local.modes, x)
  BY <1>6
<1>8. x \in DOMAIN open /\ n \in DOMAIN open /\ x < n
  BY <1>2, <1>3, <1>4
<1>9. FirstLi(read, open[x], i)
  BY <1>1, <1>7, <1>8 DEF LiAt, HtmlPlaced, ItemsOf
<1>10. PICK p \in DOMAIN read : p = open[n]
  BY <1>2, <1>8
<1>11. read[p].tag \in Breaks /\ read[p].tag \in Silent
  <2>1. "p" \in Breaks /\ "p" \in Silent
    BY DEF Breaks, Structural, Silent, HtmlTokens
  <2>2. read[p].tag = "p"
    BY <1>3, <1>10
  <2>3. QED
    BY <2>1, <2>2
<1>12. p # i /\ p \in Nat /\ i \in Nat
  BY <1>2, <1>11
<1>13. CASE p < i
  <2>1. p \in Inside(read, i)
    BY <1>1, <1>8, <1>10, <1>13 DEF HtmlPlaced, Covers
  <2>2. open[x] < p /\ open[x] \in Nat
    <3>1. open[x] \in DOMAIN read /\ open[x] < open[n]
      BY <1>1, <1>2, <1>8 DEF HtmlPlaced, Covers
    <3>2. QED
      BY <1>2, <1>10, <3>1
  <2>3. p > open[x]
    BY <1>12, <2>2
  <2>4. Broken(read, i)
    BY <1>9, <1>11, <2>1, <2>3 DEF Broken
  <2>5. QED
    BY <2>4 DEF HtmlDrops
<1>14. CASE i < p
  <2>1. open[x] \in Inside(read, p)
    BY <1>8, <1>10, OpenApart DEF HtmlInv
  <2>2. ~Amid(read, p, {"skip"})
    <3>1. ASSUME NEW e \in Inside(read, p) PROVE read[e].tag # "skip"
      <4>1. PICK j \in 1..k : e = open[j]
        BY <1>4, <1>8, <1>10, <3>1, OpenInside DEF HtmlInv
      <4>2. QED
        BY <1>6, <4>1
    <3>2. QED
      BY <3>1 DEF Amid
  <2>3. p > i
    BY <1>12, <1>14
  <2>4. Broken(read, i)
    BY <1>9, <1>11, <2>1, <2>2, <2>3 DEF Broken
  <2>5. QED
    BY <2>4 DEF HtmlDrops
<1>15. QED
  BY <1>12, <1>13, <1>14

\* The block of an element says what was gathered in it.
LEMMA WrittenSays ==
    ASSUME blocks \in Seq(BlockRec), local.text \in Seq(Nat), NEW element,
           element.tag \in {"h", "pre", "quote", "list", "table"},
           element.tag = "h" => element.arg \in 1..6,
           element.tag = "table" => local.rows # 0 \/ local.text = <<>>, NEW i
    PROVE  Says(blocks \o Written(element), i) <=> Says(blocks, i) \/ In(local.text, i)
<1>1. ASSUME Written(element) = <<>>, local.text = <<>>
      PROVE  Says(blocks \o Written(element), i) <=> Says(blocks, i) \/ In(local.text, i)
  <2>1. blocks \o Written(element) = blocks
    BY <1>1
  <2>2. QED
    BY <1>1, <2>1, InNothing
<1>2. ASSUME NEW kind \in Kinds, NEW level \in Int, Written(element) = <<Block(kind, level, local.text)>>
      PROVE  Says(blocks \o Written(element), i) <=> Says(blocks, i) \/ In(local.text, i)
  BY <1>2, SaysBlock
<1>3. CASE element.tag = "h"
  <2>1. "heading" \in Kinds /\ element.arg \in Int
    BY <1>3 DEF Kinds
  <2>2. Written(element) = IF local.text = <<>> THEN <<>> ELSE <<Block("heading", element.arg, local.text)>>
    BY <1>3 DEF Written
  <2>3. QED
    BY <1>1, <1>2, <2>1, <2>2
<1>4. CASE element.tag = "pre"
  <2>1. Written(element) = <<Block("code", 0, local.text)>> /\ "code" \in Kinds /\ 0 \in Int
    BY <1>4 DEF Written, Kinds
  <2>2. QED
    BY <1>2, <2>1
<1>5. CASE element.tag = "quote"
  <2>1. Written(element) = <<Block("quote", 0, local.text)>> /\ "quote" \in Kinds /\ 0 \in Int
    BY <1>5 DEF Written, Kinds
  <2>2. QED
    BY <1>2, <2>1
<1>6. CASE element.tag = "list"
  <2>1. Written(element) = IF local.text = <<>> THEN <<>> ELSE <<Block("list", 0, local.text)>>
    BY <1>6 DEF Written
  <2>2. "list" \in Kinds /\ 0 \in Int
    BY DEF Kinds
  <2>3. QED
    BY <1>1, <1>2, <2>1, <2>2
<1>7. CASE element.tag = "table"
  <2>1. Written(element) = IF local.rows = 0 THEN <<>> ELSE <<Block("table", 0, local.text)>>
    BY <1>7 DEF Written
  <2>2. "table" \in Kinds /\ 0 \in Int
    BY DEF Kinds
  <2>3. QED
    BY <1>1, <1>2, <1>7, <2>1, <2>2
<1>8. QED
  BY <1>3, <1>4, <1>5, <1>6, <1>7

\* An end writes what its element gathered.
LEMMA HtmlEndFound == HtmlInv /\ HtmlLoss /\ HtmlEnd => HtmlLoss'
<1> SUFFICES ASSUME HtmlInv, HtmlLoss, HtmlEnd PROVE HtmlLoss'
  OBVIOUS
<1> DEFINE element == read[Last(open)]
           around == local.modes[Len(local.modes) - 1]
           ms == local.modes
<1>1. /\ format = "html" /\ Reading /\ Leave
      /\ blocks' = IF around = "page" THEN blocks \o Written(element) ELSE blocks
      /\ local' = [local EXCEPT
           !.modes = Front(@),
           !.inline = IF around = "page" /\ element.tag = "p" THEN <<>> ELSE @,
           !.item = IF around = "item" /\ element.tag = "p" THEN <<>> ELSE @,
           !.text = IF around = "list" /\ Mode = "item" THEN @ \o local.item ELSE @,
           !.rows = IF around = "rows" /\ Mode = "text" THEN @ + 1 ELSE @]
      /\ UNCHANGED <<upload, format, vocabulary, read, outcome>>
  BY DEF HtmlEnd
<1>2. /\ HtmlPlaced(read, open, local) /\ HtmlFinds(read, blocks, local) /\ Rooted(read)
      /\ local.inline \in Seq(Nat) /\ blocks \in Seq(BlockRec)
      /\ Among(ms, Gathers) => local.text \in Seq(Nat)
      /\ Among(ms, {"item"}) => local.item \in Seq(Nat)
      /\ \A i : In(local.item, i) /\ Among(ms, {"item"}) => i \in DOMAIN read
      /\ Nested(read, open, ms)
  BY <1>1, HtmlLossFacts
<1>3. /\ DOMAIN local = {"modes", "hasMain", "inline", "item", "text", "rows", "dropped", "page"}
      /\ ms \in Seq(Modes) /\ Len(ms) = Len(open) + 1 /\ DOMAIN ms = 1..(Len(open) + 1)
      /\ Mode = ms[Len(open) + 1] /\ Mode \in Modes /\ format \in Five
  BY <1>1, HtmlFacts
<1>4. /\ Form' /\ Grows(read, read') /\ Len(open) \in Nat \ {0} /\ Len(open') = Len(open) - 1
      /\ \A i \in 1..(Len(open) - 1) : open'[i] = open[i]
      /\ DOMAIN open = 1..Len(open) /\ DOMAIN open' = 1..(Len(open) - 1)
      /\ Last(open) = open[Len(open)] /\ Last(open) \in DOMAIN read
  BY <1>1, <1>3, LeaveForm DEF HtmlInv
<1>5. PICK n \in Nat \ {0} : n = Len(open)
  BY <1>4
<1>6. PICK l : l = local'
  OBVIOUS
<1>7. /\ l.modes = Front(ms) /\ l.hasMain = local.hasMain /\ l.dropped = local.dropped
      /\ l.inline = IF around = "page" /\ element.tag = "p" THEN <<>> ELSE local.inline
      /\ l.item = IF around = "item" /\ element.tag = "p" THEN <<>> ELSE local.item
      /\ l.text = IF around = "list" /\ Mode = "item" THEN local.text \o local.item ELSE local.text
      /\ l.rows = IF around = "rows" /\ Mode = "text" THEN local.rows + 1 ELSE local.rows
  BY <1>1, <1>3, <1>6
<1>8. /\ around = ms[n] /\ Mode = ms[n + 1] /\ DOMAIN ms = 1..(n + 1) /\ element = read[open[n]]
      /\ n \in DOMAIN open /\ n \in DOMAIN ms
  <2>1. Len(ms) - 1 = n
    BY <1>3, <1>5
  <2>2. QED
    BY <1>3, <1>4, <1>5, <2>1
<1>9. /\ DOMAIN l.modes = 1..n /\ (\A k \in 1..n : l.modes[k] = ms[k]) /\ Len(l.modes) = n
  <2>1. PICK u \in Seq(Modes) : u = ms
    BY <1>3
  <2>2. Len(u) = n + 1 /\ Len(u) - 1 = n /\ Len(u) > 0
    BY <1>3, <1>5, <2>1
  <2>3. /\ Len(Front(u)) = Len(u) - 1 /\ DOMAIN Front(u) = 1..(Len(u) - 1)
        /\ \A i \in 1..(Len(u) - 1) : Front(u)[i] = u[i]
    BY <2>2, FrontFacts
  <2>4. QED
    BY <1>7, <2>1, <2>2, <2>3
<1> HIDE DEF ms, around, element
<1>10. /\ \A S : Among(l.modes, S) => Among(ms, S)
       /\ \A S : Among(ms, S) => Among(l.modes, S) \/ Mode \in S
       /\ \A S : around \in S => Among(l.modes, S)
       /\ \A S : Mode \in S => Among(ms, S)
  <2>1. /\ \A k \in 1..n : k \in 1..(n + 1)
        /\ \A k \in 1..(n + 1) : k \in 1..n \/ k = n + 1
        /\ n \in 1..n /\ n + 1 \in 1..(n + 1)
    OBVIOUS
  <2>2. QED
    BY <1>8, <1>9, <2>1 DEF Among
<1>11. /\ around \in Modes /\ Mode = ModeIn(around, element.tag)
       /\ around = "page" => Mode = Contents(element.tag)
  <2>1. around \in Modes
    BY <1>3, <1>8
  <2>2. Mode = ModeIn(around, element.tag)
    BY <1>2, <1>8 DEF HtmlPlaced, Steps, ms
  <2>3. QED
    BY <2>1, <2>2 DEF ModeIn
<1>12. /\ around = "page" => ~Among(l.modes, Gathers)
       /\ around = "list" => ~Among(l.modes, {"rows"})
  <2>1. ASSUME NEW m \in 1..n PROVE ms[m] = around \/ around \in Later(ms[m])
    <3>1. m = n \/ m < n
      OBVIOUS
    <3>2. m \in DOMAIN ms /\ \A j, k \in DOMAIN ms : j < k => ms[k] \in Later(ms[j])
      BY <1>2, <1>8 DEF Nested
    <3>3. QED
      BY <1>8, <3>1, <3>2
  <2>2. \A m \in 1..n : ms[m] \in Modes
    BY <1>3, <1>5
  <2>3. ASSUME around = "page", NEW m \in 1..n PROVE ms[m] \notin Gathers
    BY <2>1, <2>2, <2>3 DEF Later, Gathers, Modes
  <2>4. ASSUME around = "list", NEW m \in 1..n PROVE ms[m] # "rows"
    BY <2>1, <2>2, <2>4 DEF Later, Modes
  <2>5. QED
    BY <1>9, <2>3, <2>4 DEF Among
<1>13. /\ Mode = "item" => around \in {"item", "list"}
       /\ Mode \in Texting /\ around # "page" => around \in {"text", "rows"}
       /\ Mode = "text" => around \in {"text", "rows", "page"}
  BY <1>3, <1>11 DEF ModeIn, Contents, Modes, Texting
<1>14. local.rows \in Nat /\ l.rows \in Nat
  <2>1. local.rows \in Nat
    BY <1>2 DEF HtmlPlaced
  <2>2. QED
    BY <1>7, <2>1
<1>15. RowsOf(l)
  <2> SUFFICES ASSUME Among(l.modes, {"rows"}), ~Among(l.modes, {"text"}) PROVE l.rows > 0 \/ l.text = <<>>
    BY DEF RowsOf
  <2>1. CASE around = "rows" /\ Mode = "text"
    <3>1. l.rows = local.rows + 1
      BY <1>7, <2>1
    <3>2. QED
      BY <1>14, <3>1
  <2>2. CASE ~(around = "rows" /\ Mode = "text")
    <3>1. around # "list" /\ around # "page" /\ around # "text"
      BY <1>10, <1>12 DEF Among, Gathers
    <3>2. Mode # "text"
      BY <1>13, <2>2, <3>1
    <3>3. Among(ms, {"rows"}) /\ ~Among(ms, {"text"})
      BY <1>10, <3>2
    <3>4. local.rows > 0 \/ local.text = <<>>
      BY <1>2, <3>3 DEF HtmlPlaced, RowsOf, ms
    <3>5. l.rows = local.rows /\ l.text = local.text
      BY <1>7, <2>2, <3>1
    <3>6. QED
      BY <3>4, <3>5
  <2>3. QED
    BY <2>1, <2>2
<1>16. ItemsOf(read, open', l)
  <2>1. CASE l.item = <<>>
    BY <2>1, InNothing DEF ItemsOf
  <2>2. CASE l.item = local.item
    <3>1. ASSUME NEW j \in DOMAIN open', l.modes[j] = "list", l.modes[j + 1] = "item",
                 NEW i \in DOMAIN read, In(l.item, i)
          PROVE  FirstLi(read, open'[j], i)
      <4>1. j \in 1..n /\ j + 1 \in 1..n /\ j \in DOMAIN open /\ open'[j] = open[j]
        BY <1>4, <1>5
      <4>2. local.modes[j] = "list" /\ local.modes[j + 1] = "item"
        BY <1>9, <3>1, <4>1 DEF ms
      <4>3. QED
        BY <1>2, <2>2, <3>1, <4>1, <4>2 DEF ItemsOf, HtmlPlaced
    <3>2. QED
      BY <3>1 DEF ItemsOf
  <2>3. QED
    BY <1>7, <2>1, <2>2
<1>17. HtmlPlaced(read, open', l)
  <2>1. DOMAIN open = 1..n /\ Shorter(open', open)
    BY <1>4, <1>5 DEF Shorter
  <2>2. \A k \in 1..n : l.modes[k] = local.modes[k]
    BY <1>9 DEF ms
  <2>3. l.hasMain = local.hasMain /\ l.dropped = local.dropped
    BY <1>7
  <2>4. QED
    BY <1>2, <1>5, <1>14, <1>15, <1>16, <2>1, <2>2, <2>3, HtmlCloses
<1>18. ASSUME NEW i \in DOMAIN read, read[i].tag \notin Silent PROVE Carries(read, blocks, local, blocks', l, i)
  <2>1. CASE around = "page"
    <3>1. blocks' = blocks \o Written(element)
      BY <1>1, <2>1
    <3>2. Among(ms, Texting) => Mode \in Texting
      BY <1>10, <1>12, <2>1 DEF Among, Gathers, Texting
    <3>3. ~Among(ms, {"item"})
      <4>1. Mode # "item"
        BY <1>13, <2>1
      <4>2. QED
        BY <1>10, <1>12, <2>1, <4>1 DEF Among, Gathers
    <3>4. CASE element.tag = "p"
      <4>1. Written(element) = Paragraph(local.inline) /\ Mode = "page"
        BY <1>11, <2>1, <3>4 DEF Written, Contents
      <4>2. Says(blocks', i) <=> Says(blocks, i) \/ In(local.inline, i)
        BY <1>2, <3>1, <4>1, SaysParagraph
      <4>3. ~Among(ms, Texting)
        BY <3>2, <4>1 DEF Texting
      <4>4. QED
        BY <3>3, <4>2, <4>3 DEF Carries, ms
    <3>5. CASE element.tag \in {"h", "pre", "quote", "list", "table"}
      <4>1. Mode \in Texting
        BY <1>11, <2>1, <3>5 DEF Contents, Texting
      <4>2. local.text \in Seq(Nat)
        <5>1. Mode \in Gathers
          BY <4>1 DEF Texting, Gathers
        <5>2. QED
          BY <1>2, <1>10, <5>1
      <4>3. element.tag = "table" => local.rows # 0 \/ local.text = <<>>
        <5> SUFFICES ASSUME element.tag = "table" PROVE local.rows # 0 \/ local.text = <<>>
          OBVIOUS
        <5>1. Mode = "rows"
          BY <1>11, <2>1 DEF Contents
        <5>2. ~Among(ms, {"text"})
          <6>1. Mode \notin {"text"} /\ ~Among(l.modes, {"text"})
            BY <1>12, <2>1, <5>1 DEF Among, Gathers
          <6>2. QED
            BY <1>10, <6>1
        <5>3. Among(ms, {"rows"})
          BY <1>10, <5>1
        <5>4. local.rows > 0 \/ local.text = <<>>
          BY <1>2, <5>2, <5>3 DEF HtmlPlaced, RowsOf, ms
        <5>5. QED
          BY <1>14, <5>4
      <4>4. element.tag = "h" => element.arg \in 1..6
        BY <1>1, <1>4 DEF HtmlInv, Form, Known, MayBe, element
      <4>5. Says(blocks', i) <=> Says(blocks, i) \/ In(local.text, i)
        <5>1. PICK e : e = element
          OBVIOUS
        <5>2. Says(blocks \o Written(e), i) <=> Says(blocks, i) \/ In(local.text, i)
          BY <1>2, <3>5, <4>2, <4>3, <4>4, <5>1, WrittenSays
        <5>3. QED
          BY <3>1, <5>1, <5>2
      <4>6. l.inline = local.inline
        BY <1>7, <3>5
      <4>7. QED
        BY <3>3, <4>5, <4>6 DEF Carries, ms
    <3>6. CASE element.tag \notin {"p", "h", "pre", "quote", "list", "table"}
      <4>1. Written(element) = <<>>
        BY <3>6 DEF Written
      <4>2. blocks' = blocks
        BY <1>2, <3>1, <4>1
      <4>3. Mode \notin Texting
        BY <1>11, <2>1, <3>6 DEF Contents, Texting
      <4>4. l.inline = local.inline
        BY <1>7, <3>6
      <4>5. QED
        BY <3>2, <3>3, <4>2, <4>3, <4>4 DEF Carries, ms
    <3>7. QED
      BY <3>4, <3>5, <3>6
  <2>2. CASE around # "page"
    <3>1. blocks' = blocks /\ l.inline = local.inline
      BY <1>1, <1>7, <2>2
    <3>2. Among(ms, Texting) => Among(l.modes, Texting)
      <4>1. Mode \in Texting => around \in Texting
        BY <1>13, <2>2 DEF Texting
      <4>2. QED
        BY <1>10, <4>1
    <3>3. CASE around = "list" /\ Mode = "item"
      <4>1. Among(ms, {"item"}) /\ Among(ms, Gathers) /\ Among(l.modes, Texting)
        BY <1>10, <3>3 DEF Gathers, Texting
      <4>2. l.text = local.text \o local.item
        BY <1>7, <3>3
      <4>3. In(l.text, i) <=> In(local.text, i) \/ In(local.item, i)
        BY <1>2, <4>1, <4>2, InConcat
      <4>4. QED
        BY <3>1, <4>1, <4>3 DEF Carries, ms
    <3>4. CASE ~(around = "list" /\ Mode = "item")
      <4>1. l.text = local.text
        BY <1>7, <3>4
      <4>2. Among(ms, {"item"}) => Among(l.modes, {"item"})
        <5>1. Mode = "item" => around = "item"
          BY <1>13, <3>4
        <5>2. QED
          BY <1>10, <5>1
      <4>3. In(local.item, i) => In(l.item, i) \/ HtmlDrops(read, l.hasMain, l.dropped, i)
        <5>1. CASE around = "item" /\ element.tag = "p"
          <6>1. open # <<>>
            BY <1>1 DEF Leave
          <6>2. local.modes[Len(open)] = "item" /\ read[open[Len(open)]].tag = "p"
            BY <1>5, <1>8, <5>1 DEF ms
          <6>3. QED
            BY <1>1, <1>18, <6>1, <6>2, ParagraphBroken
        <5>2. CASE ~(around = "item" /\ element.tag = "p")
          BY <1>7, <5>2
        <5>3. QED
          BY <5>1, <5>2
      <4>4. QED
        BY <3>1, <3>2, <4>1, <4>2, <4>3 DEF Carries, ms
    <3>5. QED
      BY <3>3, <3>4
  <2>3. QED
    BY <2>1, <2>2
<1>19. HtmlFinds(read, blocks', l)
  <2>1. local.dropped \in Nat /\ l.dropped \in Nat /\ local.dropped <= l.dropped /\ l.hasMain = local.hasMain
    BY <1>2, <1>7 DEF HtmlPlaced
  <2>2. \A i \in DOMAIN read : read[i].tag \in Silent \/ Carries(read, blocks, local, blocks', l, i)
    BY <1>18
  <2>3. \A i \in DOMAIN read : i \in DOMAIN read \/ HtmlFound(read, blocks', l, i)
    OBVIOUS
  <2>4. Grows(read, read)
    BY <1>1, <1>4
  <2>5. QED
    BY <1>2, <2>1, <2>2, <2>3, <2>4, HtmlFindsMore
<1>20. QED
  BY <1>1, <1>6, <1>17, <1>19 DEF HtmlLoss

\* At the end of the page nothing is gathered any more.
LEMMA HtmlEofFound == HtmlInv /\ HtmlLoss /\ HtmlEof => NothingElseIsLost'
<1> SUFFICES ASSUME HtmlInv, HtmlLoss, HtmlEof PROVE NothingElseIsLost'
  OBVIOUS
<1>1. /\ format = "html" /\ Reading /\ open = <<>> /\ outcome' = "parsed"
      /\ blocks' = blocks \o Paragraph(local.inline)
      /\ UNCHANGED <<upload, format, vocabulary, read, open, local>>
  BY DEF HtmlEof, EndOfSource, Finish
<1>2. /\ HtmlPlaced(read, open, local) /\ HtmlFinds(read, blocks, local)
      /\ local.inline \in Seq(Nat) /\ blocks \in Seq(BlockRec)
  BY <1>1, HtmlLossFacts
<1>3. ~Among(local.modes, Texting) /\ ~Among(local.modes, {"item"})
  <2>1. /\ Len(open) = 0 /\ DOMAIN local.modes = 1..(Len(open) + 1) /\ ShapeOf(read, open, local, 0)
    BY <1>1, <1>2, HtmlFacts DEF HtmlPlaced
  <2>2. DOMAIN local.modes = {1} /\ 1..0 = {} /\ 0 + 1 = 1
    BY <2>1
  <2>3. local.modes[1] \notin {"list", "item", "text", "rows"}
    BY <2>1, <2>2 DEF ShapeOf
  <2>4. QED
    BY <2>2, <2>3 DEF Among, Texting
<1>4. ASSUME NEW i \in DOMAIN read, read[i].tag \notin Silent PROVE Says(blocks', i) \/ HtmlLoses(i)
  <2>1. HtmlFound(read, blocks, local, i)
    BY <1>2 DEF HtmlFinds
  <2>2. Says(blocks', i) <=> Says(blocks, i) \/ In(local.inline, i)
    BY <1>1, <1>2, SaysParagraph
  <2>3. HtmlDrops(read, local.hasMain, local.dropped, i) => HtmlLoses(i)
    BY HtmlDropsLoses DEF HtmlInv
  <2>4. QED
    BY <1>3, <1>4, <2>1, <2>2, <2>3 DEF HtmlFound
<1>5. \A i : Says(blocks', i) <=> i \in InDocument'
  <2>1. \A i : \A k \in DOMAIN blocks' : i \in ToSet(blocks'[k].words) <=> In(blocks'[k].words, i)
    BY DEF ToSet, In
  <2>2. QED
    BY <2>1 DEF InDocument, Says
<1>6. Texts' = Texts /\ Images' = Images
  BY <1>1 DEF Texts, Images, Tag
<1>7. ASSUME NEW i PROVE HtmlLoses(i)' <=> HtmlLoses(i)
  <2>1. \A j : Around(j)' = Around(j) /\ Tag(j)' = Tag(j)
    BY <1>1 DEF Around, Tag
  <2>2. Item(i)' = Item(i)
    BY <1>1, <2>1 DEF Item, Around, Tag
  <2>3. InItem(i)' = InItem(i)
    BY <1>1, <2>1, <2>2 DEF InItem
  <2>4. \A j, tags : Has(j, tags)' <=> Has(j, tags)
    BY <2>1 DEF Has
  <2>6. \A e : OutOfItems(i, e)' <=> OutOfItems(i, e)
    BY <2>1 DEF OutOfItems
  <2>5. QED
    BY <1>1, <1>6, <2>1, <2>2, <2>3, <2>4, <2>6 DEF HtmlLoses
<1>8. ASSUME NEW i \in Texts \cup Images PROVE i \in InDocument' \/ Loses(i)'
  <2>1. i \in DOMAIN read /\ read[i].tag \notin Silent
    BY <1>8 DEF Texts, Images, Tag, Silent, HtmlTokens, Structural
  <2>2. Loses(i)' <=> HtmlLoses(i)'
    BY <1>1 DEF Loses
  <2>3. QED
    BY <1>4, <1>5, <1>7, <2>1, <2>2
<1>9. QED
  BY <1>6, <1>8 DEF NothingElseIsLost

\* Every step over a page keeps what it gathered.
LEMMA HtmlLossKept == HtmlInv /\ HtmlLoss /\ HtmlNext => HtmlLoss' /\ NothingElseIsLost'
<1> SUFFICES ASSUME HtmlInv, HtmlLoss, HtmlNext PROVE HtmlLoss' /\ NothingElseIsLost'
  OBVIOUS
<1>1. CASE HtmlEof
  <2>1. outcome' = "parsed"
    BY <1>1 DEF HtmlEof, EndOfSource, Finish
  <2>2. QED
    BY <1>1, <2>1, HtmlEofFound DEF HtmlLoss, Reading
<1>2. CASE HtmlElement \/ HtmlText \/ HtmlTitle \/ HtmlImage \/ HtmlRule \/ HtmlEnd
  <2>1. HtmlLoss'
    BY <1>2, HtmlElementFound, HtmlTextFound, HtmlTitleFound, HtmlImageFound, HtmlRuleFound, HtmlEndFound
  <2>2. Reading /\ outcome' = outcome
    BY <1>2 DEF HtmlElement, HtmlText, HtmlTitle, HtmlImage, HtmlRule, HtmlEnd
  <2>3. QED
    BY <2>1, <2>2 DEF NothingElseIsLost, Parsed, Reading
<1>3. QED
  BY <1>1, <1>2 DEF HtmlNext

---------------------------------------------------------------------------
(* Nothing else is lost, of every format *)

\* Before the first token nothing was read that could be lost.
LEMMA StartingFinds ==
    ASSUME NEW f \in Five, NEW l \in Locals(f), NEW r, r = <<>>, NEW o, o = <<>>
    PROVE  /\ f \in {"text", "pdf"} => l.next = 0
           /\ f = "markdown" => MarkdownFinds(r, o, l, <<>>)
           /\ f = "docx" => DocxFinds(r, l, <<>>) /\ DocxPlaced(r, o, l)
           /\ f = "html" => HtmlPlaced(r, o, l) /\ HtmlFinds(r, <<>>, l)
<1>1. DOMAIN r = {} /\ Len(r) = 0 /\ DOMAIN o = {} /\ Len(o) = 0 /\ 1..0 = {} /\ 0..0 = {0}
  OBVIOUS
<1>2. ASSUME f \in {"text", "pdf"} PROVE l.next = 0
  <2>1. l = [next |-> 0, para |-> <<>>, body |-> 0, inferred |-> FALSE]
    BY <1>2 DEF Locals, LineStart
  <2>2. QED
    BY <2>1
<1>3. ASSUME f = "markdown" PROVE MarkdownFinds(r, o, l, <<>>)
  <2>1. l = [modes |-> <<"blocks">>, words |-> <<>>, fence |-> "first"]
    BY <1>3 DEF Locals, MarkdownStart
  <2>2. Len(l.modes) = 1 /\ 2..1 = {}
    BY <2>1
  <2>3. Held(o, l) = <<>>
    BY DEF Held
  <2>4. QED
    BY <1>1, <2>2, <2>3 DEF MarkdownFinds
<1>4. ASSUME f = "docx" PROVE DocxFinds(r, l, <<>>) /\ DocxPlaced(r, o, l)
  <2>1. l = Between(ImageBudget)
    BY <1>4 DEF Locals, DocxStart
  <2>2. l.mode = "body" /\ l.pics = <<>> /\ l.rows = 0 /\ l.budget = ImageBudget
    BY <2>1 DEF Between
  <2> DEFINE g == [k \in 0..0 |-> 0]
  <2>3. g \in [0..0 -> Nat] /\ g[0] = 0
    OBVIOUS
  <2> HIDE DEF g
  <2>4. Pays(r, <<>>, l.pics, g)
    BY <1>1, <2>3 DEF Pays
  <2>5. ImageBudget - 0 = ImageBudget
    BY DocxAssumption
  <2>6. DocxFinds(r, l, <<>>)
    BY <1>1, <2>2, <2>3, <2>4, <2>5 DEF DocxFinds
  <2>7. DocxPlaced(r, o, l)
    BY <1>1, <2>2 DEF DocxPlaced
  <2>8. QED
    BY <2>6, <2>7
<1>5. ASSUME f = "html" PROVE HtmlPlaced(r, o, l) /\ HtmlFinds(r, <<>>, l)
  <2>1. PICK hasMain \in BOOLEAN : l = HtmlStart(hasMain)
    BY <1>5 DEF Locals
  <2>2. /\ l.modes = <<IF hasMain THEN "outside" ELSE "page">> /\ l.hasMain = hasMain
        /\ l.rows = 0 /\ l.dropped = 0 /\ l.text = <<>>
    BY <2>1 DEF HtmlStart
  <2>3. PICK mode : /\ l.modes = <<mode>> /\ mode \in {"outside", "page"}
                    /\ mode = "outside" => l.hasMain
    BY <2>2
  <2>4. l.modes[0 + 1] = mode
    BY <2>3
  <2>5. ShapeOf(r, o, l, 0)
    BY <1>1, <2>3, <2>4 DEF ShapeOf, Plain
  <2>6. Covers(r, o) /\ Steps(r, o, l.modes) /\ ItemsOf(r, o, l)
    BY <1>1 DEF Covers, Steps, ItemsOf
  <2>7. RowsOf(l)
    BY <2>2 DEF RowsOf
  <2>8. \A k \in 0..Len(o) : ShapeOf(r, o, l, k)
    BY <1>1, <2>5
  <2>9. HtmlPlaced(r, o, l)
    BY <2>2, <2>6, <2>7, <2>8 DEF HtmlPlaced
  <2>10. HtmlFinds(r, <<>>, l)
    BY <1>1 DEF HtmlFinds
  <2>11. QED
    BY <2>9, <2>10
<1>6. QED
  BY <1>2, <1>3, <1>4, <1>5

\* Before a format is detected.
LEMMA InitLoss == ParsingInit => LossInv
<1> SUFFICES ASSUME ParsingInit PROVE LossInv
  OBVIOUS
<1>1. format = "undetected" /\ outcome = "none"
  BY DEF ParsingInit
<1>2. QED
  BY <1>1 DEF LossInv, LinesLoss, MarkdownLoss, DocxLoss, HtmlLoss, NothingElseIsLost, Parsed

\* The format is detected, or the source is refused.
LEMMA DetectLoss == ParsingInv /\ LossInv /\ Detect => LossInv'
<1> SUFFICES ASSUME ParsingInv, LossInv, Detect PROVE LossInv'
  OBVIOUS
<1>1. /\ format = "undetected" /\ read = <<>> /\ open = <<>> /\ blocks = <<>> /\ outcome = "none"
      /\ UNCHANGED <<read, open, blocks, title>>
  BY DEF Detect, ParsingInv, Form, Undetected, Five, Reading
<1>2. PICK f \in Formats : format' = f
  <2>1. format' = DetectFormat(upload.head, upload.ext)
    BY DEF Detect
  <2>2. DetectFormat(upload.head, upload.ext) \in Formats
    BY DEF DetectFormat, Formats, FormatOf
  <2>3. QED
    BY <2>1, <2>2
<1>3. (f \in Five \/ f = "unknown") /\ SourceFault("unknown") # "none" /\ SourceFault(f) # "parsed"
  BY DEF Formats, Five, SourceFault, ZipFault
<1>4. CASE SourceFault(f) # "none"
  <2>1. outcome' = SourceFault(f)
    BY <1>2, <1>4 DEF Detect, Finish
  <2>2. ~Reading' /\ ~Parsed'
    BY <1>3, <1>4, <2>1 DEF Reading, Parsed
  <2>3. QED
    BY <2>2 DEF LossInv, LinesLoss, MarkdownLoss, DocxLoss, HtmlLoss, NothingElseIsLost
<1>5. CASE SourceFault(f) = "none"
  <2>1. local' \in Locals(f) /\ outcome' = "none" /\ f \in Five
    BY <1>1, <1>2, <1>3, <1>5 DEF Detect
  <2>2. PICK l \in Locals(f) : l = local'
    BY <2>1
  <2>3. PICK r, o : r = <<>> /\ o = <<>>
    OBVIOUS
  <2>4. /\ f \in {"text", "pdf"} => l.next = 0
        /\ f = "markdown" => MarkdownFinds(r, o, l, <<>>)
        /\ f = "docx" => DocxFinds(r, l, <<>>) /\ DocxPlaced(r, o, l)
        /\ f = "html" => HtmlPlaced(r, o, l) /\ HtmlFinds(r, <<>>, l)
    BY <2>1, <2>3, StartingFinds
  <2>5. LinesLoss'
    BY <1>2, <2>2, <2>4 DEF LinesLoss
  <2>6. MarkdownLoss' /\ DocxLoss' /\ HtmlLoss'
    BY <1>1, <1>2, <2>2, <2>3, <2>4 DEF MarkdownLoss, DocxLoss, HtmlLoss
  <2>7. NothingElseIsLost'
    BY <2>1 DEF NothingElseIsLost, Parsed
  <2>8. QED
    BY <2>5, <2>6, <2>7 DEF LossInv
<1>6. QED
  BY <1>4, <1>5

\* Every step keeps account of what was read.
LEMMA NextLoss == ParsingInv /\ LossInv /\ [ParsingNext]_parseVars => LossInv'
<1> SUFFICES ASSUME ParsingInv, LossInv, [ParsingNext]_parseVars PROVE LossInv'
  OBVIOUS
<1>1. CASE LinesNext
  <2>1. format \in {"text", "pdf"} /\ format' = format
    BY <1>1 DEF LinesNext, ReadLine, StartLooking, TextLine, PdfLine, LinesEnd
  <2>2. LinesLoss' /\ NothingElseIsLost'
    BY <1>1, LinesLossKept DEF ParsingInv, LinesInv, LossInv
  <2>3. QED
    BY <2>1, <2>2 DEF LossInv, MarkdownLoss, DocxLoss, HtmlLoss
<1>2. CASE MdNext
  <2>1. format = "markdown" /\ format' = format
    BY <1>2 DEF MdNext, MdElement, MdText, MdImage, MdLeaf, MdRawHtml, MdFence, MdFrontMatter, MdEnd, MdEof
  <2>2. MarkdownLoss' /\ NothingElseIsLost'
    BY <1>2, MarkdownLossKept DEF ParsingInv, MarkdownInv, LossInv
  <2>3. QED
    BY <2>1, <2>2 DEF LossInv, LinesLoss, DocxLoss, HtmlLoss
<1>3. CASE DocxNext
  <2>1. format = "docx" /\ format' = format
    BY <1>3 DEF DocxNext, DocxElement, DocxText, DocxProperty, DocxImage, DocxEnd, DocxEof, DocxMalformed
  <2>2. DocxLoss' /\ NothingElseIsLost'
    BY <1>3, DocxLossKept DEF ParsingInv, DocxInv, LossInv
  <2>3. QED
    BY <2>1, <2>2 DEF LossInv, LinesLoss, MarkdownLoss, HtmlLoss
<1>4. CASE HtmlNext
  <2>1. format = "html" /\ format' = format
    BY <1>4 DEF HtmlNext, HtmlElement, HtmlText, HtmlTitle, HtmlImage, HtmlRule, HtmlEnd, HtmlEof
  <2>2. HtmlLoss' /\ NothingElseIsLost'
    BY <1>4, HtmlLossKept DEF ParsingInv, HtmlInv, LossInv
  <2>3. QED
    BY <2>1, <2>2 DEF LossInv, LinesLoss, MarkdownLoss, DocxLoss
<1>5. CASE UNCHANGED parseVars
  <2>1. UNCHANGED <<format, vocabulary, read, open, local, blocks, title, outcome>>
    BY <1>5 DEF parseVars
  <2>2. LinesLoss' /\ MarkdownLoss' /\ DocxLoss' /\ HtmlLoss'
    BY <2>1 DEF LossInv, LinesLoss, MarkdownLoss, DocxLoss, HtmlLoss, Reading
  <2>3. NothingElseIsLost' <=> NothingElseIsLost
    BY <2>1 DEF NothingElseIsLost, Parsed, Texts, Images, InDocument, Loses, Tag, Has, Around,
                DocxLoses, AfterTextBox, NotShown, Cost, Paid, Spent, HtmlLoses, Item, InItem,
                MarkdownLoses, Underlines
  <2>4. QED
    BY <2>2, <2>3 DEF LossInv
<1>6. QED
  BY <1>1, <1>2, <1>3, <1>4, <1>5, DetectLoss DEF ParsingNext

\* Nothing of any source is lost but for the cases that are spelled out: of a document that
\* was parsed, every text and every image is in one of its blocks, or is one the parser
\* of the format leaves out.
THEOREM NothingElseIsLostHolds == ParsingSpec => []NothingElseIsLost
<1>1. ParsingInit => LossInv
  BY InitLoss
<1>2. ParsingInv /\ LossInv /\ [ParsingNext]_parseVars => LossInv'
  BY NextLoss
<1>3. LossInv => NothingElseIsLost
  BY DEF LossInv
<1>4. QED
  BY <1>1, <1>2, <1>3, ParsingInvariant, PTL DEF ParsingSpec

=============================================================================
