--------------------------- MODULE WorkbenchProofs ---------------------------
(***************************************************************************)
(* What any sequence of calls of the editing and protecting functions makes *)
(* of a file, for all documents, texts, names, sizes and numbers of calls.  *)
(***************************************************************************)
EXTENDS Workbench, SequenceTheorems, FiniteSetTheorems, WellFoundedInduction, TLAPS

(* A set of natural numbers that is not empty has a smallest one: what an       *)
(* induction over the places of a sequence rests on.                            *)
LEMMA Smallest ==
  ASSUME NEW T, T \subseteq Nat, T # {}
  PROVE  \E x \in T : \A y \in T : ~ (y < x)
<1> DEFINE R == {ss \in Nat \X Nat : ss[1] < ss[2]}
<1>1. IsWellFoundedOn(R, Nat)
  BY NatLessThanWellFounded, Zenon DEF OpToRel
<1> HIDE DEF R
<1>2. PICK x \in T : \A y \in T : ~ (<<y, x>> \in R)
  BY <1>1, WFMin
<1>3. \A y \in T : ~ (y < x)
  BY <1>2 DEF R
<1> QED
  BY <1>3

LEMMA UpTo ==
  ASSUME NEW n \in Nat, NEW S, 0 \in S, \A k \in 0 .. n - 1 : k \in S => k + 1 \in S
  PROVE  0 .. n \subseteq S
<1> DEFINE T == (0 .. n) \ S
<1> SUFFICES ASSUME T # {} PROVE FALSE
  OBVIOUS
<1>1. T \subseteq Nat
  OBVIOUS
<1>2. PICK x \in T : \A y \in T : ~ (y < x)
  BY <1>1, Smallest
<1>3. x \in 1 .. n /\ x - 1 \in 0 .. n - 1 /\ x - 1 < x /\ (x - 1) + 1 = x
  OBVIOUS
<1>4. x - 1 \in S
  BY <1>2, <1>3
<1> QED
  BY <1>3, <1>4

-----------------------------------------------------------------------------
(* The function Only is defined by: it exists, and its values are sequences.     *)
Selects(f, seq, set) ==
  f = [n \in 0 .. Len(seq) |->
         IF n = 0 THEN <<>>
         ELSE IF seq[n] \in set THEN Append(f[n - 1], seq[n]) ELSE f[n - 1]]

LEMMA SelectionExists ==
  ASSUME NEW T, NEW seq \in Seq(T), NEW set
  PROVE  \E f : Selects(f, seq, set)
<1> DEFINE n == Len(seq)
           Next1(g, k) == IF k = 0 THEN <<>>
                          ELSE IF seq[k] \in set THEN Append(g[k - 1], seq[k]) ELSE g[k - 1]
           S == {m \in Nat : \E g : DOMAIN g = 0 .. m /\ \A k \in 0 .. m : g[k] = Next1(g, k)}
<1>0. n \in Nat
  OBVIOUS
<1>1. 0 \in S
  <2> DEFINE g == [k \in 0 .. 0 |-> <<>>]
  <2>1. DOMAIN g = 0 .. 0 /\ \A k \in 0 .. 0 : g[k] = Next1(g, k)
    OBVIOUS
  <2> QED
    BY <2>1
<1>2. ASSUME NEW m \in 0 .. n - 1, m \in S PROVE m + 1 \in S
  <2>1. PICK g : DOMAIN g = 0 .. m /\ \A k \in 0 .. m : g[k] = Next1(g, k)
    BY <1>2
  <2> DEFINE h == [k \in 0 .. m + 1 |-> IF k = m + 1 THEN Next1(g, m + 1) ELSE g[k]]
  <2>2. \A k \in 0 .. m + 1 : h[k] = IF k = m + 1 THEN Next1(g, m + 1) ELSE g[k]
    OBVIOUS
  <2>3. DOMAIN h = 0 .. m + 1
    OBVIOUS
  <2> HIDE DEF h
  <2>4. \A k \in 1 .. m + 1 : h[k - 1] = g[k - 1]
    BY <1>0, <2>2
  <2>5. \A k \in 0 .. m + 1 : h[k] = Next1(h, k)
    <3>1. ASSUME NEW k \in 0 .. m + 1 PROVE h[k] = Next1(h, k)
      <4>1. CASE k = 0
        <5>1. h[0] = g[0] /\ g[0] = <<>>
          BY <1>0, <2>1, <2>2
        <5> QED
          BY <4>1, <5>1
      <4>2. CASE k \in 1 .. m
        <5>1. h[k] = g[k] /\ g[k] = Next1(g, k) /\ h[k - 1] = g[k - 1] /\ k # 0
          BY <1>0, <2>1, <2>2, <2>4, <4>2
        <5> QED
          BY <5>1
      <4>3. CASE k = m + 1
        <5>1. h[k] = Next1(g, k) /\ h[k - 1] = g[k - 1] /\ k # 0
          BY <1>0, <2>2, <2>4, <4>3
        <5> QED
          BY <5>1
      <4> QED
        BY <1>0, <4>1, <4>2, <4>3
    <3> QED
      BY <3>1
  <2>6. m + 1 \in Nat
    BY <1>0
  <2> QED
    BY <2>3, <2>5, <2>6
<1> HIDE DEF S
<1>3. 0 .. n \subseteq S
  BY <1>0, <1>1, <1>2, UpTo
<1>4. n \in S
  BY <1>0, <1>3
<1>5. PICK g : DOMAIN g = 0 .. n /\ \A k \in 0 .. n : g[k] = Next1(g, k)
  BY <1>4 DEF S
<1> DEFINE f == [k \in 0 .. n |-> g[k]]
<1>6. \A k \in 0 .. n : f[k] = Next1(f, k)
  <2>1. \A k \in 0 .. n : k = 0 \/ k - 1 \in 0 .. n
    BY <1>0
  <2> QED
    BY <1>5, <2>1
<1>7. Selects(f, seq, set)
  BY <1>6 DEF Selects
<1> QED
  BY <1>7

LEMMA OnlyType ==
  ASSUME NEW T, NEW seq \in Seq(T), NEW set
  PROVE  Only(seq, set) \in Seq(T \cap set)
<1> DEFINE n == Len(seq)
           f == CHOOSE f : Selects(f, seq, set)
           S == {k \in 0 .. n : f[k] \in Seq(T \cap set)}
<1>1. Selects(f, seq, set)
  BY SelectionExists
<1>2. Only(seq, set) = f[n]
  BY Zenon DEF Only, Selects
<1> HIDE DEF f
<1>3. n \in Nat /\ \A k \in 1 .. n : seq[k] \in T
  OBVIOUS
<1>4. \A k \in 0 .. n : f[k] = IF k = 0 THEN <<>>
                               ELSE IF seq[k] \in set THEN Append(f[k - 1], seq[k]) ELSE f[k - 1]
  BY <1>1 DEF Selects
<1>5. 0 \in S
  <2>1. f[0] = <<>>
    BY <1>3, <1>4
  <2>2. f[0] \in Seq(T \cap set)
    BY <2>1
  <2>3. 0 \in 0 .. n
    BY <1>3
  <2> QED
    BY <2>2, <2>3
<1>6. ASSUME NEW k \in 0 .. n - 1, k \in S PROVE k + 1 \in S
  <2>1. k + 1 \in 1 .. n /\ (k + 1) - 1 = k /\ k + 1 # 0 /\ k + 1 \in 0 .. n
    BY <1>3
  <2>2. f[k + 1] = IF seq[k + 1] \in set THEN Append(f[k], seq[k + 1]) ELSE f[k]
    BY <1>4, <2>1
  <2>3. f[k] \in Seq(T \cap set) /\ seq[k + 1] \in T
    BY <1>3, <1>6, <2>1
  <2>4. seq[k + 1] \in set => Append(f[k], seq[k + 1]) \in Seq(T \cap set)
    BY <2>3
  <2> QED
    BY <2>1, <2>2, <2>3, <2>4
<1> HIDE DEF S
<1>7. 0 .. n \subseteq S
  BY <1>3, <1>5, <1>6, UpTo
<1> QED
  BY <1>2, <1>3, <1>7 DEF S

-----------------------------------------------------------------------------
(* What every call but sign and the redactions makes of the document.            *)
PageLists == Seq(PageRecords) \ {<<>>}

(* A copy of a page differs in nothing but where its links lead.                 *)
Same(before, after) ==
  /\ after \in PageRecords /\ after.drawn = before.drawn /\ after.images = before.images
  /\ DOMAIN after.annots = DOMAIN before.annots
  /\ \A k \in DOMAIN before.annots :
       /\ Content(after.annots[k]) = Content(before.annots[k])
       /\ after.annots[k].to \in {0, before.annots[k].to}

SameSignature(after) ==
  Signed(after) => Signed(doc) /\ Drawings(after.pages) = Drawings(doc.pages)

(* Links lead where they led, or to a page of the document, or nowhere.           *)
LinksFrom(before, after) ==
  \A a \in ToSet(after.annots) : a.kind = "Link" =>
    \/ a.to \in {0} \cup DOMAIN doc.pages
    \/ \E b \in ToSet(before.annots) : b.kind = "Link" /\ b.to = a.to

Coheres(after) == Whole(doc) => Whole(after)

(* PageKept, whatever the call: contents tells whether it keeps what annotations say. *)
Holds(before, after, contents) ==
  /\ before.drawn \subseteq after.drawn
  /\ contents => \A k \in DOMAIN before.annots : Content(after.annots[k]) = Content(before.annots[k])
  /\ Len(after.images) >= Len(before.images)
  /\ LinksFrom(before, after)

AllHold(before, after, contents) ==
  /\ DOMAIN after = DOMAIN before
  /\ \A i \in DOMAIN before : Holds(before[i], after[i], contents)

LEMMA PagesTyped ==
  ASSUME TypeOK
  PROVE  /\ doc.pages \in PageLists /\ doc.pages \in Seq(PageRecords)
         /\ DOMAIN doc.pages = 1 .. Len(doc.pages) /\ Len(doc.pages) \in Nat \ {0}
         /\ \A i \in DOMAIN doc.pages :
              /\ doc.pages[i] \in PageRecords
              /\ doc.pages[i].drawn \subseteq Drawables
              /\ doc.pages[i].images \in Seq(Images) /\ doc.pages[i].annots \in Seq(Annotations)
         /\ doc.info \in Infos /\ doc.catalog \in Catalogs /\ doc.lock \in Locks
<1>1. doc.pages \in PageLists /\ doc.info \in Infos /\ doc.catalog \in Catalogs /\ doc.lock \in Locks
  BY DEF TypeOK, DocumentRecords, PageLists
<1>2. /\ doc.pages \in Seq(PageRecords) /\ doc.pages # <<>>
      /\ DOMAIN doc.pages = 1 .. Len(doc.pages) /\ Len(doc.pages) \in Nat
      /\ \A i \in DOMAIN doc.pages : doc.pages[i] \in PageRecords
  BY <1>1 DEF PageLists
<1>3. Len(doc.pages) # 0
  BY <1>2
<1> QED
  BY <1>1, <1>2, <1>3 DEF PageRecords

(* A list with as many pages as another.                                         *)
LEMMA ListTyped ==
  ASSUME TypeOK, NEW pages, pages = [i \in DOMAIN doc.pages |-> pages[i]],
         \A i \in DOMAIN doc.pages : pages[i] \in PageRecords
  PROVE  pages \in PageLists
<1>1. DOMAIN doc.pages = 1 .. Len(doc.pages) /\ Len(doc.pages) \in Nat \ {0}
  BY PagesTyped
<1>2. pages \in [1 .. Len(doc.pages) -> PageRecords]
  BY <1>1
<1>3. pages \in Seq(PageRecords) /\ Len(pages) = Len(doc.pages)
  BY <1>1, <1>2
<1> QED
  BY <1>1, <1>3 DEF PageLists

LEMMA CopyIsSame ==
  ASSUME NEW page \in PageRecords
  PROVE  Same(page, [page EXCEPT !.annots = [k \in DOMAIN @ |-> [@[k] EXCEPT !.to = 0]]])
<1> DEFINE annots == [k \in DOMAIN page.annots |-> [page.annots[k] EXCEPT !.to = 0]]
           copy   == [page EXCEPT !.annots = annots]
<1>1. page.annots \in Seq(Annotations) /\ page.drawn \subseteq Drawables /\ page.images \in Seq(Images)
  BY DEF PageRecords
<1>2. DOMAIN page.annots = 1 .. Len(page.annots) /\ Len(page.annots) \in Nat
      /\ \A k \in DOMAIN page.annots : page.annots[k] \in Annotations
  BY <1>1
<1>3. \A k \in DOMAIN page.annots : /\ annots[k] \in Annotations
                                    /\ Content(annots[k]) = Content(page.annots[k])
                                    /\ annots[k].to = 0
  BY <1>2 DEF Annotations, Content
<1>4. annots \in Seq(Annotations) /\ DOMAIN annots = DOMAIN page.annots
  <2>1. annots \in [1 .. Len(page.annots) -> Annotations]
    BY <1>2, <1>3
  <2> QED
    BY <1>2, <2>1
<1> HIDE DEF annots
<1>5. copy \in PageRecords /\ copy.drawn = page.drawn /\ copy.images = page.images /\ copy.annots = annots
  BY <1>4 DEF PageRecords
<1>6. Same(page, copy)
  BY <1>3, <1>4, <1>5 DEF Same
<1> QED
  BY <1>6 DEF annots

LEMMA SameAsItself ==
  ASSUME NEW page \in PageRecords
  PROVE  Same(page, page)
BY DEF Same

LEMMA CopiesSame ==
  ASSUME TypeOK, NEW pages \in Copies(doc.pages)
  PROVE  /\ pages \in PageLists /\ pages \in Seq(PageRecords)
         /\ DOMAIN pages = DOMAIN doc.pages /\ Len(pages) = Len(doc.pages)
         /\ \A i \in DOMAIN doc.pages : Same(doc.pages[i], pages[i])
<1> DEFINE copies == [i \in DOMAIN doc.pages |->
             [doc.pages[i] EXCEPT !.annots = [k \in DOMAIN @ |-> [@[k] EXCEPT !.to = 0]]]]
<1>1. pages = doc.pages \/ pages = copies
  BY DEF Copies
<1>2. /\ doc.pages \in Seq(PageRecords) /\ doc.pages \in PageLists
      /\ \A i \in DOMAIN doc.pages : doc.pages[i] \in PageRecords
  BY PagesTyped
<1>3. CASE pages = doc.pages
  BY <1>2, <1>3, SameAsItself
<1>4. CASE pages = copies
  <2>1. \A i \in DOMAIN doc.pages : Same(doc.pages[i], pages[i])
    BY <1>2, <1>4, CopyIsSame
  <2>2. pages = [i \in DOMAIN doc.pages |-> pages[i]]
    BY <1>4
  <2>3. \A i \in DOMAIN doc.pages : pages[i] \in PageRecords
    BY <2>1 DEF Same
  <2>4. pages \in PageLists
    BY <2>2, <2>3, ListTyped
  <2>5. pages \in Seq(PageRecords) /\ DOMAIN pages = DOMAIN doc.pages
    BY <2>2, <2>4 DEF PageLists
  <2>6. Len(pages) = Len(doc.pages)
    BY <1>2, <2>5
  <2> QED
    BY <2>1, <2>4, <2>5, <2>6
<1> QED
  BY <1>1, <1>3, <1>4

LEMMA SameLinks ==
  ASSUME NEW before, NEW copy, Same(before, copy),
         NEW after, ToSet(after.annots) \subseteq ToSet(copy.annots)
  PROVE  LinksFrom(before, after)
<1>1. ASSUME NEW a \in ToSet(after.annots), a.kind = "Link"
      PROVE  \/ a.to \in {0} \cup DOMAIN doc.pages
             \/ \E b \in ToSet(before.annots) : b.kind = "Link" /\ b.to = a.to
  <2>1. PICK k \in DOMAIN copy.annots : a = copy.annots[k]
    BY DEF ToSet
  <2>2. /\ k \in DOMAIN before.annots /\ Content(a) = Content(before.annots[k])
        /\ a.to \in {0, before.annots[k].to}
    BY <2>1 DEF Same
  <2>3. before.annots[k] \in ToSet(before.annots)
    BY <2>2 DEF ToSet
  <2>4. before.annots[k].kind = "Link"
    BY <1>1, <2>2 DEF Content
  <2> QED
    BY <2>2, <2>3, <2>4
<1> QED
  BY <1>1 DEF LinksFrom

(* The fields that have a widget on a page.                                       *)
Widgets(page) == {a.field : a \in {a \in ToSet(page.annots) : a.kind = "Widget"}}

(* A list of annotations that differs from another in what they say.              *)
Relabelled(before, after) ==
  /\ DOMAIN after.annots = DOMAIN before.annots
  /\ \A k \in DOMAIN before.annots :
       /\ after.annots[k].kind = before.annots[k].kind
       /\ after.annots[k].field = before.annots[k].field
       /\ after.annots[k].to \in {0, before.annots[k].to}

LEMMA SameRelabelled ==
  ASSUME NEW before, NEW after, Same(before, after)
  PROVE  Relabelled(before, after)
BY DEF Same, Relabelled, Content

LEMMA RelabelledKeeps ==
  ASSUME NEW before, NEW page, LinksFrom(before, page), NEW after, Relabelled(page, after)
  PROVE  LinksFrom(before, after) /\ Widgets(after) = Widgets(page)
<1>1. ASSUME NEW a \in ToSet(after.annots), a.kind = "Link"
      PROVE  \/ a.to \in {0} \cup DOMAIN doc.pages
             \/ \E b \in ToSet(before.annots) : b.kind = "Link" /\ b.to = a.to
  <2>1. PICK k \in DOMAIN page.annots : a = after.annots[k]
    BY DEF ToSet, Relabelled
  <2>2. /\ page.annots[k] \in ToSet(page.annots) /\ page.annots[k].kind = "Link"
        /\ a.to \in {0, page.annots[k].to}
    BY <1>1, <2>1 DEF Relabelled, ToSet
  <2> QED
    BY <2>2 DEF LinksFrom
<1>2. \A k \in DOMAIN page.annots : /\ after.annots[k].kind = page.annots[k].kind
                                   /\ after.annots[k].field = page.annots[k].field
  BY DEF Relabelled
<1>3. DOMAIN after.annots = DOMAIN page.annots
  BY DEF Relabelled
<1>4. Widgets(after) = Widgets(page)
  BY <1>2, <1>3 DEF Widgets, ToSet
<1>5. LinksFrom(before, after)
  BY <1>1 DEF LinksFrom
<1> QED
  BY <1>4, <1>5

(* What /Fields leads to has the names of the form.                               *)
LEMMA FieldNames ==
  ASSUME NEW d, Whole(d)
  PROVE  {f.name : f \in FormFields(d)} = d.catalog.form
<1>1. CASE d.catalog.apart # {}
  BY <1>1 DEF Whole, FormFields
<1>2. CASE d.catalog.apart = {}
  <2>1. FormFields(d) = {FieldOf(a) : a \in FormWidgets(d)}
    BY <1>2 DEF FormFields
  <2>2. \A a : FieldOf(a).name = a.field
    BY DEF FieldOf
  <2>3. \A a \in FormWidgets(d) : a.field \in d.catalog.form
    BY DEF FormWidgets
  <2>4. \A name \in d.catalog.form : \E a \in FormWidgets(d) : a.field = name
    BY DEF Whole, FormWidgets
  <2> QED
    BY <2>1, <2>2, <2>3, <2>4
<1> QED
  BY <1>1, <1>2

(* Who keeps the form keeps the widgets of every page, and its fields or copies.  *)
LEMMA FormCoheres ==
  ASSUME NEW after, DOMAIN after.pages = DOMAIN doc.pages, after.catalog.form = doc.catalog.form,
         after.catalog.apart \in {doc.catalog.apart, FormFields(doc)},
         \A i \in DOMAIN doc.pages : /\ Widgets(after.pages[i]) = Widgets(doc.pages[i])
                                     /\ LinksFrom(doc.pages[i], after.pages[i])
  PROVE  Coheres(after)
<1> SUFFICES ASSUME Whole(doc) PROVE Whole(after)
  BY DEF Coheres
<1>1. ASSUME NEW name \in after.catalog.form
      PROVE  \E a \in AnnotsOf(after.pages) : a.kind = "Widget" /\ a.field = name
  <2>1. PICK a \in AnnotsOf(doc.pages) : a.kind = "Widget" /\ a.field = name
    BY DEF Whole
  <2>2. PICK i \in DOMAIN doc.pages : a \in ToSet(doc.pages[i].annots)
    BY DEF AnnotsOf
  <2>3. name \in Widgets(doc.pages[i])
    BY <2>1, <2>2 DEF Widgets
  <2>4. PICK b \in ToSet(after.pages[i].annots) : b.kind = "Widget" /\ b.field = name
    BY <2>3 DEF Widgets
  <2> QED
    BY <2>4 DEF AnnotsOf
<1>2. ASSUME NEW a \in AnnotsOf(after.pages), a.kind = "Widget", after.catalog.form # {}
      PROVE  a.field \in after.catalog.form
  <2>1. PICK i \in DOMAIN doc.pages : a \in ToSet(after.pages[i].annots)
    BY DEF AnnotsOf
  <2>2. a.field \in Widgets(doc.pages[i])
    BY <1>2, <2>1 DEF Widgets
  <2>3. PICK b \in ToSet(doc.pages[i].annots) : b.kind = "Widget" /\ b.field = a.field
    BY <2>2 DEF Widgets
  <2>4. b \in AnnotsOf(doc.pages)
    BY <2>3 DEF AnnotsOf
  <2> QED
    BY <1>2, <2>3, <2>4 DEF Whole
<1>3. ASSUME NEW a \in AnnotsOf(after.pages), a.kind = "Link"
      PROVE  a.to \in {0} \cup DOMAIN after.pages
  <2>1. PICK i \in DOMAIN doc.pages : a \in ToSet(after.pages[i].annots)
    BY DEF AnnotsOf
  <2>2. CASE \E b \in ToSet(doc.pages[i].annots) : b.kind = "Link" /\ b.to = a.to
    <3>1. PICK b \in ToSet(doc.pages[i].annots) : b.kind = "Link" /\ b.to = a.to
      BY <2>2
    <3>2. b \in AnnotsOf(doc.pages)
      BY <3>1 DEF AnnotsOf
    <3> QED
      BY <3>1, <3>2 DEF Whole
  <2> QED
    BY <1>3, <2>1, <2>2 DEF LinksFrom
<1>4. after.catalog.apart # {} => {f.name : f \in after.catalog.apart} = after.catalog.form
  BY FieldNames DEF Whole
<1> QED
  BY <1>1, <1>2, <1>3, <1>4 DEF Whole

Plain(catalog) == catalog.form = {} /\ catalog.apart = {}

(* Of a document without a form only the links are to be looked at.               *)
LEMMA PlainCoheres ==
  ASSUME TypeOK, NEW after \in DocumentRecords, NEW contents,
         AllHold(doc.pages, after.pages, contents), Plain(after.catalog)
  PROVE  Coheres(after)
<1> SUFFICES ASSUME Whole(doc) PROVE Whole(after)
  BY DEF Coheres
<1>1. DOMAIN after.pages = DOMAIN doc.pages
  BY DEF AllHold
<1>2. ASSUME NEW a \in AnnotsOf(after.pages), a.kind = "Link"
      PROVE  a.to \in {0} \cup DOMAIN doc.pages
  <2>1. PICK i \in DOMAIN doc.pages : a \in ToSet(after.pages[i].annots)
    BY <1>1 DEF AnnotsOf
  <2>2. LinksFrom(doc.pages[i], after.pages[i])
    BY DEF AllHold, Holds
  <2>3. CASE \E b \in ToSet(doc.pages[i].annots) : b.kind = "Link" /\ b.to = a.to
    <3>1. PICK b \in ToSet(doc.pages[i].annots) : b.kind = "Link" /\ b.to = a.to
      BY <2>3
    <3>2. b \in AnnotsOf(doc.pages)
      BY <3>1 DEF AnnotsOf
    <3> QED
      BY <3>1, <3>2 DEF Whole
  <2> QED
    BY <1>2, <2>1, <2>2, <2>3 DEF LinksFrom
<1> QED
  BY <1>1, <1>2 DEF Whole, Plain

(* A call named op that leaves the document after.                               *)
Right(op, after) ==
  /\ after \in DocumentRecords /\ SameSignature(after) /\ Coheres(after)
  /\ op \notin Makers => DOMAIN after.pages = DOMAIN doc.pages
  /\ op \notin Makers \cup Lossy => AllHold(doc.pages, after.pages, op \notin Flats \cup {"fill_form"})

LEMMA AllHoldSame ==
  ASSUME TypeOK, NEW pages \in PageLists, DOMAIN pages = DOMAIN doc.pages,
         \A i \in DOMAIN doc.pages : Same(doc.pages[i], pages[i])
  PROVE  AllHold(doc.pages, pages, TRUE) /\ Drawings(pages) = Drawings(doc.pages)
<1>1. \A i \in DOMAIN doc.pages : Len(doc.pages[i].images) \in Nat
  BY PagesTyped
<1>2. Drawings(pages) = Drawings(doc.pages)
  BY DEF Same, Drawings
<1>3. \A i \in DOMAIN doc.pages : LinksFrom(doc.pages[i], pages[i])
  BY SameLinks
<1> QED
  BY <1>1, <1>2, <1>3 DEF AllHold, Holds, Same

LEMMA RefusedRight ==
  ASSUME TypeOK, NEW op
  PROVE  Right(op, doc)
<1>1. AllHold(doc.pages, doc.pages, op \notin Flats \cup {"fill_form"})
  BY PagesTyped DEF AllHold, Holds, LinksFrom
<1> QED
  BY <1>1 DEF Right, SameSignature, Coheres, TypeOK

LEMMA CarriesRight ==
  ASSUME TypeOK, NEW op, NEW after \in DocumentRecords,
         AllHold(doc.pages, after.pages, TRUE), Drawings(after.pages) = Drawings(doc.pages),
         after.info["signer"] = doc.info["signer"], Coheres(after)
  PROVE  Right(op, after)
<1>1. AllHold(doc.pages, after.pages, op \notin Flats \cup {"fill_form"})
  BY DEF AllHold, Holds
<1>2. DOMAIN after.pages = DOMAIN doc.pages
  BY DEF AllHold
<1>3. SameSignature(after)
  BY DEF SameSignature, Signed
<1> QED
  BY <1>1, <1>2, <1>3 DEF Right

LEMMA DropsRight ==
  ASSUME TypeOK, NEW op, NEW after \in DocumentRecords,
         AllHold(doc.pages, after.pages, op \notin Flats \cup {"fill_form"}),
         after.info["signer"] = None, Coheres(after)
  PROVE  Right(op, after)
<1>1. DOMAIN after.pages = DOMAIN doc.pages
  BY DEF AllHold
<1>2. SameSignature(after)
  BY DEF SameSignature, Signed
<1> QED
  BY <1>1, <1>2 DEF Right

LEMMA MadeRight ==
  ASSUME NEW op \in Makers, NEW after \in DocumentRecords, after.info["signer"] = None, Whole(after)
  PROVE  Right(op, after)
BY DEF Right, SameSignature, Signed, Coheres

LEMMA InfosTyped ==
  /\ NoInfo \in Infos /\ NoInfo["signer"] = None
  /\ Fresh \in Infos /\ Fresh["signer"] = None
  /\ \A info \in Infos, new \in Infos :
       /\ Over(info, new) \in Infos
       /\ new["signer"] = None => Over(info, new)["signer"] = info["signer"]
       /\ info["signer"] = None => Over(info, new)["signer"] = new["signer"]
  /\ Bare \in Catalogs /\ Plain(Bare) /\ <<>> \in Locks
<1>1. NoInfo \in Infos /\ NoInfo["signer"] = None
  BY DEF NoInfo, Infos, Keys
<1>2. Fresh \in Infos /\ Fresh["signer"] = None
  <2>1. Tool \in Texts
    BY DEF Texts
  <2> QED
    BY <1>1, <2>1 DEF Fresh, Infos, Keys
<1>3. ASSUME NEW info \in Infos, NEW new \in Infos
      PROVE  /\ Over(info, new) \in Infos
             /\ new["signer"] = None => Over(info, new)["signer"] = info["signer"]
             /\ info["signer"] = None => Over(info, new)["signer"] = new["signer"]
  BY DEF Over, Infos, Keys
<1>4. Bare \in Catalogs /\ Plain(Bare)
  BY DEF Bare, Catalogs, Plain
<1> QED
  BY <1>1, <1>2, <1>3, <1>4 DEF Locks

LEMMA WrittenTyped ==
  ASSUME NEW pages \in PageLists, NEW info \in Infos, NEW catalog \in Catalogs
  PROVE  LET d == Written(pages, info, catalog) IN
         /\ d \in DocumentRecords
         /\ d.pages = pages /\ d.info = info /\ d.catalog = catalog /\ d.lock = <<>>
<1>1. <<>> \in Locks
  BY DEF Locks
<1>2. pages \in Seq(PageRecords) \ {<<>>}
  BY DEF PageLists
<1> QED
  BY <1>1, <1>2 DEF Written, DocumentRecords

LEMMA KeptTyped ==
  ASSUME TypeOK, NEW pages \in PageLists
  PROVE  /\ Kept(pages) \in DocumentRecords
         /\ Kept(pages).pages = pages /\ Kept(pages).info["signer"] = doc.info["signer"]
         /\ Kept(pages).info \in Infos /\ Kept(pages).catalog = Bare /\ Kept(pages).lock = <<>>
<1>1. Over(Fresh, doc.info) \in Infos /\ Over(Fresh, doc.info)["signer"] = doc.info["signer"] /\ Bare \in Catalogs
  BY InfosTyped, PagesTyped
<1> QED
  BY <1>1, WrittenTyped DEF Kept

LEMMA FreshTyped ==
  ASSUME NEW pages \in PageLists, NEW catalog \in Catalogs
  PROVE  LET d == Written(pages, Fresh, catalog) IN
         d \in DocumentRecords /\ d.pages = pages /\ d.info["signer"] = None /\ d.catalog = catalog
BY InfosTyped, WrittenTyped

-----------------------------------------------------------------------------
(* What a call named op that is neither sign nor a redaction makes true.          *)
Usual(op) ==
  /\ last'.op = op /\ last'.ok \in BOOLEAN /\ calls' \in 0 .. MaxCalls
  /\ sealed' = sealed /\ Right(op, doc')

LEMMA CalledTyped ==
  ASSUME TypeOK, NEW op, NEW given, NEW ok \in BOOLEAN, Called(op, given, ok)
  PROVE  /\ last'.op = op /\ last'.given = given /\ last'.ok = ok
         /\ last'.ok \in BOOLEAN /\ calls' \in 0 .. MaxCalls
BY SizesAssumption DEF TypeOK, Called

(* Drawing on a page.                                                            *)
Grown(before, after) ==
  /\ after \in PageRecords /\ before.drawn \subseteq after.drawn
  /\ after.annots = before.annots /\ Len(after.images) >= Len(before.images)

LEMMA DrawnPainted ==
  ASSUME NEW page \in PageRecords, NEW what \in SUBSET Drawables
  PROVE  Grown(page, page) /\ Grown(page, Drawn(page, what))
<1>1. page.images \in Seq(Images) /\ Len(page.images) \in Nat /\ page.drawn \subseteq Drawables
  BY DEF PageRecords
<1>2. /\ Drawn(page, what) \in PageRecords
      /\ Drawn(page, what).drawn = page.drawn \cup what
      /\ Drawn(page, what).images = page.images /\ Drawn(page, what).annots = page.annots
  BY DEF Drawn, PageRecords
<1> QED
  BY <1>1, <1>2 DEF Grown

LEMMA PicturedPainted ==
  ASSUME NEW page \in PageRecords, NEW size \in Sizes
  PROVE  Grown(page, Pictured(page, size))
<1> DEFINE image == [size |-> size, bits |-> 8]
           what  == {<<"image", size>>}
<1>1. page.images \in Seq(Images) /\ Len(page.images) \in Nat /\ page.drawn \subseteq Drawables
  BY DEF PageRecords
<1>2. image \in Images /\ what \subseteq Drawables
  BY DEF Images, Drawables
<1> HIDE DEF image
<1>3. Append(page.images, image) \in Seq(Images) /\ Len(Append(page.images, image)) = Len(page.images) + 1
  BY <1>1, <1>2
<1>4. Drawn(page, what) \in PageRecords /\ Drawn(page, what).drawn = page.drawn \cup what
      /\ Drawn(page, what).images = page.images /\ Drawn(page, what).annots = page.annots
  BY <1>2 DEF Drawn, PageRecords
<1>5. Pictured(page, size) = [Drawn(page, what) EXCEPT !.images = Append(page.images, image)]
  BY <1>4 DEF Pictured, image
<1> HIDE DEF what
<1>6. /\ Pictured(page, size) \in PageRecords
      /\ Pictured(page, size).drawn = page.drawn \cup what
      /\ Pictured(page, size).images = Append(page.images, image)
      /\ Pictured(page, size).annots = page.annots
  BY <1>3, <1>4, <1>5 DEF PageRecords
<1> QED
  BY <1>1, <1>3, <1>6 DEF Grown

(* An overlay drawn on copies of the pages.                                      *)
LEMMA OverlayRight ==
  ASSUME TypeOK, NEW pages \in Copies(doc.pages), NEW after,
         after = [i \in DOMAIN pages |-> after[i]],
         \A i \in DOMAIN pages : Grown(pages[i], after[i])
  PROVE  /\ Overlaid(after) \in DocumentRecords /\ Overlaid(after).info["signer"] = None
         /\ AllHold(doc.pages, Overlaid(after).pages, TRUE) /\ Plain(Overlaid(after).catalog)
<1>1. /\ DOMAIN pages = DOMAIN doc.pages
      /\ \A i \in DOMAIN doc.pages : Same(doc.pages[i], pages[i])
  BY CopiesSame
<1>2. after \in PageLists
  BY <1>1, ListTyped DEF Grown
<1>3. /\ Overlaid(after) \in DocumentRecords /\ Overlaid(after).info["signer"] = None
      /\ Overlaid(after).pages = after /\ Plain(Overlaid(after).catalog)
  BY <1>2, InfosTyped, FreshTyped DEF Overlaid
<1>4. AllHold(doc.pages, after, TRUE)
  <2>1. DOMAIN after = DOMAIN doc.pages
    BY <1>1
  <2>2. ASSUME NEW i \in DOMAIN doc.pages PROVE Holds(doc.pages[i], after[i], TRUE)
    <3>1. Same(doc.pages[i], pages[i]) /\ Grown(pages[i], after[i])
      BY <1>1
    <3>2. LinksFrom(doc.pages[i], after[i])
      BY <3>1, SameLinks DEF Grown
    <3> QED
      BY <3>1, <3>2 DEF Same, Grown, Holds
  <2> QED
    BY <2>1, <2>2 DEF AllHold
<1> QED
  BY <1>3, <1>4

LEMMA OverlayUsual ==
  ASSUME TypeOK, NEW op, NEW given, NEW ok \in BOOLEAN, Called(op, given, ok), sealed' = sealed,
         \/ doc' = doc
         \/ \E pages \in Copies(doc.pages) : \E after :
              /\ after = [i \in DOMAIN pages |-> after[i]]
              /\ \A i \in DOMAIN pages : Grown(pages[i], after[i])
              /\ doc' = Overlaid(after)
  PROVE  Usual(op)
<1>1. CASE doc' = doc
  BY <1>1, RefusedRight, CalledTyped DEF Usual
<1>2. ASSUME NEW pages \in Copies(doc.pages), NEW after, after = [i \in DOMAIN pages |-> after[i]],
             \A i \in DOMAIN pages : Grown(pages[i], after[i]), doc' = Overlaid(after)
      PROVE  Usual(op)
  <2>1. /\ doc' \in DocumentRecords /\ doc'.info["signer"] = None
        /\ AllHold(doc.pages, doc'.pages, TRUE) /\ Coheres(doc')
    BY <1>2, OverlayRight, PlainCoheres
  <2>2. AllHold(doc.pages, doc'.pages, op \notin Flats \cup {"fill_form"})
    BY <2>1 DEF AllHold, Holds
  <2>3. Right(op, doc')
    BY <2>1, <2>2, DropsRight
  <2> QED
    BY <2>3, CalledTyped DEF Usual
<1> QED
  BY <1>1, <1>2

LEMMA AddTextStep ==
  ASSUME TypeOK, NEW num \in PageNums, NEW term \in Terms, AddText(num, term)
  PROVE  Usual("add_text")
<1> DEFINE Paint(page) == Drawn(page, {<<"text", term>>})
<1>1. PICK pages \in Copies(doc.pages), ok \in BOOLEAN :
        /\ Called("add_text", <<num, term>>, ok) /\ sealed' = sealed
        /\ doc' = IF ok THEN Overlaid([i \in DOMAIN pages |-> IF i = num + 1 THEN Paint(pages[i]) ELSE pages[i]]) ELSE doc
  BY DEF AddText, Edit, Call, Called
<1> DEFINE after == [i \in DOMAIN pages |-> IF i = num + 1 THEN Paint(pages[i]) ELSE pages[i]]
<1>2. ASSUME ok PROVE \A i \in DOMAIN pages : Grown(pages[i], after[i])
  <2>1. ASSUME NEW page \in PageRecords PROVE Grown(page, page) /\ Grown(page, Paint(page))
    <3>1. {<<"text", term>>} \subseteq Drawables
      BY DEF Drawables, Texts
    <3> QED
      BY <3>1, DrawnPainted
  <2> HIDE DEF Paint
  <2>2. \A i \in DOMAIN pages : pages[i] \in PageRecords
    BY CopiesSame DEF Same
  <2> QED
    BY <2>1, <2>2
<1> HIDE DEF Paint
<1>3. after = [i \in DOMAIN pages |-> after[i]]
  OBVIOUS
<1> HIDE DEF after
<1>4. doc' = doc \/ (ok /\ doc' = Overlaid(after))
  BY <1>1 DEF after
<1>5. \/ doc' = doc
      \/ \E copies \in Copies(doc.pages) : \E drawn :
           /\ drawn = [i \in DOMAIN copies |-> drawn[i]]
           /\ \A i \in DOMAIN copies : Grown(copies[i], drawn[i])
           /\ doc' = Overlaid(drawn)
  BY <1>2, <1>3, <1>4
<1> QED
  BY <1>1, <1>5, OverlayUsual

LEMMA AddAnnotationStep ==
  ASSUME TypeOK, NEW num \in PageNums, NEW term \in Terms, NEW type, AddAnnotation(num, term, type)
  PROVE  Usual("add_annotation")
<1> DEFINE Paint(page) == Drawn(page, IF type = "text" THEN {<<"text", term>>} ELSE {<<"shape", "span">>})
<1>1. PICK pages \in Copies(doc.pages), ok \in BOOLEAN :
        /\ Called("add_annotation", <<num, term>>, ok) /\ sealed' = sealed
        /\ doc' = IF ok THEN Overlaid([i \in DOMAIN pages |-> IF i = num + 1 THEN Paint(pages[i]) ELSE pages[i]]) ELSE doc
  BY DEF AddAnnotation, Edit, Call, Called
<1> DEFINE after == [i \in DOMAIN pages |-> IF i = num + 1 THEN Paint(pages[i]) ELSE pages[i]]
<1>2. ASSUME ok PROVE \A i \in DOMAIN pages : Grown(pages[i], after[i])
  <2>1. ASSUME NEW page \in PageRecords PROVE Grown(page, page) /\ Grown(page, Paint(page))
    <3>1. {<<"text", term>>} \subseteq Drawables /\ {<<"shape", "span">>} \subseteq Drawables
      BY DEF Drawables, Texts
    <3> QED
      BY <3>1, DrawnPainted
  <2> HIDE DEF Paint
  <2>2. \A i \in DOMAIN pages : pages[i] \in PageRecords
    BY CopiesSame DEF Same
  <2> QED
    BY <2>1, <2>2
<1> HIDE DEF Paint
<1>3. after = [i \in DOMAIN pages |-> after[i]]
  OBVIOUS
<1> HIDE DEF after
<1>4. doc' = doc \/ (ok /\ doc' = Overlaid(after))
  BY <1>1 DEF after
<1>5. \/ doc' = doc
      \/ \E copies \in Copies(doc.pages) : \E drawn :
           /\ drawn = [i \in DOMAIN copies |-> drawn[i]]
           /\ \A i \in DOMAIN copies : Grown(copies[i], drawn[i])
           /\ doc' = Overlaid(drawn)
  BY <1>2, <1>3, <1>4
<1> QED
  BY <1>1, <1>5, OverlayUsual

LEMMA AddImageStep ==
  ASSUME TypeOK, NEW num \in PageNums, NEW size \in Sizes, AddImage(num, size)
  PROVE  Usual("add_image")
<1> DEFINE Paint(page) == Pictured(page, size)
<1>1. PICK pages \in Copies(doc.pages), ok \in BOOLEAN :
        /\ Called("add_image", <<num>>, ok) /\ sealed' = sealed
        /\ doc' = IF ok THEN Overlaid([i \in DOMAIN pages |-> IF i = num + 1 THEN Paint(pages[i]) ELSE pages[i]]) ELSE doc
  BY DEF AddImage, Edit, Call, Called
<1> DEFINE after == [i \in DOMAIN pages |-> IF i = num + 1 THEN Paint(pages[i]) ELSE pages[i]]
<1>2. ASSUME ok PROVE \A i \in DOMAIN pages : Grown(pages[i], after[i])
  <2>1. ASSUME NEW page \in PageRecords PROVE Grown(page, page) /\ Grown(page, Paint(page))
    BY PicturedPainted, DrawnPainted
  <2> HIDE DEF Paint
  <2>2. \A i \in DOMAIN pages : pages[i] \in PageRecords
    BY CopiesSame DEF Same
  <2> QED
    BY <2>1, <2>2
<1> HIDE DEF Paint
<1>3. after = [i \in DOMAIN pages |-> after[i]]
  OBVIOUS
<1> HIDE DEF after
<1>4. doc' = doc \/ (ok /\ doc' = Overlaid(after))
  BY <1>1 DEF after
<1>5. \/ doc' = doc
      \/ \E copies \in Copies(doc.pages) : \E drawn :
           /\ drawn = [i \in DOMAIN copies |-> drawn[i]]
           /\ \A i \in DOMAIN copies : Grown(copies[i], drawn[i])
           /\ doc' = Overlaid(drawn)
  BY <1>2, <1>3, <1>4
<1> QED
  BY <1>1, <1>5, OverlayUsual

LEMMA AddShapeStep ==
  ASSUME TypeOK, NEW num \in PageNums, NEW shape, AddShape(num, shape)
  PROVE  Usual("add_shape")
<1> DEFINE Paint(page) == Drawn(page, {<<"shape", shape>>})
<1>1. PICK pages \in Copies(doc.pages), ok \in BOOLEAN :
        /\ Called("add_shape", <<num>>, ok) /\ sealed' = sealed
        /\ ok => shape \in {"rect", "circle", "line"}
        /\ doc' = IF ok THEN Overlaid([i \in DOMAIN pages |-> IF i = num + 1 THEN Paint(pages[i]) ELSE pages[i]]) ELSE doc
  BY DEF AddShape, Edit, Call, Called
<1> DEFINE after == [i \in DOMAIN pages |-> IF i = num + 1 THEN Paint(pages[i]) ELSE pages[i]]
<1>2. ASSUME ok PROVE \A i \in DOMAIN pages : Grown(pages[i], after[i])
  <2>1. ASSUME NEW page \in PageRecords PROVE Grown(page, page) /\ Grown(page, Paint(page))
    <3>1. {<<"shape", shape>>} \subseteq Drawables
      BY <1>1, <1>2 DEF Drawables
    <3> QED
      BY <3>1, DrawnPainted
  <2> HIDE DEF Paint
  <2>2. \A i \in DOMAIN pages : pages[i] \in PageRecords
    BY CopiesSame DEF Same
  <2> QED
    BY <2>1, <2>2
<1> HIDE DEF Paint
<1>3. after = [i \in DOMAIN pages |-> after[i]]
  OBVIOUS
<1> HIDE DEF after
<1>4. doc' = doc \/ (ok /\ doc' = Overlaid(after))
  BY <1>1 DEF after
<1>5. \/ doc' = doc
      \/ \E copies \in Copies(doc.pages) : \E drawn :
           /\ drawn = [i \in DOMAIN copies |-> drawn[i]]
           /\ \A i \in DOMAIN copies : Grown(copies[i], drawn[i])
           /\ doc' = Overlaid(drawn)
  BY <1>2, <1>3, <1>4
<1> QED
  BY <1>1, <1>5, OverlayUsual

LEMMA AddTextWatermarkStep ==
  ASSUME TypeOK, NEW term \in Terms, AddTextWatermark(term)
  PROVE  Usual("add_text_watermark")
<1> DEFINE Paint(i, page, total) == Drawn(page, {<<"text", term>>})
<1>1. PICK pages \in Copies(doc.pages), ok \in BOOLEAN :
        /\ Called("add_text_watermark", <<term>>, ok) /\ sealed' = sealed
        /\ doc' = IF ok THEN Overlaid([i \in DOMAIN pages |-> Paint(i, pages[i], Len(pages))]) ELSE doc
  BY DEF AddTextWatermark, Call, Called
<1> DEFINE after == [i \in DOMAIN pages |-> Paint(i, pages[i], Len(pages))]
<1>2. ASSUME ok PROVE \A i \in DOMAIN pages : Grown(pages[i], after[i])
  <2>1. ASSUME NEW page \in PageRecords, NEW i \in Nat, NEW total \in Nat
        PROVE  Grown(page, Paint(i, page, total))
    <3>1. {<<"text", term>>} \subseteq Drawables
      BY DEF Drawables, Texts
    <3> QED
      BY <3>1, DrawnPainted
  <2> HIDE DEF Paint
  <2>2. Len(pages) \in Nat /\ \A i \in DOMAIN pages : i \in Nat /\ pages[i] \in PageRecords
    BY CopiesSame DEF Same
  <2> QED
    BY <2>1, <2>2
<1> HIDE DEF Paint
<1>3. after = [i \in DOMAIN pages |-> after[i]]
  OBVIOUS
<1> HIDE DEF after
<1>4. doc' = doc \/ (ok /\ doc' = Overlaid(after))
  BY <1>1 DEF after
<1>5. \/ doc' = doc
      \/ \E copies \in Copies(doc.pages) : \E drawn :
           /\ drawn = [i \in DOMAIN copies |-> drawn[i]]
           /\ \A i \in DOMAIN copies : Grown(copies[i], drawn[i])
           /\ doc' = Overlaid(drawn)
  BY <1>2, <1>3, <1>4
<1> QED
  BY <1>1, <1>5, OverlayUsual

LEMMA AddImageWatermarkStep ==
  ASSUME TypeOK, NEW size \in Sizes, NEW position, AddImageWatermark(size, position)
  PROVE  Usual("add_image_watermark")
<1> DEFINE Paint(i, page, total) == Pictured(page, size)
<1>1. PICK pages \in Copies(doc.pages), ok \in BOOLEAN :
        /\ Called("add_image_watermark", <<size>>, ok) /\ sealed' = sealed
        /\ doc' = IF ok THEN Overlaid([i \in DOMAIN pages |-> Paint(i, pages[i], Len(pages))]) ELSE doc
  BY DEF AddImageWatermark, Call, Called
<1> DEFINE after == [i \in DOMAIN pages |-> Paint(i, pages[i], Len(pages))]
<1>2. ASSUME ok PROVE \A i \in DOMAIN pages : Grown(pages[i], after[i])
  <2>1. ASSUME NEW page \in PageRecords, NEW i \in Nat, NEW total \in Nat
        PROVE  Grown(page, Paint(i, page, total))
    BY PicturedPainted
  <2> HIDE DEF Paint
  <2>2. Len(pages) \in Nat /\ \A i \in DOMAIN pages : i \in Nat /\ pages[i] \in PageRecords
    BY CopiesSame DEF Same
  <2> QED
    BY <2>1, <2>2
<1> HIDE DEF Paint
<1>3. after = [i \in DOMAIN pages |-> after[i]]
  OBVIOUS
<1> HIDE DEF after
<1>4. doc' = doc \/ (ok /\ doc' = Overlaid(after))
  BY <1>1 DEF after
<1>5. \/ doc' = doc
      \/ \E copies \in Copies(doc.pages) : \E drawn :
           /\ drawn = [i \in DOMAIN copies |-> drawn[i]]
           /\ \A i \in DOMAIN copies : Grown(copies[i], drawn[i])
           /\ doc' = Overlaid(drawn)
  BY <1>2, <1>3, <1>4
<1> QED
  BY <1>1, <1>5, OverlayUsual

LEMMA AddHeadersFootersStep ==
  ASSUME TypeOK, NEW term \in Terms, NEW start \in Int, AddHeadersFooters(term, start)
  PROVE  Usual("add_headers_footers")
<1> DEFINE Paint(i, page, total) == IF i < start THEN page ELSE Drawn(page, {<<"text", term>>, Footer(i, total, start)})
<1>1. PICK pages \in Copies(doc.pages), ok \in BOOLEAN :
        /\ Called("add_headers_footers", <<term, start>>, ok) /\ sealed' = sealed
        /\ doc' = IF ok THEN Overlaid([i \in DOMAIN pages |-> Paint(i, pages[i], Len(pages))]) ELSE doc
  BY DEF AddHeadersFooters, Call, Called
<1> DEFINE after == [i \in DOMAIN pages |-> Paint(i, pages[i], Len(pages))]
<1>2. ASSUME ok PROVE \A i \in DOMAIN pages : Grown(pages[i], after[i])
  <2>1. ASSUME NEW page \in PageRecords, NEW i \in Nat, NEW total \in Nat
        PROVE  Grown(page, Paint(i, page, total))
    <3>1. {<<"text", term>>, <<"footer", i, total>>} \subseteq Drawables
      BY DEF Drawables, Texts
    <3> QED
      BY <3>1, DrawnPainted DEF Footer
  <2> HIDE DEF Paint
  <2>2. Len(pages) \in Nat /\ \A i \in DOMAIN pages : i \in Nat /\ pages[i] \in PageRecords
    BY CopiesSame DEF Same
  <2> QED
    BY <2>1, <2>2
<1> HIDE DEF Paint
<1>3. after = [i \in DOMAIN pages |-> after[i]]
  OBVIOUS
<1> HIDE DEF after
<1>4. doc' = doc \/ (ok /\ doc' = Overlaid(after))
  BY <1>1 DEF after
<1>5. \/ doc' = doc
      \/ \E copies \in Copies(doc.pages) : \E drawn :
           /\ drawn = [i \in DOMAIN copies |-> drawn[i]]
           /\ \A i \in DOMAIN copies : Grown(copies[i], drawn[i])
           /\ doc' = Overlaid(drawn)
  BY <1>2, <1>3, <1>4
<1> QED
  BY <1>1, <1>5, OverlayUsual

-----------------------------------------------------------------------------
(* Annotating: the page keeps what it had and what is drawn on it.               *)
LEMMA UsualCall ==
  ASSUME TypeOK, NEW op, NEW given, NEW ok \in BOOLEAN, Called(op, given, ok), sealed' = sealed,
         doc' = doc \/ Right(op, doc')
  PROVE  Usual(op)
<1>1. Right(op, doc')
  BY RefusedRight
<1> QED
  BY <1>1, CalledTyped DEF Usual

LEMMA KeptRight ==
  ASSUME TypeOK, NEW op, NEW pages \in PageLists, AllHold(doc.pages, pages, TRUE),
         Drawings(pages) = Drawings(doc.pages)
  PROVE  Right(op, Kept(pages))
<1>1. Coheres(Kept(pages))
  BY KeptTyped, InfosTyped, PlainCoheres
<1> QED
  BY <1>1, KeptTyped, CarriesRight

LEMMA KeptCopyRight ==
  ASSUME TypeOK, NEW op, NEW pages \in Copies(doc.pages)
  PROVE  Right(op, Kept(pages))
<1>1. /\ pages \in PageLists /\ DOMAIN pages = DOMAIN doc.pages
      /\ \A i \in DOMAIN doc.pages : Same(doc.pages[i], pages[i])
  BY CopiesSame
<1> QED
  BY <1>1, AllHoldSame, KeptRight

LEMMA AnnotatedKeeps ==
  ASSUME TypeOK, NEW pages \in Copies(doc.pages), NEW num, InRange(num), NEW annot \in Annotations,
         annot.kind = "Link" => annot.to \in {0} \cup DOMAIN doc.pages
  PROVE  LET after == Annotated(pages, num, annot) IN
         /\ after \in PageLists /\ AllHold(doc.pages, after, TRUE)
         /\ Drawings(after) = Drawings(doc.pages)
<1> DEFINE after == Annotated(pages, num, annot)
           n     == num + 1
<1>1. /\ pages \in Seq(PageRecords) /\ DOMAIN pages = DOMAIN doc.pages
      /\ \A i \in DOMAIN doc.pages : Same(doc.pages[i], pages[i])
  BY CopiesSame
<1>2. n \in DOMAIN doc.pages
  BY DEF InRange
<1>3. after = [i \in DOMAIN pages |->
                 IF i = n THEN [pages[n] EXCEPT !.annots = Append(pages[n].annots, annot)] ELSE pages[i]]
  BY <1>1, <1>2 DEF Annotated
<1> HIDE DEF after, n
<1>4. DOMAIN after = DOMAIN doc.pages /\ after = [i \in DOMAIN doc.pages |-> after[i]]
  BY <1>1, <1>3
<1>5. ASSUME NEW i \in DOMAIN doc.pages
      PROVE  after[i] \in PageRecords /\ Holds(doc.pages[i], after[i], TRUE)
             /\ after[i].drawn = doc.pages[i].drawn
  <2>1. Same(doc.pages[i], pages[i]) /\ pages[i] \in PageRecords
    BY <1>1 DEF Same
  <2>2. Len(doc.pages[i].images) \in Nat
    BY PagesTyped
  <2>3. CASE i # n
    <3>1. after[i] = pages[i]
      BY <1>1, <1>3, <2>3
    <3>2. LinksFrom(doc.pages[i], after[i])
      BY <2>1, <3>1, SameLinks
    <3> QED
      BY <2>1, <2>2, <3>1, <3>2 DEF Holds, Same
  <2>4. CASE i = n
    <3> DEFINE annots == Append(pages[n].annots, annot)
    <3>1. after[i] = [pages[n] EXCEPT !.annots = annots]
      BY <1>1, <1>3, <2>4
    <3>2. pages[n].annots \in Seq(Annotations)
      BY <2>1, <2>4 DEF PageRecords
    <3>3. annots \in Seq(Annotations) /\ \A k \in DOMAIN pages[n].annots : annots[k] = pages[n].annots[k]
      BY <3>2
    <3>a. ToSet(annots) \subseteq ToSet(pages[n].annots) \cup {annot}
      BY <3>2 DEF ToSet
    <3> HIDE DEF annots
    <3>4. after[i] \in PageRecords /\ after[i].drawn = pages[n].drawn
          /\ after[i].images = pages[n].images /\ after[i].annots = annots
      BY <2>1, <2>4, <3>1, <3>3 DEF PageRecords
    <3>5. \A k \in DOMAIN doc.pages[i].annots : Content(annots[k]) = Content(doc.pages[i].annots[k])
      BY <2>1, <2>4, <3>3 DEF Same
    <3>6. LinksFrom(doc.pages[i], after[i])
      <4>1. LinksFrom(doc.pages[i], pages[n])
        BY <2>1, <2>4, SameLinks
      <4> QED
        BY <3>a, <3>4, <4>1 DEF LinksFrom
    <3> QED
      BY <2>1, <2>2, <2>4, <3>4, <3>5, <3>6 DEF Holds, Same
  <2> QED
    BY <2>3, <2>4
<1>6. after \in PageLists
  BY <1>4, <1>5, ListTyped
<1>7. AllHold(doc.pages, after, TRUE)
  BY <1>4, <1>5 DEF AllHold
<1>8. Drawings(after) = Drawings(doc.pages)
  BY <1>4, <1>5 DEF Drawings
<1> QED
  BY <1>6, <1>7, <1>8 DEF after

LEMMA AnnotateStep ==
  ASSUME TypeOK, NEW op, NEW given, NEW num, NEW accepted, NEW annot,
         accepted => /\ annot \in Annotations
                     /\ annot.kind = "Link" => annot.to \in {0} \cup DOMAIN doc.pages,
         Annotate(op, given, num, accepted, annot)
  PROVE  Usual(op)
<1>1. PICK pages \in Copies(doc.pages), ok \in BOOLEAN :
        /\ Called(op, given, ok) /\ sealed' = sealed
        /\ ok => InRange(num) /\ accepted
        /\ doc' = IF ok THEN Kept(Annotated(pages, num, annot)) ELSE doc
  BY DEF Annotate, Call, Called
<1>2. ok => /\ InRange(num) /\ annot \in Annotations
            /\ annot.kind = "Link" => annot.to \in {0} \cup DOMAIN doc.pages
  BY <1>1
<1>3. ASSUME ok PROVE Right(op, Kept(Annotated(pages, num, annot)))
  <2>1. /\ Annotated(pages, num, annot) \in PageLists
        /\ AllHold(doc.pages, Annotated(pages, num, annot), TRUE)
        /\ Drawings(Annotated(pages, num, annot)) = Drawings(doc.pages)
    BY <1>2, <1>3, AnnotatedKeeps
  <2> QED
    BY <2>1, KeptRight
<1>4. doc' = doc \/ Right(op, doc')
  BY <1>1, <1>3
<1> QED
  BY <1>1, <1>4, UsualCall

LEMMA AnnotTyped ==
  ASSUME NEW kind \in Kinds, NEW says \in Texts \cup {None}
  PROVE  /\ Annot(kind, says) \in Annotations /\ Annot(kind, says).to = 0
         /\ Annot(kind, says).kind = kind /\ Annot(kind, says).says = says
BY DEF Annot, Annotations

LEMMA AnnotatingStep ==
  ASSUME TypeOK, Annotating
  PROVE  \E op : op \in {"mark_area", "add_sticky_note", "add_text_comment", "add_link",
                         "add_internal_link"} /\ Usual(op)
<1>1. PICK num \in PageNums :
        \/ \E kind \in {"Highlight", "Underline", "StrikeOut"} : MarkArea(num, kind)
        \/ \E term \in Terms, icon \in {"Note", "other"} : AddStickyNote(num, term, icon)
        \/ \E term \in Terms : AddTextComment(num, term)
        \/ \E url \in Terms : AddLink(num, url)
        \/ \E to \in PageNums : AddInternalLink(num, to)
  BY DEF Annotating
<1>2. ASSUME NEW kind \in {"Highlight", "Underline", "StrikeOut"}, MarkArea(num, kind)
      PROVE  Usual("mark_area")
  <2>1. Annot(kind, None) \in Annotations /\ Annot(kind, None).to = 0
    BY AnnotTyped DEF Kinds, Markups
  <2> QED
    BY <1>2, <2>1, AnnotateStep DEF MarkArea
<1>3. ASSUME NEW term \in Terms, NEW icon, AddStickyNote(num, term, icon)
      PROVE  Usual("add_sticky_note")
  <2>1. Annot("Text", term) \in Annotations /\ Annot("Text", term).to = 0
    BY AnnotTyped DEF Kinds, Markups, Texts
  <2> QED
    BY <1>3, <2>1, AnnotateStep DEF AddStickyNote
<1>4. ASSUME NEW term \in Terms, AddTextComment(num, term)
      PROVE  Usual("add_text_comment")
  <2>1. Annot("FreeText", term) \in Annotations /\ Annot("FreeText", term).to = 0
    BY AnnotTyped DEF Kinds, Markups, Texts
  <2> QED
    BY <1>4, <2>1, AnnotateStep DEF AddTextComment
<1>5. ASSUME NEW url \in Terms, AddLink(num, url)
      PROVE  Usual("add_link")
  <2>1. Annot("Link", url) \in Annotations /\ Annot("Link", url).to = 0
    BY AnnotTyped DEF Kinds, Texts
  <2> QED
    BY <1>5, <2>1, AnnotateStep DEF AddLink
<1>6. ASSUME NEW to \in PageNums, AddInternalLink(num, to)
      PROVE  Usual("add_internal_link")
  <2>1. Annot("Link", None) \in Annotations
    BY AnnotTyped DEF Kinds
  <2>2. InRange(to) => to + 1 \in Nat
    BY PagesTyped DEF InRange
  <2>3. InRange(to) => /\ [Annot("Link", None) EXCEPT !.to = to + 1] \in Annotations
                       /\ [Annot("Link", None) EXCEPT !.to = to + 1].to \in DOMAIN doc.pages
    BY <2>1, <2>2 DEF Annotations, InRange
  <2> QED
    BY <1>6, <2>3, AnnotateStep DEF AddInternalLink
<1> QED
  BY <1>1, <1>2, <1>3, <1>4, <1>5, <1>6

-----------------------------------------------------------------------------
(* Flattening and filling: what the pages show stays, what annotations say goes. *)
LEMMA OnlyTyped ==
  ASSUME NEW T, NEW seq \in Seq(T), NEW set
  PROVE  Only(seq, set) \in Seq(T)
<1>1. Only(seq, set) \in Seq(T \cap set)
  BY OnlyType
<1> QED
  BY <1>1

LEMMA OnlyWithin ==
  ASSUME NEW T, NEW seq \in Seq(T), NEW set
  PROVE  ToSet(Only(seq, set)) \subseteq ToSet(seq) \cap set
<1> DEFINE R == ToSet(seq)
<1>1. seq \in Seq(R)
  BY DEF ToSet
<1> HIDE DEF R
<1>2. Only(seq, set) \in Seq(R \cap set)
  BY <1>1, OnlyType
<1> DEFINE U == R \cap set
           only == Only(seq, set)
<1> HIDE DEF U, only
<1>3. only \in Seq(U)
  BY <1>2 DEF U, only
<1>4. \A k \in DOMAIN only : only[k] \in U
  BY <1>3
<1> QED
  BY <1>4 DEF U, R, only, ToSet

LEMMA Appends ==
  ASSUME NEW T, NEW old \in Seq(T), NEW x \in T
  PROVE  LET new == Append(old, x) IN
         /\ new \in Seq(T) /\ Len(new) = Len(old) + 1
         /\ Len(old) + 1 \in DOMAIN new /\ new[Len(old) + 1] = x
         /\ \A p \in DOMAIN old : p \in DOMAIN new /\ new[p] = old[p]
OBVIOUS

(* ... and all of them.                                                          *)
LEMMA OnlyAll ==
  ASSUME NEW T, NEW seq \in Seq(T), NEW set, NEW k \in DOMAIN seq, seq[k] \in set
  PROVE  seq[k] \in ToSet(Only(seq, set))
<1> DEFINE n == Len(seq)
           f == CHOOSE f : Selects(f, seq, set)
           U == T \cap set
           S == {m \in 0 .. n : /\ f[m] \in Seq(U)
                                /\ k <= m => \E p \in DOMAIN f[m] : f[m][p] = seq[k]}
<1>1. Selects(f, seq, set)
  BY SelectionExists
<1>2. Only(seq, set) = f[n]
  BY Zenon DEF Only, Selects
<1> HIDE DEF f
<1>3. n \in Nat /\ k \in 1 .. n /\ \A m \in 1 .. n : seq[m] \in T
  OBVIOUS
<1>4. \A m \in 0 .. n : f[m] = IF m = 0 THEN <<>>
                               ELSE IF seq[m] \in set THEN Append(f[m - 1], seq[m]) ELSE f[m - 1]
  BY <1>1 DEF Selects
<1>5. 0 \in S
  <2>1. f[0] = <<>> /\ 0 \in 0 .. n
    BY <1>3, <1>4
  <2>2. f[0] \in Seq(U) /\ ~ (k <= 0)
    BY <1>3, <2>1
  <2> QED
    BY <2>1, <2>2
<1>6. ASSUME NEW m \in 0 .. n - 1, m \in S PROVE m + 1 \in S
  <2>1. m + 1 \in 1 .. n /\ (m + 1) - 1 = m /\ m + 1 # 0 /\ m + 1 \in 0 .. n
    BY <1>3
  <2>2. f[m + 1] = IF seq[m + 1] \in set THEN Append(f[m], seq[m + 1]) ELSE f[m]
    BY <1>4, <2>1
  <2>3. /\ f[m] \in Seq(U)
        /\ k <= m => \E p \in DOMAIN f[m] : f[m][p] = seq[k]
        /\ seq[m + 1] \in T
    BY <1>3, <1>6, <2>1
  <2>4. CASE seq[m + 1] \in set
    <3>1. seq[m + 1] \in U
      BY <2>3, <2>4
    <3>2. f[m + 1] = Append(f[m], seq[m + 1])
      BY <2>2, <2>4
    <3>3. f[m] \in Seq(U)
      BY <2>3
    <3> HIDE DEF U
    <3>4. /\ f[m + 1] \in Seq(U) /\ Len(f[m]) + 1 \in DOMAIN f[m + 1]
          /\ f[m + 1][Len(f[m]) + 1] = seq[m + 1]
          /\ \A p \in DOMAIN f[m] : p \in DOMAIN f[m + 1] /\ f[m + 1][p] = f[m][p]
      BY <3>1, <3>2, <3>3, Appends
    <3>5. k <= m + 1 => \E p \in DOMAIN f[m + 1] : f[m + 1][p] = seq[k]
      <4>1. CASE k <= m
        BY <2>3, <3>4, <4>1
      <4>2. CASE k = m + 1
        BY <3>4, <4>2
      <4> QED
        BY <1>3, <2>1, <4>1, <4>2
    <3> QED
      BY <2>1, <3>4, <3>5
  <2>5. CASE seq[m + 1] \notin set
    <3>1. f[m + 1] = f[m] /\ (k <= m + 1 => k <= m)
      <4>1. k # m + 1
        BY <2>5
      <4> QED
        BY <1>3, <2>1, <2>2, <2>5, <4>1
    <3> QED
      BY <2>1, <2>3, <3>1
  <2> QED
    BY <2>4, <2>5
<1> HIDE DEF S
<1>7. 0 .. n \subseteq S
  BY <1>3, <1>5, <1>6, UpTo
<1>8. n \in S
  BY <1>3, <1>7
<1>9. \E p \in DOMAIN f[n] : f[n][p] = seq[k]
  BY <1>3, <1>8 DEF S
<1> QED
  BY <1>2, <1>9 DEF ToSet

LEMMA FlattenedTyped ==
  ASSUME NEW page \in PageRecords, NEW kinds, NEW merged \in BOOLEAN
  PROVE  LET after == Flattened(page, kinds, merged) IN
         /\ after \in PageRecords /\ page.drawn \subseteq after.drawn /\ after.images = page.images
         /\ ToSet(after.annots) \subseteq ToSet(page.annots)
<1> DEFINE going  == {a \in ToSet(page.annots) : a.kind \in kinds}
           shown  == {a \in going : merged /\ a.look}
           looks  == {<<"look", a.kind>> : a \in shown}
           texts  == {<<"text", a.says>> : a \in {a \in shown : a.says # None}}
           annots == Only(page.annots, ToSet(page.annots) \ going)
<1>1. page.annots \in Seq(Annotations) /\ page.drawn \subseteq Drawables /\ page.images \in Seq(Images)
  BY DEF PageRecords
<1>2. annots \in Seq(Annotations) /\ ToSet(annots) \subseteq ToSet(page.annots)
  BY <1>1, OnlyTyped, OnlyWithin
<1>3. \A a \in ToSet(page.annots) : a \in Annotations
  BY <1>1 DEF ToSet
<1>4. looks \subseteq Drawables
  <2>1. \A a \in ToSet(page.annots) : <<"look", a.kind>> \in Drawables
    BY <1>3 DEF Drawables, Annotations
  <2> QED
    BY <2>1
<1>5. texts \subseteq Drawables
  <2>1. \A a \in ToSet(page.annots) : a.says # None => <<"text", a.says>> \in Drawables
    BY <1>3 DEF Drawables, Annotations
  <2> QED
    BY <2>1
<1>6. Flattened(page, kinds, merged) = [page EXCEPT !.drawn = page.drawn \cup looks \cup texts, !.annots = annots]
  BY DEF Flattened
<1> HIDE DEF looks, texts, annots
<1> QED
  BY <1>1, <1>2, <1>4, <1>5, <1>6 DEF PageRecords

LEMMA FlattenStep ==
  ASSUME TypeOK, NEW op \in Flats, NEW kinds, Flatten(op, kinds)
  PROVE  Usual(op)
<1>0. PICK merged \in BOOLEAN :
        Call(op, <<kinds>>, TRUE, LAMBDA pages :
          Written([i \in DOMAIN pages |-> Flattened(pages[i], kinds, merged)], Fresh, Formless))
  BY DEF Flatten
<1>1. PICK pages \in Copies(doc.pages), ok \in BOOLEAN :
        /\ Called(op, <<kinds>>, ok) /\ sealed' = sealed
        /\ doc' = IF ok THEN Written([i \in DOMAIN pages |-> Flattened(pages[i], kinds, merged)], Fresh, Formless)
                  ELSE doc
  BY <1>0 DEF Call, Called
<1> DEFINE after == [i \in DOMAIN pages |-> Flattened(pages[i], kinds, merged)]
<1>2. /\ DOMAIN pages = DOMAIN doc.pages
      /\ \A i \in DOMAIN doc.pages : Same(doc.pages[i], pages[i]) /\ pages[i] \in PageRecords
  BY CopiesSame DEF Same
<1>3. DOMAIN after = DOMAIN doc.pages /\ after = [i \in DOMAIN doc.pages |-> after[i]]
      /\ \A i \in DOMAIN doc.pages : after[i] = Flattened(pages[i], kinds, merged)
  BY <1>2
<1> HIDE DEF after
<1>4. ASSUME NEW i \in DOMAIN doc.pages
      PROVE  after[i] \in PageRecords /\ Holds(doc.pages[i], after[i], FALSE)
  <2>1. Same(doc.pages[i], pages[i]) /\ pages[i] \in PageRecords /\ Len(doc.pages[i].images) \in Nat
    BY <1>2, PagesTyped
  <2>2. LET flat == Flattened(pages[i], kinds, merged) IN
        /\ flat \in PageRecords /\ pages[i].drawn \subseteq flat.drawn /\ flat.images = pages[i].images
        /\ ToSet(flat.annots) \subseteq ToSet(pages[i].annots)
    BY <2>1, FlattenedTyped
  <2>3. /\ after[i] \in PageRecords /\ pages[i].drawn \subseteq after[i].drawn /\ after[i].images = pages[i].images
        /\ ToSet(after[i].annots) \subseteq ToSet(pages[i].annots)
    BY <1>3, <2>2
  <2>4. LinksFrom(doc.pages[i], after[i])
    BY <2>1, <2>3, SameLinks
  <2> QED
    BY <2>1, <2>3, <2>4 DEF Holds, Same
<1>5. after \in PageLists /\ AllHold(doc.pages, after, FALSE)
  BY <1>3, <1>4, ListTyped DEF AllHold
<1> DEFINE d == Written(after, Fresh, Formless)
<1>6. d \in DocumentRecords /\ d.pages = after /\ d.info["signer"] = None /\ Plain(d.catalog)
  BY <1>5, InfosTyped, FreshTyped DEF Formless
<1> HIDE DEF d
<1>7. Right(op, d)
  <2>1. AllHold(doc.pages, d.pages, op \notin Flats \cup {"fill_form"})
    BY <1>5, <1>6 DEF AllHold, Holds
  <2> QED
    BY <1>6, <2>1, PlainCoheres, DropsRight
<1>8. doc' = doc \/ Right(op, doc')
  BY <1>1, <1>7 DEF after, d
<1> QED
  BY <1>1, <1>8, UsualCall

LEMMA FlatteningStep ==
  ASSUME TypeOK, Flattening
  PROVE  \E op \in Flats : Usual(op)
<1>1. \E op \in Flats : \E kinds : Flatten(op, kinds)
  BY DEF Flattening, FlattenForms, FlattenAnnotations, FlattenAll, Flats
<1> QED
  BY <1>1, FlattenStep

LEMMA FormFieldsTyped ==
  ASSUME TypeOK
  PROVE  FormFields(doc) \subseteq FieldRecords
<1>1. doc.catalog.apart \subseteq FieldRecords /\ doc.catalog.form \subseteq Names
  BY PagesTyped DEF Catalogs
<1>2. ASSUME NEW a \in FormWidgets(doc) PROVE FieldOf(a) \in FieldRecords
  <2>1. PICK i \in DOMAIN doc.pages : a \in ToSet(doc.pages[i].annots)
    BY DEF FormWidgets, AnnotsOf
  <2>2. doc.pages[i].annots \in Seq(Annotations)
    BY PagesTyped
  <2>3. a \in Annotations /\ a.field \in Names
    BY <1>1, <2>1, <2>2 DEF ToSet, FormWidgets
  <2> QED
    BY <2>3 DEF FieldOf, FieldRecords, Annotations
<1> QED
  BY <1>1, <1>2 DEF FormFields

LEMMA FillFormStep ==
  ASSUME TypeOK, NEW data \in Fills, FillForm(data)
  PROVE  Usual("fill_form")
<1> DEFINE catalog == [Bare EXCEPT !.form = doc.catalog.form, !.apart = FormFields(doc)]
<1>0. PICK written \in BOOLEAN :
        Call("fill_form", data, doc.catalog.form # {} /\ written, LAMBDA pages :
          Written([pages EXCEPT ![1].annots = [k \in DOMAIN @ |-> Filled(@[k], data)]], Fresh, catalog))
  BY DEF FillForm
<1>1. PICK pages \in Copies(doc.pages), ok \in BOOLEAN :
        /\ Called("fill_form", data, ok) /\ sealed' = sealed
        /\ doc' = IF ok THEN Written([pages EXCEPT ![1].annots = [k \in DOMAIN @ |-> Filled(@[k], data)]],
                                     Fresh, catalog)
                  ELSE doc
  BY <1>0 DEF Call, Called
<1>2. /\ DOMAIN pages = DOMAIN doc.pages /\ 1 \in DOMAIN doc.pages
      /\ \A i \in DOMAIN doc.pages : Same(doc.pages[i], pages[i]) /\ pages[i] \in PageRecords
  <2>1. 1 \in DOMAIN doc.pages
    BY PagesTyped
  <2>2. /\ DOMAIN pages = DOMAIN doc.pages
        /\ \A i \in DOMAIN doc.pages : Same(doc.pages[i], pages[i])
    BY CopiesSame
  <2> QED
    BY <2>1, <2>2 DEF Same
<1> DEFINE annots == [k \in DOMAIN pages[1].annots |-> Filled(pages[1].annots[k], data)]
           first  == [pages[1] EXCEPT !.annots = annots]
           after  == [i \in DOMAIN doc.pages |-> IF i = 1 THEN first ELSE pages[i]]
<1>3. [pages EXCEPT ![1].annots = [k \in DOMAIN @ |-> Filled(@[k], data)]] = after
  <2>1. pages = [i \in DOMAIN doc.pages |-> pages[i]]
    <3>1. pages \in Seq(PageRecords)
      BY CopiesSame
    <3> QED
      BY <1>2, <3>1
  <2> QED
    BY <1>2, <2>1
<1>a. \A k \in DOMAIN pages[1].annots :
        /\ annots[k].kind = pages[1].annots[k].kind /\ annots[k].field = pages[1].annots[k].field
        /\ annots[k].to = pages[1].annots[k].to
  <2>1. \A a \in Annotations : LET b == Filled(a, data) IN
          b.kind = a.kind /\ b.field = a.field /\ b.to = a.to
    BY DEF Filled, Annotations
  <2>2. pages[1].annots \in Seq(Annotations)
    BY <1>2 DEF PageRecords
  <2>3. \A k \in DOMAIN pages[1].annots : pages[1].annots[k] \in Annotations
    BY <2>2
  <2> QED
    BY <2>1, <2>3
<1>b. DOMAIN annots = DOMAIN pages[1].annots
  OBVIOUS
<1>4. annots \in Seq(Annotations)
  <2>1. pages[1].annots \in Seq(Annotations)
    BY <1>2 DEF PageRecords
  <2>2. \E names \in SUBSET Names : data \in [names -> Texts]
    BY InputsAssumption DEF Inputs
  <2>3. ASSUME NEW k \in DOMAIN pages[1].annots PROVE annots[k] \in Annotations
    <3>1. pages[1].annots[k] \in Annotations
      BY <2>1
    <3> QED
      BY <2>2, <3>1 DEF Filled, Annotations
  <2>4. DOMAIN pages[1].annots = 1 .. Len(pages[1].annots) /\ Len(pages[1].annots) \in Nat
    BY <2>1
  <2>5. annots \in [1 .. Len(pages[1].annots) -> Annotations]
    BY <2>3, <2>4
  <2> QED
    BY <2>4, <2>5
<1> HIDE DEF annots
<1>5. /\ first \in PageRecords /\ first.drawn = pages[1].drawn /\ first.images = pages[1].images
      /\ first.annots = annots
  BY <1>2, <1>4 DEF PageRecords
<1>c. Relabelled(pages[1], first)
  BY <1>5, <1>a, <1>b DEF Relabelled
<1> HIDE DEF first
<1>6. DOMAIN after = DOMAIN doc.pages /\ after = [i \in DOMAIN doc.pages |-> after[i]]
      /\ \A i \in DOMAIN doc.pages : after[i] = IF i = 1 THEN first ELSE pages[i]
  OBVIOUS
<1> HIDE DEF after
<1>7. ASSUME NEW i \in DOMAIN doc.pages
      PROVE  /\ after[i] \in PageRecords /\ Holds(doc.pages[i], after[i], FALSE)
             /\ Widgets(after[i]) = Widgets(doc.pages[i])
  <2>1. Same(doc.pages[i], pages[i]) /\ pages[i] \in PageRecords /\ Len(doc.pages[i].images) \in Nat
    BY <1>2, PagesTyped
  <2>2. after[i] \in PageRecords /\ pages[i].drawn = after[i].drawn /\ after[i].images = pages[i].images
    BY <1>5, <1>6, <2>1
  <2>3. LinksFrom(doc.pages[i], pages[i]) /\ LinksFrom(doc.pages[i], doc.pages[i])
        /\ Relabelled(doc.pages[i], pages[i])
    BY <2>1, SameLinks, SameRelabelled DEF LinksFrom
  <2>4. Widgets(pages[i]) = Widgets(doc.pages[i])
    BY <2>3, RelabelledKeeps
  <2>5. Relabelled(pages[i], after[i])
    BY <1>6, <1>c DEF Relabelled
  <2>6. LinksFrom(doc.pages[i], after[i]) /\ Widgets(after[i]) = Widgets(pages[i])
    BY <2>3, <2>5, RelabelledKeeps
  <2> QED
    BY <2>1, <2>2, <2>4, <2>6 DEF Holds, Same
<1>8. after \in PageLists /\ AllHold(doc.pages, after, FALSE)
  BY <1>6, <1>7, ListTyped DEF AllHold
<1>9. catalog \in Catalogs /\ catalog.form = doc.catalog.form /\ catalog.apart = FormFields(doc)
  BY InfosTyped, PagesTyped, FormFieldsTyped DEF Catalogs
<1> HIDE DEF catalog
<1> DEFINE d == Written(after, Fresh, catalog)
<1>10. d \in DocumentRecords /\ d.pages = after /\ d.info["signer"] = None /\ d.catalog = catalog
  BY <1>8, <1>9, FreshTyped
<1>11. doc' = doc \/ doc' = d
  BY <1>1, <1>3
<1> HIDE DEF d
<1>12. Right("fill_form", d)
  <2>1. AllHold(doc.pages, d.pages, "fill_form" \notin Flats \cup {"fill_form"})
    BY <1>8, <1>10 DEF AllHold, Holds
  <2>2. Coheres(d)
    BY <1>6, <1>7, <1>9, <1>10, FormCoheres DEF Holds
  <2> QED
    BY <1>10, <2>1, <2>2, DropsRight
<1> QED
  BY <1>1, <1>11, <1>12, UsualCall

-----------------------------------------------------------------------------
(* Compressing and rewriting: the same pages, with images of other sizes.        *)
LEMMA RecompressedTyped ==
  ASSUME NEW page \in PageRecords, NEW other \in Recompressions(page)
  PROVE  other.images \in Seq(Images) /\ Len(other.images) = Len(page.images)
<1>1. page.images \in Seq(Images) /\ DOMAIN page.images = 1 .. Len(page.images)
      /\ Len(page.images) \in Nat
  BY DEF PageRecords
<1>2. PICK images :
        /\ images = [k \in DOMAIN page.images |-> images[k]]
        /\ \A k \in DOMAIN page.images : images[k] \in Recompressed(page.images[k])
        /\ other = [page EXCEPT !.images = images]
  BY DEF Recompressions
<1>3. \A image \in Images : Recompressed(image) \subseteq Images
  BY DEF Recompressed, Images
<1>4. \A k \in DOMAIN page.images : images[k] \in Images
  <2>1. \A k \in DOMAIN page.images : page.images[k] \in Images
    BY <1>1
  <2> QED
    BY <1>2, <1>3, <2>1
<1>5. images \in Seq(Images) /\ Len(images) = Len(page.images)
  <2>1. images \in [1 .. Len(page.images) -> Images]
    BY <1>1, <1>2, <1>4
  <2> QED
    BY <1>1, <2>1
<1>6. other.images = images
  BY <1>2 DEF PageRecords
<1> QED
  BY <1>5, <1>6

LEMMA CompressStep ==
  ASSUME TypeOK, NEW quality, Compress(quality)
  PROVE  Usual("compress")
<1> DEFINE all == [DOMAIN doc.pages -> UNION {Recompressions(doc.pages[i]) : i \in DOMAIN doc.pages}]
<1>0. PICK pages \in all, raised \in BOOLEAN :
        /\ \A i \in DOMAIN pages : pages[i] \in Recompressions(doc.pages[i])
        /\ Call("compress", <<>>, quality \in {"low", "medium", "high"} /\ ~ raised, LAMBDA copies :
             Kept([i \in DOMAIN copies |-> [copies[i] EXCEPT !.images = pages[i].images]]))
  BY DEF Compress
<1>a. DOMAIN pages = DOMAIN doc.pages
  BY <1>0
<1> HIDE DEF all
<1>1. PICK copies \in Copies(doc.pages), ok \in BOOLEAN :
        /\ Called("compress", <<>>, ok) /\ sealed' = sealed
        /\ doc' = IF ok THEN Kept([i \in DOMAIN copies |-> [copies[i] EXCEPT !.images = pages[i].images]])
                  ELSE doc
  BY <1>0 DEF Call, Called
<1>2. /\ DOMAIN copies = DOMAIN doc.pages
      /\ \A i \in DOMAIN doc.pages : Same(doc.pages[i], copies[i]) /\ copies[i] \in PageRecords
  BY CopiesSame DEF Same
<1> DEFINE after == [i \in DOMAIN copies |-> [copies[i] EXCEPT !.images = pages[i].images]]
<1>3. DOMAIN after = DOMAIN doc.pages /\ after = [i \in DOMAIN doc.pages |-> after[i]]
      /\ \A i \in DOMAIN doc.pages : after[i] = [copies[i] EXCEPT !.images = pages[i].images]
  BY <1>2
<1> HIDE DEF after
<1>4. ASSUME NEW i \in DOMAIN doc.pages
      PROVE  /\ after[i] \in PageRecords /\ Holds(doc.pages[i], after[i], TRUE)
             /\ after[i].drawn = doc.pages[i].drawn
  <2>1. /\ Same(doc.pages[i], copies[i]) /\ copies[i] \in PageRecords
        /\ doc.pages[i] \in PageRecords /\ Len(doc.pages[i].images) \in Nat
    BY <1>2, PagesTyped
  <2>2. pages[i].images \in Seq(Images) /\ Len(pages[i].images) = Len(doc.pages[i].images)
    BY <1>0, <1>a, <2>1, RecompressedTyped
  <2>3. after[i] \in PageRecords /\ after[i].drawn = copies[i].drawn
        /\ after[i].images = pages[i].images /\ after[i].annots = copies[i].annots
    BY <1>3, <2>1, <2>2 DEF PageRecords
  <2>4. LinksFrom(doc.pages[i], after[i])
    BY <2>1, <2>3, SameLinks
  <2> QED
    BY <2>1, <2>2, <2>3, <2>4 DEF Holds, Same
<1>5. /\ after \in PageLists /\ AllHold(doc.pages, after, TRUE)
      /\ Drawings(after) = Drawings(doc.pages)
  BY <1>3, <1>4, ListTyped DEF AllHold, Drawings
<1>6. doc' = doc \/ Right("compress", doc')
  <2>1. Right("compress", Kept(after))
    BY <1>5, KeptRight
  <2> QED
    BY <1>1, <2>1 DEF after
<1> QED
  BY <1>1, <1>6, UsualCall

LEMMA FreshCopyRight ==
  ASSUME TypeOK, NEW op, NEW pages \in Copies(doc.pages), NEW info \in Infos, info["signer"] = None
  PROVE  Right(op, Written(pages, info, Bare))
<1>1. /\ pages \in PageLists /\ DOMAIN pages = DOMAIN doc.pages
      /\ \A i \in DOMAIN doc.pages : Same(doc.pages[i], pages[i])
  BY CopiesSame
<1> DEFINE d == Written(pages, info, Bare)
<1>2. d \in DocumentRecords /\ d.pages = pages /\ d.info["signer"] = None /\ Plain(d.catalog)
  BY <1>1, InfosTyped, WrittenTyped
<1> HIDE DEF d
<1>3. AllHold(doc.pages, d.pages, op \notin Flats \cup {"fill_form"})
  BY <1>1, <1>2, AllHoldSame DEF AllHold, Holds
<1>4. Right(op, d)
  BY <1>2, <1>3, PlainCoheres, DropsRight
<1> QED
  BY <1>4 DEF d

LEMMA OptimizeStep ==
  ASSUME TypeOK, NEW remove_metadata \in BOOLEAN, Optimize(remove_metadata)
  PROVE  Usual("optimize")
<1>1. PICK pages \in Copies(doc.pages), ok \in BOOLEAN :
        /\ Called("optimize", <<remove_metadata>>, ok) /\ sealed' = sealed
        /\ doc' = IF ok THEN IF remove_metadata THEN Written(pages, Fresh, Bare) ELSE Kept(pages)
                  ELSE doc
  BY DEF Optimize, Call, Called
<1>2. Right("optimize", Written(pages, Fresh, Bare)) /\ Right("optimize", Kept(pages))
  BY FreshCopyRight, KeptCopyRight, InfosTyped
<1> QED
  BY <1>1, <1>2, UsualCall

LEMMA RewriteStep ==
  ASSUME TypeOK, NEW op, NEW given, NEW accepted, Call(op, given, accepted, Kept)
  PROVE  Usual(op)
<1>1. PICK pages \in Copies(doc.pages), ok \in BOOLEAN :
        /\ Called(op, given, ok) /\ sealed' = sealed
        /\ doc' = IF ok THEN Kept(pages) ELSE doc
  BY DEF Call, Called
<1>2. Right(op, Kept(pages))
  BY KeptCopyRight
<1> QED
  BY <1>1, <1>2, UsualCall

LEMMA ShrinkingStep ==
  ASSUME TypeOK, Shrinking
  PROVE  \E op : op \in {"compress", "optimize", "remove_unused_objects", "linearize"} /\ Usual(op)
<1>1. ASSUME NEW op \in {"remove_unused_objects", "linearize"}, Rewrite(op) PROVE Usual(op)
  BY <1>1, RewriteStep DEF Rewrite
<1> QED
  BY <1>1, CompressStep, OptimizeStep DEF Shrinking

-----------------------------------------------------------------------------
(* Making a document from nothing: it is one, and nobody has signed it.          *)
LEMMA CreateStep ==
  ASSUME TypeOK, NEW op \in Makers, NEW given, NEW accepted \in BOOLEAN, NEW document,
         accepted => /\ document \in DocumentRecords /\ document.info["signer"] = None
                     /\ Whole(document),
         Create(op, given, accepted, document)
  PROVE  Usual(op)
<1>1. Called(op, given, accepted) /\ sealed' = sealed /\ doc' = IF accepted THEN document ELSE doc
  BY DEF Create
<1>2. doc' = doc \/ Right(op, doc')
  BY <1>1, MadeRight
<1> QED
  BY <1>1, <1>2, UsualCall

LEMMA ReportlabTyped ==
  ASSUME NEW pages \in PageLists, NEW catalog \in Catalogs
  PROVE  LET d == Reportlab(pages, catalog) IN
         /\ d \in DocumentRecords /\ d.info["signer"] = None
         /\ d.pages = pages /\ d.catalog = catalog
<1> DEFINE info == [Fresh EXCEPT !["title"] = Untitled]
<1>1. info \in Infos /\ info["signer"] = None
  BY InfosTyped DEF Infos, Keys, Texts
<1> HIDE DEF info
<1>2. Reportlab(pages, catalog) = Written(pages, info, catalog)
  BY DEF Reportlab, info
<1> QED
  BY <1>1, <1>2, WrittenTyped

LEMMA OnePage ==
  ASSUME NEW page \in PageRecords
  PROVE  <<page>> \in PageLists
BY DEF PageLists

(* A document with neither fields nor links.                                     *)
LEMMA BlankWhole ==
  ASSUME NEW d, d.catalog = Bare, \A i \in DOMAIN d.pages : d.pages[i].annots = <<>>
  PROVE  Whole(d)
<1>1. AnnotsOf(d.pages) = {}
  BY DEF AnnotsOf, ToSet
<1> QED
  BY <1>1, InfosTyped DEF Whole, Plain

LEMMA PageTyped ==
  ASSUME NEW drawn \in SUBSET Drawables, NEW images \in Seq(Images)
  PROVE  Page(drawn, images) \in PageRecords /\ Page(drawn, images).annots = <<>>
<1>1. <<>> \in Seq(Annotations)
  OBVIOUS
<1> QED
  BY <1>1 DEF Page, PageRecords

(* What create_form is given of a field.                                         *)
FieldInputs == [name : Names, type : STRING, default : Texts \cup {None}, options : Seq(Texts)]

LEMMA FieldListsTyped ==
  ASSUME NEW fields \in Inputs.fields
  PROVE  /\ DOMAIN fields = 1 .. Len(fields) /\ Len(fields) \in Nat
         /\ \A k \in DOMAIN fields : fields[k] \in FieldInputs
<1>1. Inputs.fields = Seq(FieldInputs)
  BY Zenon DEF Inputs, FieldInputs
<1> QED
  BY <1>1

LEMMA FieldWidgetTyped ==
  ASSUME NEW fields \in Inputs.fields, NEW k \in DOMAIN fields, Creatable(fields[k])
  PROVE  LET widget == FieldWidget(fields[k]) IN
         /\ widget \in Annotations /\ fields[k].name \in Names
         /\ widget.kind = "Widget" /\ widget.field = fields[k].name /\ widget.type = fields[k].type
<1> DEFINE field == fields[k]
           value == CASE field.type = "radio"    -> None
                      [] field.type = "dropdown" -> IF field.default # None THEN field.default
                                                    ELSE field.options[1]
                      [] OTHER -> field.default
<1>1. field \in FieldInputs
  BY FieldListsTyped
<1>2. /\ field.name \in Names /\ field.default \in Texts \cup {None} /\ field.options \in Seq(Texts)
      /\ field.type \in {"text", "checkbox", "dropdown", "radio"}
      /\ field.type = "dropdown" => field.options # <<>>
  BY <1>1 DEF Creatable, FieldInputs
<1> HIDE DEF field
<1>3. field.options # <<>> => field.options[1] \in Texts
  BY <1>2
<1>4. value \in Texts \cup {None}
  BY <1>2, <1>3
<1> HIDE DEF value
<1>5. Annot("Widget", value) \in Annotations
  BY <1>4, AnnotTyped DEF Kinds
<1>6. LET widget == Widget(field.name, field.type, value, None) IN
      /\ widget \in Annotations
      /\ widget.kind = "Widget" /\ widget.field = field.name /\ widget.type = field.type
  <2> DEFINE base == Annot("Widget", value)
  <2>1. base \in Annotations /\ base.kind = "Widget"
    BY <1>4, AnnotTyped DEF Kinds
  <2>2. Widget(field.name, field.type, value, None)
          = [base EXCEPT !.default = None, !.field = field.name, !.type = field.type, !.look = TRUE]
    BY DEF Widget
  <2> HIDE DEF base
  <2> QED
    BY <1>2, <2>1, <2>2 DEF Annotations, Types
<1> QED
  BY <1>2, <1>6 DEF FieldWidget, value, field

LEMMA CreateFormStep ==
  ASSUME TypeOK, NEW fields \in FieldLists, CreateForm(fields)
  PROVE  Usual("create_form")
<1> DEFINE ok      == fields # <<>> /\ \A k \in DOMAIN fields : Creatable(fields[k])
           widgets == [k \in DOMAIN fields |-> FieldWidget(fields[k])]
           page    == [drawn |-> {}, images |-> <<>>, annots |-> IF ok THEN widgets ELSE <<>>]
           catalog == [Bare EXCEPT !.form = {fields[k].name : k \in DOMAIN fields}]
<1>1. fields \in Inputs.fields /\ DOMAIN fields = 1 .. Len(fields) /\ Len(fields) \in Nat
  BY InputsAssumption, FieldListsTyped
<1>2. ASSUME ok
      PROVE  /\ page \in PageRecords /\ catalog \in Catalogs /\ catalog.apart = {}
             /\ \A a \in ToSet(page.annots) : a.kind = "Widget" /\ a.field \in catalog.form
             /\ \A name \in catalog.form : \E a \in ToSet(page.annots) : a.field = name
  <2>1. \A k \in DOMAIN fields : widgets[k] \in Annotations /\ fields[k].name \in Names
    BY <1>1, <1>2, FieldWidgetTyped
  <2>2. widgets \in Seq(Annotations)
    <3>1. widgets \in [1 .. Len(fields) -> Annotations]
      BY <1>1, <2>1
    <3> QED
      BY <1>1, <3>1
  <2>3. /\ catalog \in Catalogs /\ catalog.apart = {}
        /\ catalog.form = {fields[k].name : k \in DOMAIN fields}
    BY <2>1, InfosTyped DEF Catalogs, Plain
  <2>a. \A k \in DOMAIN fields : widgets[k].kind = "Widget" /\ widgets[k].field = fields[k].name
    BY <1>1, <1>2, FieldWidgetTyped
  <2>b. DOMAIN widgets = DOMAIN fields
    OBVIOUS
  <2> HIDE DEF widgets
  <2>4. page \in PageRecords
    <3>1. <<>> \in Seq(Images)
      OBVIOUS
    <3> QED
      BY <1>2, <2>2, <3>1 DEF PageRecords
  <2>5. page.annots = widgets
    BY <1>2
  <2> QED
    BY <2>3, <2>4, <2>5, <2>a, <2>b DEF ToSet
<1>3. Create("create_form", fields, ok, Reportlab(<<page>>, catalog))
  BY DEF CreateForm
<1> HIDE DEF page, catalog
<1>4. ok => LET d == Reportlab(<<page>>, catalog) IN
            d \in DocumentRecords /\ d.info["signer"] = None /\ Whole(d)
  <2> SUFFICES ASSUME ok
               PROVE  LET d == Reportlab(<<page>>, catalog) IN
                      d \in DocumentRecords /\ d.info["signer"] = None /\ Whole(d)
    OBVIOUS
  <2> DEFINE d == Reportlab(<<page>>, catalog)
  <2>1. /\ d \in DocumentRecords /\ d.info["signer"] = None
        /\ d.pages = <<page>> /\ d.catalog = catalog
    BY <1>2, OnePage, ReportlabTyped
  <2> HIDE DEF d, ok
  <2>2. AnnotsOf(d.pages) = ToSet(page.annots)
    <3>1. DOMAIN d.pages = {1} /\ d.pages[1] = page
      BY <2>1
    <3> QED
      BY <3>1 DEF AnnotsOf
  <2>3. Whole(d)
    BY <1>2, <2>1, <2>2 DEF Whole
  <2> QED
    BY <2>1, <2>3 DEF d
<1>5. ok \in BOOLEAN
  OBVIOUS
<1> HIDE DEF ok
<1> QED
  BY <1>3, <1>4, <1>5, CreateStep DEF Makers

LEMMA FromTextStep ==
  ASSUME TypeOK, NEW term \in Terms \cup {None}, FromText(term)
  PROVE  Usual("from_text")
<1> DEFINE page == Page({<<"text", term>>}, <<>>)
<1>1. term # None => page \in PageRecords /\ page.annots = <<>>
  <2>1. term # None => {<<"text", term>>} \subseteq Drawables
    BY DEF Drawables, Texts
  <2>2. <<>> \in Seq(Images)
    OBVIOUS
  <2> QED
    BY <2>1, <2>2, PageTyped
<1>2. Create("from_text", <<term>>, term # None, Reportlab(<<page>>, Bare))
  BY DEF FromText
<1> HIDE DEF page
<1>3. term # None =>
        LET d == Reportlab(<<page>>, Bare) IN
        d \in DocumentRecords /\ d.info["signer"] = None /\ Whole(d)
  <2>1. term # None =>
          LET d == Reportlab(<<page>>, Bare) IN
          d \in DocumentRecords /\ d.info["signer"] = None /\ d.pages = <<page>> /\ d.catalog = Bare
    BY <1>1, OnePage, ReportlabTyped, InfosTyped
  <2> QED
    BY <1>1, <2>1, BlankWhole
<1>4. (term # None) \in BOOLEAN
  OBVIOUS
<1> QED
  BY <1>2, <1>3, <1>4, CreateStep DEF Makers

LEMMA FromHtmlStep ==
  ASSUME TypeOK, NEW term \in Terms \cup {None}, NEW loads \in BOOLEAN, FromHtml(term, loads)
  PROVE  Usual("from_html")
<1> DEFINE page == Page({<<"text", term>>}, <<>>)
           ok   == term # None /\ ~ loads
<1>1. ok => page \in PageRecords /\ page.annots = <<>>
  <2>1. term # None => {<<"text", term>>} \subseteq Drawables
    BY DEF Drawables, Texts
  <2>2. <<>> \in Seq(Images)
    OBVIOUS
  <2> QED
    BY <2>1, <2>2, PageTyped
<1>2. Create("from_html", <<term, loads>>, ok, Written(<<page>>, Fresh, Bare))
  BY DEF FromHtml
<1> HIDE DEF page
<1>3. ok =>
        LET d == Written(<<page>>, Fresh, Bare) IN
        d \in DocumentRecords /\ d.info["signer"] = None /\ Whole(d)
  <2>1. ok =>
          LET d == Written(<<page>>, Fresh, Bare) IN
          d \in DocumentRecords /\ d.info["signer"] = None /\ d.pages = <<page>> /\ d.catalog = Bare
    BY <1>1, OnePage, FreshTyped, InfosTyped
  <2> HIDE DEF ok
  <2> QED
    BY <1>1, <2>1, BlankWhole
<1>4. ok \in BOOLEAN
  OBVIOUS
<1> HIDE DEF ok
<1> QED
  BY <1>2, <1>3, <1>4, CreateStep DEF Makers

LEMMA FromImagesStep ==
  ASSUME TypeOK, NEW sizes \in Pictures, FromImages(sizes)
  PROVE  Usual("from_images")
<1> DEFINE ok    == sizes # <<>> /\ \A k \in DOMAIN sizes : sizes[k] # None
           made  == [k \in DOMAIN sizes |->
                       Page({<<"image", sizes[k]>>}, <<[size |-> sizes[k], bits |-> 8]>>)]
           pages == IF ok THEN made ELSE <<Page({}, <<>>)>>
<1>1. sizes \in Seq(Sizes \cup {None}) /\ DOMAIN sizes = 1 .. Len(sizes) /\ Len(sizes) \in Nat
  BY InputsAssumption DEF Inputs
<1>2. ASSUME ok PROVE pages \in PageLists /\ \A i \in DOMAIN pages : pages[i].annots = <<>>
  <2>1. ASSUME NEW k \in DOMAIN sizes PROVE made[k] \in PageRecords /\ made[k].annots = <<>>
    <3>1. sizes[k] \in Sizes
      BY <1>1, <1>2
    <3>2. [size |-> sizes[k], bits |-> 8] \in Images /\ {<<"image", sizes[k]>>} \subseteq Drawables
      BY <3>1 DEF Images, Drawables
    <3> DEFINE image == [size |-> sizes[k], bits |-> 8]
    <3> HIDE DEF image
    <3>3. image \in Images
      BY <3>2 DEF image
    <3>4. <<image>> \in Seq(Images)
      BY <3>3
    <3>5. LET page == Page({<<"image", sizes[k]>>}, <<image>>) IN
          page \in PageRecords /\ page.annots = <<>>
      BY <3>2, <3>4, PageTyped
    <3> QED
      BY <3>5 DEF image
  <2>2. made \in [1 .. Len(sizes) -> PageRecords]
    BY <1>1, <2>1
  <2>3. made \in Seq(PageRecords) /\ Len(made) = Len(sizes) /\ Len(sizes) # 0
    BY <1>1, <1>2, <2>2
  <2>4. \A i \in DOMAIN made : made[i].annots = <<>>
    BY <2>1
  <2>5. pages = made
    BY <1>2
  <2> HIDE DEF pages, made
  <2> QED
    BY <1>1, <2>3, <2>4, <2>5 DEF PageLists
<1>3. Create("from_images", sizes, ok, Reportlab(pages, Bare))
  BY DEF FromImages
<1> HIDE DEF pages
<1>4. ok => LET d == Reportlab(pages, Bare) IN
            d \in DocumentRecords /\ d.info["signer"] = None /\ Whole(d)
  <2> HIDE DEF ok
  <2>1. ok => LET d == Reportlab(pages, Bare) IN
              d \in DocumentRecords /\ d.info["signer"] = None /\ d.pages = pages /\ d.catalog = Bare
    BY <1>2, ReportlabTyped, InfosTyped
  <2> QED
    BY <1>2, <2>1, BlankWhole
<1>5. ok \in BOOLEAN
  OBVIOUS
<1> HIDE DEF ok
<1> QED
  BY <1>3, <1>4, <1>5, CreateStep DEF Makers

Elements == [type : STRING, names : SUBSET Names, size : Sizes \cup {None}]

LEMMA LaidTyped ==
  ASSUME NEW elements \in Seq(Elements), NEW names, NEW data \in [names -> Texts],
         \A e \in ToSet(elements) : /\ e.type \in {"text", "image", "rect", "line"}
                                    /\ e.type = "image" => e.size # None
  PROVE  Laid(elements, data) \in PageRecords /\ Laid(elements, data).annots = <<>>
<1> DEFINE set      == {e \in ToSet(elements) : e.type = "image"}
           pictures == Only(elements, set)
           images   == [k \in DOMAIN pictures |-> [size |-> pictures[k].size, bits |-> 8]]
           drawn    == UNION {Painted(elements[k], data) : k \in DOMAIN elements}
<1>1. \A k \in DOMAIN elements : elements[k] \in Elements /\ elements[k] \in ToSet(elements)
  BY DEF ToSet
<1>2. pictures \in Seq(Elements \cap set)
  BY OnlyType
<1>3. images \in Seq(Images)
  <2>1. \A e \in Elements \cap set : [size |-> e.size, bits |-> 8] \in Images
    BY DEF Elements, Images
  <2> HIDE DEF pictures, set
  <2>2. DOMAIN pictures = 1 .. Len(pictures) /\ Len(pictures) \in Nat
        /\ \A k \in DOMAIN pictures : pictures[k] \in Elements \cap set
    BY <1>2
  <2>3. images \in [1 .. Len(pictures) -> Images]
    BY <2>1, <2>2
  <2> QED
    BY <2>2, <2>3
<1>4. \A k \in DOMAIN elements : Painted(elements[k], data) \subseteq Drawables
  <2>1. ASSUME NEW k \in DOMAIN elements PROVE Painted(elements[k], data) \subseteq Drawables
    <3>1. /\ elements[k] \in Elements /\ elements[k].type \in {"text", "image", "rect", "line"}
          /\ elements[k].type = "image" => elements[k].size # None
      BY <1>1
    <3>2. elements[k].names \subseteq Names /\ elements[k].size \in Sizes \cup {None}
      BY <3>1 DEF Elements
    <3>3. CASE elements[k].type = "text"
      <4>1. Painted(elements[k], data) = Resolved(elements[k].names, data)
        BY <3>3 DEF Painted
      <4>2. Resolved(elements[k].names, data) \subseteq Drawables
        BY <3>2 DEF Resolved, Drawables
      <4> QED
        BY <4>1, <4>2
    <3>4. CASE elements[k].type = "image"
      <4>1. Painted(elements[k], data) = {<<"image", elements[k].size>>}
        BY <3>4 DEF Painted
      <4> QED
        BY <3>1, <3>2, <3>4, <4>1 DEF Drawables
    <3>5. CASE elements[k].type \in {"rect", "line"}
      <4>1. Painted(elements[k], data) = {<<"shape", elements[k].type>>}
        BY <3>5 DEF Painted
      <4> QED
        BY <3>5, <4>1 DEF Drawables
    <3> QED
      BY <3>1, <3>3, <3>4, <3>5
  <2> QED
    BY <2>1
<1>5. drawn \in SUBSET Drawables
  BY <1>4
<1>6. Laid(elements, data) = Page(drawn, images)
  BY DEF Laid
<1> HIDE DEF drawn, images
<1> QED
  BY <1>3, <1>5, <1>6, PageTyped

LEMMA FromTemplateStep ==
  ASSUME TypeOK, NEW t \in Templates, FromTemplate(t.pages, t.data)
  PROVE  Usual("from_template")
<1> DEFINE template == t.pages
           data     == t.data
           ok    == /\ template # <<>>
                    /\ \A i \in DOMAIN template : \A e \in ToSet(template[i]) :
                         /\ e.type \in {"text", "image", "rect", "line"}
                         /\ e.type = "image" => e.size # None
           laid  == [i \in DOMAIN template |-> Laid(template[i], data)]
           pages == IF ok THEN laid ELSE <<Page({}, <<>>)>>
<1>1. template \in Inputs.template /\ data \in Inputs.fill
  BY InputsAssumption
<1>2. Inputs.template = Seq(Seq(Elements))
  BY Zenon DEF Inputs, Elements
<1>3. PICK names \in SUBSET Names : data \in [names -> Texts]
  BY <1>1 DEF Inputs
<1>4. Create("from_template", <<template, data>>, ok, Reportlab(pages, Bare))
  BY DEF FromTemplate
<1> HIDE DEF template, data
<1>5. /\ DOMAIN template = 1 .. Len(template) /\ Len(template) \in Nat
      /\ \A i \in DOMAIN template : template[i] \in Seq(Elements)
  BY <1>1, <1>2
<1>6. ASSUME ok PROVE pages \in PageLists /\ \A i \in DOMAIN pages : pages[i].annots = <<>>
  <2>1. \A i \in DOMAIN template : laid[i] \in PageRecords /\ laid[i].annots = <<>>
    BY <1>3, <1>5, <1>6, LaidTyped
  <2>2. laid \in [1 .. Len(template) -> PageRecords]
    BY <1>5, <2>1
  <2>3. Len(template) # 0
    BY <1>1, <1>2, <1>6
  <2>4. laid \in Seq(PageRecords) /\ Len(laid) = Len(template)
    BY <1>5, <2>2
  <2>5. pages = laid
    BY <1>6
  <2>6. DOMAIN laid = DOMAIN template
    OBVIOUS
  <2> HIDE DEF pages, laid
  <2> QED
    BY <1>5, <2>1, <2>3, <2>4, <2>5, <2>6 DEF PageLists
<1> HIDE DEF pages
<1>7. ok => LET d == Reportlab(pages, Bare) IN
            d \in DocumentRecords /\ d.info["signer"] = None /\ Whole(d)
  <2> HIDE DEF ok
  <2>1. ok => LET d == Reportlab(pages, Bare) IN
              d \in DocumentRecords /\ d.info["signer"] = None /\ d.pages = pages /\ d.catalog = Bare
    BY <1>6, ReportlabTyped, InfosTyped
  <2> QED
    BY <1>6, <2>1, BlankWhole
<1>8. ok \in BOOLEAN
  OBVIOUS
<1> HIDE DEF ok
<1> QED
  BY <1>4, <1>7, <1>8, CreateStep DEF Makers

LEMMA CreatingStep ==
  ASSUME TypeOK, Creating
  PROVE  \E op \in Makers : Usual(op)
BY FromTextStep, FromHtmlStep, FromImagesStep, FromTemplateStep DEF Creating, Makers

LEMMA FillingFormsStep ==
  ASSUME TypeOK, FillingForms
  PROVE  \E op \in {"create_form", "fill_form"} : Usual(op)
BY CreateFormStep, FillFormStep DEF FillingForms

LEMMA EditingStep ==
  ASSUME TypeOK, Editing
  PROVE  \E op : /\ op \in {"add_text", "add_annotation", "add_image", "add_shape",
                            "add_text_watermark", "add_image_watermark", "add_headers_footers"}
                 /\ Usual(op)
<1>1. \A start \in 1 .. 2 : start \in Int
  OBVIOUS
<1> QED
  BY <1>1, AddTextStep, AddAnnotationStep, AddImageStep, AddShapeStep, AddTextWatermarkStep,
     AddImageWatermarkStep, AddHeadersFootersStep DEF Editing

-----------------------------------------------------------------------------
(* What surrounds the pages: they are copied as they are.                        *)
LEMMA KeptButRight ==
  ASSUME TypeOK, NEW op, NEW pages \in Copies(doc.pages), NEW after \in DocumentRecords,
         after.pages = pages, after.info = Kept(pages).info, Plain(after.catalog)
  PROVE  Right(op, after)
<1>1. pages \in PageLists /\ AllHold(doc.pages, pages, TRUE) /\ Drawings(pages) = Drawings(doc.pages)
  BY CopiesSame, AllHoldSame
<1>2. Coheres(after)
  BY <1>1, PlainCoheres
<1> QED
  BY <1>1, <1>2, KeptTyped, CarriesRight

LEMMA SetMetadataStep ==
  ASSUME TypeOK, NEW title \in Terms \cup {None}, NEW custom \in Terms \cup {None},
         SetMetadata(title, custom)
  PROVE  Usual("set_metadata")
<1> DEFINE new  == [NoInfo EXCEPT !["title"] = title, !["custom"] = custom]
           info == Over(Over(Fresh, doc.info), new)
<1>1. PICK pages \in Copies(doc.pages), ok \in BOOLEAN :
        /\ Called("set_metadata", <<title, custom>>, ok) /\ sealed' = sealed
        /\ doc' = IF ok THEN Written(pages, info, Bare) ELSE doc
  BY DEF SetMetadata, Call, Called
<1>2. new \in Infos /\ new["signer"] = None
  BY InfosTyped DEF Infos, Keys, Texts
<1> HIDE DEF new
<1>3. info \in Infos /\ info["signer"] = doc.info["signer"]
  BY <1>2, InfosTyped, PagesTyped
<1> HIDE DEF info
<1>4. pages \in PageLists /\ AllHold(doc.pages, pages, TRUE) /\ Drawings(pages) = Drawings(doc.pages)
  BY CopiesSame, AllHoldSame
<1> DEFINE d == Written(pages, info, Bare)
<1>5. d \in DocumentRecords /\ d.pages = pages /\ d.info = info /\ Plain(d.catalog)
  BY <1>3, <1>4, InfosTyped, WrittenTyped
<1>6. doc' = doc \/ doc' = d
  BY <1>1
<1> HIDE DEF d
<1>7. Right("set_metadata", d)
  BY <1>3, <1>4, <1>5, PlainCoheres, CarriesRight
<1> QED
  BY <1>1, <1>6, <1>7, UsualCall

LEMMA RemoveMetadataStep ==
  ASSUME TypeOK, RemoveMetadata
  PROVE  Usual("remove_metadata")
<1>1. PICK pages \in Copies(doc.pages), ok \in BOOLEAN :
        /\ Called("remove_metadata", <<>>, ok) /\ sealed' = sealed
        /\ doc' = IF ok THEN Written(pages, NoInfo, Bare) ELSE doc
  BY DEF RemoveMetadata, Call, Called
<1>2. Right("remove_metadata", Written(pages, NoInfo, Bare))
  BY FreshCopyRight, InfosTyped
<1> QED
  BY <1>1, <1>2, UsualCall

LEMMA AddAttachmentStep ==
  ASSUME TypeOK, NEW name \in Names, NEW exists \in BOOLEAN, AddAttachment(name, exists)
  PROVE  Usual("add_attachment")
<1>1. PICK pages \in Copies(doc.pages), ok \in BOOLEAN :
        /\ Called("add_attachment", <<name>>, ok) /\ sealed' = sealed
        /\ doc' = IF ok THEN [Kept(pages) EXCEPT !.catalog.attached = {name}] ELSE doc
  BY DEF AddAttachment, Call, Called
<1> DEFINE kept == Kept(pages)
           d == [kept EXCEPT !.catalog.attached = {name}]
<1>a. /\ kept \in DocumentRecords /\ kept.pages = pages /\ kept.info = Kept(pages).info
      /\ kept.catalog \in Catalogs /\ Plain(kept.catalog)
  BY CopiesSame, KeptTyped, InfosTyped
<1> HIDE DEF kept
<1>2. d \in DocumentRecords /\ d.pages = pages /\ d.info = Kept(pages).info /\ Plain(d.catalog)
  BY <1>a DEF DocumentRecords, Catalogs, Plain
<1>3. doc' = doc \/ doc' = d
  BY <1>1 DEF kept
<1> HIDE DEF d
<1>4. Right("add_attachment", d)
  BY <1>2, KeptButRight
<1> QED
  BY <1>1, <1>3, <1>4, UsualCall

LEMMA SetLanguageStep ==
  ASSUME TypeOK, NEW tag \in Terms \cup {None}, SetLanguage(tag)
  PROVE  Usual("set_language")
<1>1. PICK pages \in Copies(doc.pages), ok \in BOOLEAN :
        /\ Called("set_language", <<tag>>, ok) /\ sealed' = sealed
        /\ doc' = IF ok THEN [Kept(pages) EXCEPT !.catalog.lang = tag] ELSE doc
  BY DEF SetLanguage, Call, Called
<1> DEFINE kept == Kept(pages)
           d == [kept EXCEPT !.catalog.lang = tag]
<1>a. /\ kept \in DocumentRecords /\ kept.pages = pages /\ kept.info = Kept(pages).info
      /\ kept.catalog \in Catalogs /\ Plain(kept.catalog)
  BY CopiesSame, KeptTyped, InfosTyped
<1> HIDE DEF kept
<1>2. d \in DocumentRecords /\ d.pages = pages /\ d.info = Kept(pages).info /\ Plain(d.catalog)
  BY <1>a DEF DocumentRecords, Catalogs, Texts, Plain
<1>3. doc' = doc \/ doc' = d
  BY <1>1 DEF kept
<1> HIDE DEF d
<1>4. Right("set_language", d)
  BY <1>2, KeptButRight
<1> QED
  BY <1>1, <1>3, <1>4, UsualCall

LEMMA SetTitleDisplayStep ==
  ASSUME TypeOK, NEW display \in BOOLEAN, SetTitleDisplay(display)
  PROVE  Usual("set_title_display")
<1>1. PICK pages \in Copies(doc.pages), ok \in BOOLEAN :
        /\ Called("set_title_display", <<display>>, ok) /\ sealed' = sealed
        /\ doc' = IF ok THEN [Kept(pages) EXCEPT !.catalog.display = display] ELSE doc
  BY DEF SetTitleDisplay, Call, Called
<1> DEFINE kept == Kept(pages)
           d == [kept EXCEPT !.catalog.display = display]
<1>a. /\ kept \in DocumentRecords /\ kept.pages = pages /\ kept.info = Kept(pages).info
      /\ kept.catalog \in Catalogs /\ Plain(kept.catalog)
  BY CopiesSame, KeptTyped, InfosTyped
<1> HIDE DEF kept
<1>2. d \in DocumentRecords /\ d.pages = pages /\ d.info = Kept(pages).info /\ Plain(d.catalog)
  BY <1>a DEF DocumentRecords, Catalogs, Plain
<1>3. doc' = doc \/ doc' = d
  BY <1>1 DEF kept
<1> HIDE DEF d
<1>4. Right("set_title_display", d)
  BY <1>2, KeptButRight
<1> QED
  BY <1>1, <1>3, <1>4, UsualCall

LEMMA EncryptStep ==
  ASSUME TypeOK, NEW user \in Passwords, NEW owner \in Passwords \cup {None}, Encrypt(user, owner)
  PROVE  Usual("encrypt")
<1>1. PICK pages \in Copies(doc.pages), ok \in BOOLEAN :
        /\ Called("encrypt", <<user, owner>>, ok) /\ sealed' = sealed
        /\ doc' = IF ok THEN [Kept(pages) EXCEPT !.lock = <<user, Owner(user, owner)>>] ELSE doc
  BY DEF Encrypt, Call, Called
<1> DEFINE kept == Kept(pages)
           lock == <<user, Owner(user, owner)>>
           d    == [kept EXCEPT !.lock = lock]
<1>2. lock \in Locks
  BY DEF Owner, Locks
<1>a. /\ kept \in DocumentRecords /\ kept.pages = pages /\ kept.info = Kept(pages).info
      /\ Plain(kept.catalog)
  BY CopiesSame, KeptTyped, InfosTyped
<1>4. doc' = doc \/ doc' = d
  BY <1>1
<1> HIDE DEF kept, lock
<1>3. d \in DocumentRecords /\ d.pages = pages /\ d.info = Kept(pages).info /\ Plain(d.catalog)
  BY <1>2, <1>a DEF DocumentRecords
<1> HIDE DEF d
<1>5. Right("encrypt", d)
  BY <1>3, KeptButRight
<1> QED
  BY <1>1, <1>4, <1>5, UsualCall

LEMMA DecryptStep ==
  ASSUME TypeOK, NEW password, Decrypt(password)
  PROVE  Usual("decrypt")
<1>1. PICK pages \in Copies(doc.pages), ok \in BOOLEAN :
        /\ Called("decrypt", <<password>>, ok) /\ sealed' = sealed
        /\ doc' = IF ok THEN Kept(pages) ELSE doc
  BY DEF Decrypt, Called, Opens
<1>2. Right("decrypt", Kept(pages))
  BY KeptCopyRight
<1> QED
  BY <1>1, <1>2, UsualCall

LEMMA DescribingStep ==
  ASSUME TypeOK, Describing
  PROVE  \E op : /\ op \in {"set_metadata", "remove_metadata", "add_attachment",
                            "remove_attachments", "set_language", "set_title_display"}
                 /\ Usual(op)
<1>1. RemoveAttachments => Usual("remove_attachments")
  BY RewriteStep DEF RemoveAttachments
<1> QED
  BY <1>1, SetMetadataStep, RemoveMetadataStep, AddAttachmentStep, SetLanguageStep,
     SetTitleDisplayStep DEF Describing

-----------------------------------------------------------------------------
(* Signing: what is sealed is what the file then shows.                          *)
LEMMA SignStep ==
  ASSUME TypeOK, NEW signer \in Terms, NEW keys \in BOOLEAN, Sign(signer, keys)
  PROVE  /\ TypeOK' /\ last'.op = "sign"
         /\ (doc' = doc /\ sealed' = sealed) \/ sealed' = Drawings(doc'.pages)
         /\ AllHold(doc.pages, doc'.pages, TRUE) /\ Coheres(doc')
<1> DEFINE n == Len(doc.pages)
           what == {<<"text", signer>>}
<1>1. PICK pages \in Copies(doc.pages), ok \in BOOLEAN :
        /\ Called("sign", <<signer>>, ok)
        /\ \/ doc' = doc /\ sealed' = sealed
           \/ LET signed == [pages EXCEPT ![n].drawn = @ \cup what] IN
              doc' = Written(signed, Signature(signer), Bare) /\ sealed' = Drawings(signed)
  BY DEF Sign, Called
<1>2. last'.op = "sign" /\ last'.ok \in BOOLEAN /\ calls' \in 0 .. MaxCalls
  BY <1>1, CalledTyped
<1>3. CASE doc' = doc /\ sealed' = sealed
  <2>1. AllHold(doc.pages, doc.pages, TRUE)
    BY PagesTyped DEF AllHold, Holds, LinksFrom
  <2> QED
    BY <1>2, <1>3, <2>1 DEF TypeOK, Coheres
<1>4. CASE LET signed == [pages EXCEPT ![n].drawn = @ \cup what] IN
           doc' = Written(signed, Signature(signer), Bare) /\ sealed' = Drawings(signed)
  <2>1. /\ pages \in Seq(PageRecords) /\ DOMAIN pages = DOMAIN doc.pages
        /\ \A i \in DOMAIN doc.pages : Same(doc.pages[i], pages[i]) /\ pages[i] \in PageRecords
    BY CopiesSame DEF Same
  <2> DEFINE signed == [i \in DOMAIN doc.pages |-> IF i = n THEN Drawn(pages[i], what) ELSE pages[i]]
  <2>2. [pages EXCEPT ![n].drawn = @ \cup what] = signed
    <3>1. pages = [i \in DOMAIN doc.pages |-> pages[i]] /\ n \in DOMAIN doc.pages
      BY <2>1, PagesTyped
    <3> QED
      BY <3>1 DEF Drawn
  <2>3. doc' = Written(signed, Signature(signer), Bare) /\ sealed' = Drawings(signed)
    BY <1>4, <2>2
  <2>4. what \subseteq Drawables
    BY DEF Drawables, Texts
  <2>5. DOMAIN signed = DOMAIN doc.pages /\ signed = [i \in DOMAIN doc.pages |-> signed[i]]
        /\ \A i \in DOMAIN doc.pages : signed[i] = IF i = n THEN Drawn(pages[i], what) ELSE pages[i]
    OBVIOUS
  <2> HIDE DEF signed, what, n
  <2>6. ASSUME NEW i \in DOMAIN doc.pages
        PROVE  signed[i] \in PageRecords /\ Holds(doc.pages[i], signed[i], TRUE)
    <3>1. Same(doc.pages[i], pages[i]) /\ pages[i] \in PageRecords
      BY <2>1
    <3>2. Grown(pages[i], pages[i]) /\ Grown(pages[i], Drawn(pages[i], what))
      BY <2>4, <3>1, DrawnPainted
    <3>3. Grown(pages[i], signed[i])
      BY <2>5, <3>2
    <3>4. LinksFrom(doc.pages[i], signed[i])
      BY <3>1, <3>3, SameLinks DEF Grown
    <3> QED
      BY <3>1, <3>3, <3>4 DEF Grown, Same, Holds
  <2>7. signed \in PageLists /\ AllHold(doc.pages, signed, TRUE)
    BY <2>5, <2>6, ListTyped DEF AllHold
  <2>8. Signature(signer) \in Infos
    BY InfosTyped DEF Signature, Infos, Keys, Texts
  <2>9. doc' \in DocumentRecords /\ doc'.pages = signed /\ Plain(doc'.catalog)
    BY <2>3, <2>7, <2>8, InfosTyped, WrittenTyped
  <2>10. Coheres(doc')
    BY <2>7, <2>9, PlainCoheres
  <2> QED
    BY <1>2, <2>3, <2>7, <2>9, <2>10 DEF TypeOK
<1> QED
  BY <1>1, <1>3, <1>4

-----------------------------------------------------------------------------
(* Redaction: whatever is written is a document nobody has signed, and only what *)
(* has been verified is returned.                                                *)
Stripped(before, after) ==
  /\ ToSet(after.annots) \subseteq ToSet(before.annots)
  /\ \A a \in ToSet(before.annots) : a.kind = "Widget" => a \in ToSet(after.annots)

LEMMA StrippedKeeps ==
  ASSUME NEW before, NEW after, Stripped(before, after)
  PROVE  LinksFrom(before, after) /\ Widgets(after) = Widgets(before)
<1>1. Widgets(after) = Widgets(before)
  BY DEF Stripped, Widgets
<1>2. LinksFrom(before, after)
  BY DEF Stripped, LinksFrom
<1> QED
  BY <1>1, <1>2

LEMMA RedactedTyped ==
  ASSUME NEW page \in PageRecords, NEW terms, NEW wide \in BOOLEAN
  PROVE  Redacted(page, terms, wide) \in PageRecords /\ Stripped(page, Redacted(page, terms, wide))
<1> DEFINE found  == {<<"text", t>> : t \in terms}
           annots == Only(page.annots, {a \in ToSet(page.annots) : a.kind # "Link"})
<1>1. page.annots \in Seq(Annotations) /\ page.drawn \subseteq Drawables /\ page.images \in Seq(Images)
  BY DEF PageRecords
<1>2. annots \in Seq(Annotations) /\ <<>> \in Seq(Images)
  BY <1>1, OnlyTyped
<1>a. ToSet(annots) \subseteq ToSet(page.annots)
  BY <1>1, OnlyWithin
<1>b. ASSUME NEW a \in ToSet(page.annots), a.kind = "Widget" PROVE a \in ToSet(annots)
  <2>1. PICK k \in DOMAIN page.annots : a = page.annots[k]
    BY DEF ToSet
  <2> DEFINE set == {b \in ToSet(page.annots) : b.kind # "Link"}
  <2>2. page.annots[k] \in set
    BY <1>b, <2>1
  <2> HIDE DEF set
  <2>3. page.annots[k] \in ToSet(Only(page.annots, set))
    BY <1>1, <2>2, OnlyAll
  <2> QED
    BY <2>1, <2>3 DEF set
<1> HIDE DEF annots
<1> DEFINE narrow == [page EXCEPT !.drawn = page.drawn \ found]
           broad  == [drawn |-> {what \in page.drawn \ found : what[1] = "text"}, images |-> <<>>,
                      annots |-> annots]
<1>3. narrow \in PageRecords /\ narrow.annots = page.annots
  BY <1>1 DEF PageRecords
<1>4. broad \in PageRecords /\ broad.annots = annots
  BY <1>1, <1>2 DEF PageRecords
<1>5. Redacted(page, terms, wide) = narrow \/ Redacted(page, terms, wide) = broad
  BY DEF Redacted, annots
<1> HIDE DEF narrow, broad
<1> QED
  BY <1>3, <1>4, <1>5, <1>a, <1>b DEF Stripped

LEMMA ScrubbedTyped ==
  ASSUME TypeOK, NEW pages \in PageLists, DOMAIN pages = DOMAIN doc.pages,
         \A i \in DOMAIN doc.pages : Stripped(doc.pages[i], pages[i])
  PROVE  /\ Scrubbed(pages) \in DocumentRecords /\ ~ Signed(Scrubbed(pages))
         /\ DOMAIN Scrubbed(pages).pages = DOMAIN pages /\ Coheres(Scrubbed(pages))
<1> DEFINE reset(page) == [k \in DOMAIN page.annots |-> Reset(page.annots[k])]
           after == [i \in DOMAIN pages |-> [pages[i] EXCEPT !.annots = reset(pages[i])]]
           catalog == [doc.catalog EXCEPT !.attached = {}, !.xmp = None]
<1>1. /\ pages \in Seq(PageRecords) /\ DOMAIN pages = 1 .. Len(pages)
      /\ Len(pages) \in Nat /\ Len(pages) # 0 /\ \A i \in DOMAIN pages : pages[i] \in PageRecords
  BY DEF PageLists
<1>2. ASSUME NEW page \in PageRecords
      PROVE  /\ [page EXCEPT !.annots = reset(page)] \in PageRecords
             /\ Relabelled(page, [page EXCEPT !.annots = reset(page)])
  <2>1. page.annots \in Seq(Annotations)
    BY DEF PageRecords
  <2>2. DOMAIN page.annots = 1 .. Len(page.annots) /\ Len(page.annots) \in Nat
        /\ \A k \in DOMAIN page.annots : page.annots[k] \in Annotations
    BY <2>1
  <2>3. \A a \in Annotations :
          /\ Reset(a) \in Annotations
          /\ Reset(a).kind = a.kind /\ Reset(a).field = a.field /\ Reset(a).to = a.to
    BY DEF Reset, Annotations
  <2>4. reset(page) \in [1 .. Len(page.annots) -> Annotations]
    BY <2>2, <2>3
  <2>5. reset(page) \in Seq(Annotations)
    BY <2>2, <2>4
  <2>6. /\ DOMAIN reset(page) = DOMAIN page.annots
        /\ \A k \in DOMAIN page.annots : reset(page)[k] = Reset(page.annots[k])
    OBVIOUS
  <2> HIDE DEF reset
  <2>7. [page EXCEPT !.annots = reset(page)].annots = reset(page)
    BY DEF PageRecords
  <2>8. Relabelled(page, [page EXCEPT !.annots = reset(page)])
    BY <2>2, <2>3, <2>6, <2>7 DEF Relabelled
  <2>9. [page EXCEPT !.annots = reset(page)] \in PageRecords
    BY <2>5 DEF PageRecords
  <2> QED
    BY <2>8, <2>9
<1>3. \A i \in DOMAIN pages : after[i] \in PageRecords /\ Relabelled(pages[i], after[i])
  BY <1>1, <1>2
<1>4. after \in PageLists
  <2>1. after \in [1 .. Len(pages) -> PageRecords]
    BY <1>1, <1>3
  <2>2. after \in Seq(PageRecords) /\ Len(after) = Len(pages)
    BY <1>1, <2>1
  <2> QED
    BY <1>1, <2>2 DEF PageLists
<1>5. /\ catalog \in Catalogs
      /\ catalog.form = doc.catalog.form /\ catalog.apart = doc.catalog.apart
  BY PagesTyped DEF Catalogs
<1>6. Scrubbed(pages) = Written(after, NoInfo, catalog) /\ DOMAIN after = DOMAIN pages
  BY DEF Scrubbed
<1> HIDE DEF after, catalog
<1>7. ASSUME NEW i \in DOMAIN doc.pages
      PROVE  Widgets(after[i]) = Widgets(doc.pages[i]) /\ LinksFrom(doc.pages[i], after[i])
  <2>1. LinksFrom(doc.pages[i], pages[i]) /\ Widgets(pages[i]) = Widgets(doc.pages[i])
    BY StrippedKeeps
  <2>2. Relabelled(pages[i], after[i])
    BY <1>3
  <2>3. LinksFrom(doc.pages[i], after[i]) /\ Widgets(after[i]) = Widgets(pages[i])
    BY <2>1, <2>2, RelabelledKeeps
  <2> QED
    BY <2>1, <2>3
<1> DEFINE d == Written(after, NoInfo, catalog)
<1>8. d \in DocumentRecords /\ d.pages = after /\ d.catalog = catalog /\ d.info = NoInfo
  BY <1>4, <1>5, InfosTyped, WrittenTyped
<1> HIDE DEF d
<1>9. Coheres(d)
  BY <1>5, <1>6, <1>7, <1>8, FormCoheres
<1> QED
  BY <1>6, <1>8, <1>9, InfosTyped DEF Signed, d

(* A redaction given terms to remove: it was refused, or wrote a file and looked *)
(* at it.                                                                        *)
Checked(op, given, terms) ==
  /\ TypeOK' /\ last'.op = op /\ last'.given = given
  /\ (doc' = doc /\ sealed' = sealed) \/ ~ Signed(doc')
  /\ last'.ok => VerifyRedaction(doc', terms)
  /\ DOMAIN doc'.pages = DOMAIN doc.pages /\ Coheres(doc')

LEMMA FinishStep ==
  ASSUME TypeOK, NEW op, NEW given, NEW pages \in PageLists, DOMAIN pages = DOMAIN doc.pages,
         \A i \in DOMAIN doc.pages : Stripped(doc.pages[i], pages[i]),
         NEW terms, Finish(op, given, pages, terms)
  PROVE  Checked(op, given, terms)
<1>1. /\ doc' = Scrubbed(pages) /\ sealed' = sealed
      /\ Called(op, given, VerifyRedaction(Scrubbed(pages), terms))
  BY DEF Finish
<1>2. VerifyRedaction(Scrubbed(pages), terms) \in BOOLEAN
  BY DEF VerifyRedaction
<1>3. /\ last'.op = op /\ last'.given = given /\ last'.ok = VerifyRedaction(Scrubbed(pages), terms)
      /\ last'.ok \in BOOLEAN /\ calls' \in 0 .. MaxCalls
  BY <1>1, <1>2, CalledTyped
<1>4. /\ doc' \in DocumentRecords /\ ~ Signed(doc') /\ DOMAIN doc'.pages = DOMAIN doc.pages
      /\ Coheres(doc')
  BY <1>1, ScrubbedTyped
<1>5. last'.ok => VerifyRedaction(doc', terms)
  BY <1>1, <1>3
<1> QED
  BY <1>3, <1>4, <1>5 DEF Checked, TypeOK

LEMMA RefuseStep ==
  ASSUME TypeOK, NEW op, NEW given, NEW terms, Refuse(op, given)
  PROVE  Checked(op, given, terms)
<1>1. Called(op, given, FALSE) /\ doc' = doc /\ sealed' = sealed
  BY DEF Refuse
<1>2. last'.op = op /\ last'.given = given /\ last'.ok = FALSE /\ calls' \in 0 .. MaxCalls
  BY <1>1, CalledTyped
<1> QED
  BY <1>1, <1>2 DEF Checked, Coheres, TypeOK

LEMMA RedactTextStep ==
  ASSUME TypeOK, NEW term \in Terms, NEW targets, RedactText(term, targets)
  PROVE  Checked("redact_text", <<{term}, targets>>, {term})
<1> DEFINE given == <<{term}, targets>>
           nums  == IF targets = None THEN DOMAIN doc.pages ELSE targets
<1>1. PICK wide \in BOOLEAN :
        \/ Refuse("redact_text", given)
        \/ Finish("redact_text", given,
                  [i \in DOMAIN doc.pages |->
                     IF i \in nums THEN Redacted(doc.pages[i], {term}, wide) ELSE doc.pages[i]],
                  {term})
  BY DEF RedactText
<1> DEFINE pages == [i \in DOMAIN doc.pages |->
                       IF i \in nums THEN Redacted(doc.pages[i], {term}, wide) ELSE doc.pages[i]]
<1>2. \A i \in DOMAIN doc.pages : pages[i] \in PageRecords /\ Stripped(doc.pages[i], pages[i])
  BY PagesTyped, RedactedTyped DEF Stripped
<1>3. pages = [i \in DOMAIN doc.pages |-> pages[i]] /\ DOMAIN pages = DOMAIN doc.pages
  OBVIOUS
<1>4. Refuse("redact_text", given) \/ Finish("redact_text", given, pages, {term})
  BY <1>1
<1> HIDE DEF pages
<1>5. pages \in PageLists
  BY <1>2, <1>3, ListTyped
<1> QED
  BY <1>2, <1>3, <1>4, <1>5, FinishStep, RefuseStep

LEMMA SearchAndRedactStep ==
  ASSUME TypeOK, NEW patterns, SearchAndRedact(patterns)
  PROVE  \E forbidden : /\ Checked("search_and_redact", <<forbidden, patterns>>, forbidden)
                        /\ forbidden \subseteq patterns
<1>1. PICK wide \in BOOLEAN, shown \in BOOLEAN :
        LET matched(i) == patterns \cap (ExtractText(doc, i) \cup IF shown THEN Shown(i) ELSE {})
            forbidden  == UNION {matched(i) : i \in DOMAIN doc.pages}
        IN  IF Redactable /\ forbidden # {}
            THEN Finish("search_and_redact", <<forbidden, patterns>>,
                        [i \in DOMAIN doc.pages |-> Redacted(doc.pages[i], matched(i), wide)], forbidden)
            ELSE Refuse("search_and_redact", <<{}, patterns>>)
  BY DEF SearchAndRedact
<1> DEFINE matched(i) == patterns \cap (ExtractText(doc, i) \cup IF shown THEN Shown(i) ELSE {})
           forbidden  == UNION {matched(i) : i \in DOMAIN doc.pages}
           pages      == [i \in DOMAIN doc.pages |-> Redacted(doc.pages[i], matched(i), wide)]
<1>2. \/ forbidden # {} /\ Finish("search_and_redact", <<forbidden, patterns>>, pages, forbidden)
      \/ Refuse("search_and_redact", <<{}, patterns>>)
  BY <1>1
<1>a. forbidden \subseteq patterns
  OBVIOUS
<1> HIDE DEF matched
<1>3. \A i \in DOMAIN doc.pages : pages[i] \in PageRecords /\ Stripped(doc.pages[i], pages[i])
  BY PagesTyped, RedactedTyped
<1>4. pages = [i \in DOMAIN doc.pages |-> pages[i]] /\ DOMAIN pages = DOMAIN doc.pages
  OBVIOUS
<1> HIDE DEF pages, forbidden
<1>5. pages \in PageLists
  BY <1>3, <1>4, ListTyped
<1>6. CASE forbidden # {} /\ Finish("search_and_redact", <<forbidden, patterns>>, pages, forbidden)
  BY <1>3, <1>4, <1>5, <1>6, <1>a, FinishStep
<1>7. CASE Refuse("search_and_redact", <<{}, patterns>>)
  <2>1. Checked("search_and_redact", <<{}, patterns>>, {}) /\ {} \subseteq patterns
    BY <1>7, RefuseStep
  <2> QED
    BY <2>1
<1> QED
  BY <1>2, <1>6, <1>7

LEMMA RedactAreaStep ==
  ASSUME TypeOK, NEW num, NEW visible \in BOOLEAN, RedactArea(num, visible)
  PROVE  \E terms : Checked("redact_area", <<num>>, terms)
<1>1. \/ Refuse("redact_area", <<num>>)
      \/ /\ InRange(num)
         /\ \E covered \in SUBSET doc.pages[num + 1].drawn :
              Finish("redact_area", <<num>>, [doc.pages EXCEPT ![num + 1].drawn = @ \ covered], {})
  BY DEF RedactArea
<1>2. CASE Refuse("redact_area", <<num>>)
  BY <1>2, RefuseStep
<1>3. ASSUME InRange(num), NEW covered,
             Finish("redact_area", <<num>>, [doc.pages EXCEPT ![num + 1].drawn = @ \ covered], {})
      PROVE  \E terms : Checked("redact_area", <<num>>, terms)
  <2> DEFINE n     == num + 1
             pages == [i \in DOMAIN doc.pages |->
                         IF i = n THEN [doc.pages[i] EXCEPT !.drawn = @ \ covered] ELSE doc.pages[i]]
  <2>1. doc.pages \in Seq(PageRecords) /\ \A i \in DOMAIN doc.pages : doc.pages[i] \in PageRecords
    BY PagesTyped
  <2>2. [doc.pages EXCEPT ![num + 1].drawn = @ \ covered] = pages
    <3>1. doc.pages = [i \in DOMAIN doc.pages |-> doc.pages[i]]
      BY <2>1
    <3> QED
      BY <1>3, <3>1 DEF InRange
  <2>3. \A i \in DOMAIN doc.pages : pages[i] \in PageRecords /\ pages[i].annots = doc.pages[i].annots
    BY <2>1 DEF PageRecords
  <2>a. \A i \in DOMAIN doc.pages : Stripped(doc.pages[i], pages[i])
    BY <2>3 DEF Stripped
  <2>4. pages = [i \in DOMAIN doc.pages |-> pages[i]] /\ DOMAIN pages = DOMAIN doc.pages
    OBVIOUS
  <2>5. Finish("redact_area", <<num>>, pages, {})
    BY <1>3, <2>2
  <2> HIDE DEF pages
  <2>6. pages \in PageLists
    BY <2>3, <2>4, ListTyped
  <2> QED
    BY <2>4, <2>5, <2>6, <2>a, FinishStep
<1> QED
  BY <1>1, <1>2, <1>3

-----------------------------------------------------------------------------
(* Every call.                                                                   *)
Filling == \E data \in Fills : FillForm(data)

LEMMA EachCall ==
  ASSUME TypeOK, Next
  PROVE  \/ \E op : Usual(op) /\ op \notin Redactions \cup {"fill_form"}
         \/ Filling
         \/ \E signer \in Terms, keys \in BOOLEAN : Sign(signer, keys)
         \/ Redacting
<1>1. ASSUME NEW op, Usual(op),
             op \in Makers \cup Flats \cup
                    {"mark_area", "add_sticky_note", "add_text_comment", "add_link", "add_internal_link",
                     "compress", "optimize", "remove_unused_objects", "linearize",
                     "add_text", "add_annotation", "add_image", "add_shape", "add_text_watermark",
                     "add_image_watermark", "add_headers_footers", "set_metadata", "remove_metadata",
                     "add_attachment", "remove_attachments", "set_language", "set_title_display",
                     "encrypt", "decrypt"}
      PROVE  Usual(op) /\ op \notin Redactions \cup {"fill_form"}
  BY <1>1 DEF Makers, Flats, Redactions
<1>2. CASE Editing
  BY <1>1, <1>2, EditingStep
<1>3. CASE Annotating
  BY <1>1, <1>3, AnnotatingStep
<1>4. CASE Flattening
  BY <1>1, <1>4, FlatteningStep
<1>5. CASE FillingForms
  <2>1. ASSUME NEW fields \in FieldLists, CreateForm(fields)
        PROVE  Usual("create_form") /\ "create_form" \in Makers
    BY <2>1, CreateFormStep DEF Makers
  <2> QED
    BY <1>1, <1>5, <2>1 DEF FillingForms, Filling
<1>6. CASE Shrinking
  BY <1>1, <1>6, ShrinkingStep
<1>7. CASE Creating
  BY <1>1, <1>7, CreatingStep
<1>8. CASE Describing
  BY <1>1, <1>8, DescribingStep
<1>9. CASE Protecting
  <2>1. \/ \E user \in Passwords, owner \in Passwords \cup {None} : Encrypt(user, owner)
        \/ \E password \in Passwords : Decrypt(password)
        \/ \E signer \in Terms, keys \in BOOLEAN : Sign(signer, keys)
    BY <1>9 DEF Protecting
  <2> QED
    BY <1>1, <2>1, EncryptStep, DecryptStep
<1> QED
  BY <1>2, <1>3, <1>4, <1>5, <1>6, <1>7, <1>8, <1>9 DEF Next

LEMMA EveryCall ==
  ASSUME TypeOK, Next
  PROVE  \/ \E op : Usual(op) /\ op \notin Redactions
         \/ \E signer \in Terms, keys \in BOOLEAN : Sign(signer, keys)
         \/ Redacting
<1>1. Filling => Usual("fill_form") /\ "fill_form" \notin Redactions
  BY FillFormStep DEF Filling, Redactions
<1> QED
  BY <1>1, EachCall

LEMMA EveryRedaction ==
  ASSUME TypeOK, Redacting
  PROVE  \E op \in Lossy : \E given, terms :
           /\ Checked(op, given, terms)
           /\ op \in Redactions => given[1] = terms /\ terms \subseteq Terms
<1>1. ASSUME NEW term \in Terms, NEW targets, RedactText(term, targets)
      PROVE  \E op \in Lossy : \E given, terms :
               /\ Checked(op, given, terms)
               /\ op \in Redactions => given[1] = terms /\ terms \subseteq Terms
  <2>1. Checked("redact_text", <<{term}, targets>>, {term})
    BY <1>1, RedactTextStep
  <2>2. <<{term}, targets>>[1] = {term} /\ {term} \subseteq Terms /\ "redact_text" \in Lossy
    BY DEF Lossy
  <2> QED
    BY <2>1, <2>2
<1>2. ASSUME NEW patterns \in SUBSET Terms, SearchAndRedact(patterns)
      PROVE  \E op \in Lossy : \E given, terms :
               /\ Checked(op, given, terms)
               /\ op \in Redactions => given[1] = terms /\ terms \subseteq Terms
  <2>1. PICK forbidden : /\ Checked("search_and_redact", <<forbidden, patterns>>, forbidden)
                         /\ forbidden \subseteq patterns
    BY <1>2, SearchAndRedactStep
  <2>2. <<forbidden, patterns>>[1] = forbidden /\ forbidden \subseteq Terms /\ "search_and_redact" \in Lossy
    BY <2>1 DEF Lossy
  <2> QED
    BY <2>1, <2>2
<1>3. ASSUME NEW num, NEW visible \in BOOLEAN, RedactArea(num, visible)
      PROVE  \E op \in Lossy : \E given, terms :
               /\ Checked(op, given, terms)
               /\ op \in Redactions => given[1] = terms /\ terms \subseteq Terms
  <2>1. PICK terms : Checked("redact_area", <<num>>, terms)
    BY <1>3, RedactAreaStep
  <2>2. "redact_area" \notin Redactions /\ "redact_area" \in Lossy
    BY DEF Lossy, Redactions
  <2> QED
    BY <2>1, <2>2
<1> QED
  BY <1>1, <1>2, <1>3 DEF Redacting

-----------------------------------------------------------------------------
(* A call that is given no text brings none into the file that was not stored in *)
(* it before, on a page, in a field, the metadata or the catalog.                *)
TextsOf(page) ==
  {t \in Texts : <<"text", t>> \in page.drawn} \cup UNION {{a.says, a.default} : a \in ToSet(page.annots)}

Quiet(after) == Stored(after) \subseteq Stored(doc) \cup {Tool, None}

LEMMA StoredIs ==
  ASSUME NEW d, NEW text
  PROVE  text \in Stored(d) <=>
           \/ \E k \in Keys : text = d.info[k]
           \/ text \in {d.catalog.xmp, d.catalog.outline, d.catalog.lang}
           \/ \E i \in DOMAIN d.pages : text \in TextsOf(d.pages[i])
           \/ \E f \in d.catalog.apart : text \in {f.value, f.default}
<1>1. text \in InfoTexts(d) <=> text = d.catalog.xmp \/ \E k \in Keys : text = d.info[k]
  BY DEF InfoTexts
<1>2. text \in PageTexts(d) <=>
        \E i \in DOMAIN d.pages : text \in {t \in Texts : <<"text", t>> \in d.pages[i].drawn}
  BY DEF PageTexts, ExtractText
<1>3. text \in UNION {{a.says, a.default} : a \in AnnotsOf(d.pages)} <=>
        \E i \in DOMAIN d.pages : text \in UNION {{a.says, a.default} : a \in ToSet(d.pages[i].annots)}
  BY DEF AnnotsOf
<1>4. text \in RawTexts(d) <=>
        \/ text \in UNION {{a.says, a.default} : a \in AnnotsOf(d.pages)}
        \/ \E f \in d.catalog.apart : text \in {f.value, f.default}
        \/ text \in {d.catalog.outline, d.catalog.lang}
  BY DEF RawTexts
<1> QED
  BY <1>1, <1>2, <1>3, <1>4 DEF Stored, TextsOf

LEMMA QuietIf ==
  ASSUME NEW after, DOMAIN after.pages = DOMAIN doc.pages,
         \A i \in DOMAIN doc.pages : TextsOf(after.pages[i]) \subseteq TextsOf(doc.pages[i]) \cup {None},
         \A k \in Keys : after.info[k] \in {doc.info[k], Tool, None},
         after.catalog.xmp \in {doc.catalog.xmp, None}, after.catalog.lang \in {doc.catalog.lang, None},
         after.catalog.outline \in {doc.catalog.outline, None},
         after.catalog.apart \subseteq doc.catalog.apart
  PROVE  Quiet(after)
<1> SUFFICES ASSUME NEW text \in Stored(after), text \notin {Tool, None}
             PROVE  text \in Stored(doc)
  BY DEF Quiet
<1>1. \/ \E k \in Keys : text = after.info[k]
      \/ text \in {after.catalog.xmp, after.catalog.outline, after.catalog.lang}
      \/ \E i \in DOMAIN after.pages : text \in TextsOf(after.pages[i])
      \/ \E f \in after.catalog.apart : text \in {f.value, f.default}
  BY StoredIs
<1>2. \/ \E k \in Keys : text = doc.info[k]
      \/ text \in {doc.catalog.xmp, doc.catalog.outline, doc.catalog.lang}
      \/ \E i \in DOMAIN doc.pages : text \in TextsOf(doc.pages[i])
      \/ \E f \in doc.catalog.apart : text \in {f.value, f.default}
  BY <1>1
<1> QED
  BY <1>2, StoredIs

LEMMA SameSilent ==
  ASSUME NEW before, NEW after, Same(before, after)
  PROVE  TextsOf(after) = TextsOf(before)
<1>1. after.drawn = before.drawn /\ DOMAIN after.annots = DOMAIN before.annots
  BY DEF Same
<1>2. \A k \in DOMAIN before.annots : /\ after.annots[k].says = before.annots[k].says
                                     /\ after.annots[k].default = before.annots[k].default
  BY DEF Same, Content
<1>3. UNION {{a.says, a.default} : a \in ToSet(after.annots)}
        = UNION {{a.says, a.default} : a \in ToSet(before.annots)}
  BY <1>1, <1>2 DEF ToSet
<1> QED
  BY <1>1, <1>3 DEF TextsOf

LEMMA InfosQuiet ==
  ASSUME NEW info \in {Over(Fresh, doc.info), Fresh, NoInfo}
  PROVE  \A k \in Keys : info[k] \in {doc.info[k], Tool, None}
BY DEF Over, Fresh, NoInfo, Keys

(* What a function writes that copies pages that say no more, and no texts of    *)
(* the catalog.                                                                  *)
LEMMA MuteQuiet ==
  ASSUME TypeOK, NEW pages \in Copies(doc.pages), NEW after, DOMAIN after.pages = DOMAIN pages,
         \A i \in DOMAIN pages : TextsOf(after.pages[i]) \subseteq TextsOf(pages[i]) \cup {None},
         after.info \in {Over(Fresh, doc.info), Fresh, NoInfo},
         after.catalog.xmp = None, after.catalog.lang = None, after.catalog.outline = None,
         after.catalog.apart = {}
  PROVE  Quiet(after)
<1>1. /\ DOMAIN pages = DOMAIN doc.pages
      /\ \A i \in DOMAIN doc.pages : TextsOf(pages[i]) = TextsOf(doc.pages[i])
  BY CopiesSame, SameSilent
<1>2. \A k \in Keys : after.info[k] \in {doc.info[k], Tool, None}
  BY InfosQuiet
<1> QED
  BY <1>1, <1>2, QuietIf

LEMMA WrittenQuiet ==
  ASSUME TypeOK, NEW pages \in Copies(doc.pages), NEW after, DOMAIN after = DOMAIN pages,
         \A i \in DOMAIN pages : TextsOf(after[i]) \subseteq TextsOf(pages[i]) \cup {None},
         NEW info \in {Over(Fresh, doc.info), Fresh, NoInfo}
  PROVE  Quiet(Written(after, info, Bare))
<1> DEFINE d == Written(after, info, Bare)
<1>1. d.pages = after /\ d.info = info /\ d.catalog = Bare
  BY DEF Written
<1>2. Bare.xmp = None /\ Bare.lang = None /\ Bare.outline = None /\ Bare.apart = {}
  BY DEF Bare
<1> HIDE DEF d
<1>3. Quiet(d)
  BY <1>1, <1>2, MuteQuiet
<1> QED
  BY <1>3 DEF d

LEMMA CopyQuiet ==
  ASSUME TypeOK, NEW pages \in Copies(doc.pages), NEW info \in {Over(Fresh, doc.info), Fresh, NoInfo}
  PROVE  Quiet(Written(pages, info, Bare))
BY WrittenQuiet

LEMMA NothingQuiet == Quiet(doc)
BY DEF Quiet

LEMMA DrawnSilent ==
  ASSUME NEW page \in PageRecords, NEW what, \A w \in what : w[1] # "text"
  PROVE  TextsOf(Drawn(page, what)) = TextsOf(page)
<1>1. /\ Drawn(page, what).drawn = page.drawn \cup what
      /\ Drawn(page, what).annots = page.annots
  BY DEF Drawn, PageRecords
<1>2. \A t : <<"text", t>> \notin what
  <2>1. \A t : <<"text", t>>[1] = "text"
    OBVIOUS
  <2> QED
    BY <2>1
<1> QED
  BY <1>1, <1>2 DEF TextsOf

LEMMA PicturedSilent ==
  ASSUME NEW page \in PageRecords, NEW size
  PROVE  TextsOf(Pictured(page, size)) = TextsOf(page)
<1> DEFINE what == {<<"image", size>>}
<1>1. TextsOf(Drawn(page, what)) = TextsOf(page)
  BY DrawnSilent
<1>2. /\ Pictured(page, size).drawn = Drawn(page, what).drawn
      /\ Pictured(page, size).annots = Drawn(page, what).annots
  BY DEF Pictured, Drawn, PageRecords
<1> QED
  BY <1>1, <1>2 DEF TextsOf

LEMMA AddImageQuiet ==
  ASSUME TypeOK, NEW num, NEW size, AddImage(num, size)
  PROVE  Quiet(doc')
<1>1. PICK pages \in Copies(doc.pages), ok \in BOOLEAN :
        doc' = IF ok THEN Overlaid([i \in DOMAIN pages |->
                                      IF i = num + 1 THEN Pictured(pages[i], size) ELSE pages[i]])
               ELSE doc
  BY DEF AddImage, Edit, Call, Called
<1> DEFINE after == [i \in DOMAIN pages |-> IF i = num + 1 THEN Pictured(pages[i], size) ELSE pages[i]]
<1>2. \A i \in DOMAIN pages : TextsOf(after[i]) \subseteq TextsOf(pages[i]) \cup {None}
  BY CopiesSame, PicturedSilent DEF Same
<1>3. DOMAIN after = DOMAIN pages
  OBVIOUS
<1>4. doc' = doc \/ doc' = Written(after, Fresh, Bare)
  BY <1>1 DEF Overlaid
<1> HIDE DEF after
<1> QED
  BY <1>2, <1>3, <1>4, WrittenQuiet, NothingQuiet

LEMMA AddShapeQuiet ==
  ASSUME TypeOK, NEW num, NEW shape, AddShape(num, shape)
  PROVE  Quiet(doc')
<1> DEFINE what == {<<"shape", shape>>}
<1>1. PICK pages \in Copies(doc.pages), ok \in BOOLEAN :
        doc' = IF ok THEN Overlaid([i \in DOMAIN pages |->
                                      IF i = num + 1 THEN Drawn(pages[i], what) ELSE pages[i]])
               ELSE doc
  BY DEF AddShape, Edit, Call, Called
<1>a. \A w \in what : w[1] # "text"
  OBVIOUS
<1> HIDE DEF what
<1> DEFINE after == [i \in DOMAIN pages |-> IF i = num + 1 THEN Drawn(pages[i], what) ELSE pages[i]]
<1>2. \A i \in DOMAIN pages : TextsOf(after[i]) \subseteq TextsOf(pages[i]) \cup {None}
  BY <1>a, CopiesSame, DrawnSilent DEF Same
<1>3. DOMAIN after = DOMAIN pages
  OBVIOUS
<1>4. doc' = doc \/ doc' = Written(after, Fresh, Bare)
  BY <1>1 DEF Overlaid
<1> HIDE DEF after
<1> QED
  BY <1>2, <1>3, <1>4, WrittenQuiet, NothingQuiet

LEMMA AddImageWatermarkQuiet ==
  ASSUME TypeOK, NEW size, NEW position, AddImageWatermark(size, position)
  PROVE  Quiet(doc')
<1>1. PICK pages \in Copies(doc.pages), ok \in BOOLEAN :
        doc' = IF ok THEN Overlaid([i \in DOMAIN pages |-> Pictured(pages[i], size)]) ELSE doc
  BY DEF AddImageWatermark, Call, Called
<1> DEFINE after == [i \in DOMAIN pages |-> Pictured(pages[i], size)]
<1>2. \A i \in DOMAIN pages : TextsOf(after[i]) \subseteq TextsOf(pages[i]) \cup {None}
  BY CopiesSame, PicturedSilent DEF Same
<1>3. DOMAIN after = DOMAIN pages
  OBVIOUS
<1>4. doc' = doc \/ doc' = Written(after, Fresh, Bare)
  BY <1>1 DEF Overlaid
<1> HIDE DEF after
<1> QED
  BY <1>2, <1>3, <1>4, WrittenQuiet, NothingQuiet

(* An annotation that says nothing.                                              *)
LEMMA AnnotateQuiet ==
  ASSUME TypeOK, NEW op, NEW given, NEW num, NEW accepted, NEW annot,
         annot.says = None, annot.default = None, Annotate(op, given, num, accepted, annot)
  PROVE  Quiet(doc')
<1>1. PICK pages \in Copies(doc.pages), ok \in BOOLEAN :
        /\ ok => InRange(num)
        /\ doc' = IF ok THEN Kept(Annotated(pages, num, annot)) ELSE doc
  BY DEF Annotate, Call, Called
<1> DEFINE n     == num + 1
           after == [i \in DOMAIN pages |->
                       IF i = n THEN [pages[n] EXCEPT !.annots = Append(pages[n].annots, annot)]
                       ELSE pages[i]]
<1>2. /\ pages \in Seq(PageRecords) /\ DOMAIN pages = DOMAIN doc.pages
      /\ \A i \in DOMAIN pages : pages[i] \in PageRecords
  BY CopiesSame DEF Same
<1>3. InRange(num) => Annotated(pages, num, annot) = after
  BY <1>2 DEF Annotated, InRange
<1>4. ASSUME NEW i \in DOMAIN pages
      PROVE  TextsOf(after[i]) \subseteq TextsOf(pages[i]) \cup {None}
  <2>1. CASE i # n
    BY <2>1
  <2>2. CASE i = n
    <3> DEFINE annots == Append(pages[n].annots, annot)
    <3>1. pages[n] \in PageRecords /\ pages[n].annots \in Seq(Annotations)
      BY <1>2, <2>2 DEF PageRecords
    <3>2. ToSet(annots) \subseteq ToSet(pages[n].annots) \cup {annot}
      BY <3>1 DEF ToSet
    <3>3. after[i] = [pages[n] EXCEPT !.annots = annots]
      BY <2>2
    <3> HIDE DEF annots, after
    <3>4. after[i].drawn = pages[n].drawn /\ after[i].annots = annots
      BY <3>1, <3>3 DEF PageRecords
    <3>5. UNION {{a.says, a.default} : a \in ToSet(annots)}
            \subseteq (UNION {{a.says, a.default} : a \in ToSet(pages[n].annots)}) \cup {None}
      BY <3>2
    <3> QED
      BY <2>2, <3>4, <3>5 DEF TextsOf
  <2> QED
    BY <2>1, <2>2
<1>5. DOMAIN after = DOMAIN pages
  OBVIOUS
<1>6. doc' = doc \/ doc' = Written(after, Over(Fresh, doc.info), Bare)
  BY <1>1, <1>3 DEF Kept
<1> HIDE DEF after
<1> QED
  BY <1>4, <1>5, <1>6, WrittenQuiet, NothingQuiet

LEMMA MarkAreaQuiet ==
  ASSUME TypeOK, NEW num, NEW kind, MarkArea(num, kind)
  PROVE  Quiet(doc')
<1>1. Annot(kind, None).says = None /\ Annot(kind, None).default = None
  BY DEF Annot
<1> QED
  BY <1>1, AnnotateQuiet DEF MarkArea

LEMMA AddInternalLinkQuiet ==
  ASSUME TypeOK, NEW num, NEW to, AddInternalLink(num, to)
  PROVE  Quiet(doc')
<1> DEFINE annot == [Annot("Link", None) EXCEPT !.to = to + 1]
<1>1. annot.says = None /\ annot.default = None
  BY DEF Annot
<1>2. Annotate("add_internal_link", <<num, to>>, num, InRange(to), annot)
  BY DEF AddInternalLink
<1> HIDE DEF annot
<1> QED
  BY <1>1, <1>2, AnnotateQuiet

(* What an annotation shows it has said.                                         *)
LEMMA FlattenedSilent ==
  ASSUME NEW page \in PageRecords, NEW kinds, NEW merged \in BOOLEAN
  PROVE  TextsOf(Flattened(page, kinds, merged)) \subseteq TextsOf(page)
<1> DEFINE going  == {a \in ToSet(page.annots) : a.kind \in kinds}
           shown  == {a \in going : merged /\ a.look}
           looks  == {<<"look", a.kind>> : a \in shown}
           texts  == {<<"text", a.says>> : a \in {a \in shown : a.says # None}}
           annots == Only(page.annots, ToSet(page.annots) \ going)
           says   == UNION {{a.says, a.default} : a \in ToSet(page.annots)}
<1>1. page.annots \in Seq(Annotations)
  BY DEF PageRecords
<1>2. ToSet(annots) \subseteq ToSet(page.annots)
  BY <1>1, OnlyWithin
<1>3. \A t : <<"text", t>> \in looks \cup texts => t \in says
  OBVIOUS
<1>4. Flattened(page, kinds, merged) = [page EXCEPT !.drawn = page.drawn \cup looks \cup texts, !.annots = annots]
  BY DEF Flattened
<1> HIDE DEF looks, texts, annots
<1> DEFINE flat == Flattened(page, kinds, merged)
<1>5. flat.drawn = page.drawn \cup looks \cup texts /\ flat.annots = annots
  BY <1>4 DEF PageRecords
<1> HIDE DEF flat
<1>6. UNION {{a.says, a.default} : a \in ToSet(flat.annots)} \subseteq says
  BY <1>2, <1>5
<1>7. {t \in Texts : <<"text", t>> \in flat.drawn}
        \subseteq {t \in Texts : <<"text", t>> \in page.drawn} \cup says
  BY <1>3, <1>5
<1>8. TextsOf(flat) \subseteq TextsOf(page)
  BY <1>6, <1>7 DEF TextsOf
<1> QED
  BY <1>8 DEF flat

LEMMA FlattenQuiet ==
  ASSUME TypeOK, NEW op, NEW kinds, Flatten(op, kinds)
  PROVE  Quiet(doc')
<1>1. PICK merged \in BOOLEAN :
        Call(op, <<kinds>>, TRUE, LAMBDA pages :
          Written([i \in DOMAIN pages |-> Flattened(pages[i], kinds, merged)], Fresh, Formless))
  BY DEF Flatten
<1>2. PICK pages \in Copies(doc.pages), ok \in BOOLEAN :
        doc' = IF ok THEN Written([i \in DOMAIN pages |-> Flattened(pages[i], kinds, merged)], Fresh, Formless)
               ELSE doc
  BY <1>1 DEF Call, Called
<1> DEFINE after == [i \in DOMAIN pages |-> Flattened(pages[i], kinds, merged)]
<1>3. \A i \in DOMAIN pages : TextsOf(after[i]) \subseteq TextsOf(pages[i]) \cup {None}
  BY CopiesSame, FlattenedSilent DEF Same
<1>4. DOMAIN after = DOMAIN pages
  OBVIOUS
<1>5. doc' = doc \/ doc' = Written(after, Fresh, Bare)
  BY <1>2 DEF Formless
<1> HIDE DEF after
<1> QED
  BY <1>3, <1>4, <1>5, WrittenQuiet, NothingQuiet

LEMMA CompressQuiet ==
  ASSUME TypeOK, NEW quality, Compress(quality)
  PROVE  Quiet(doc')
<1> DEFINE all == [DOMAIN doc.pages -> UNION {Recompressions(doc.pages[i]) : i \in DOMAIN doc.pages}]
<1>1. PICK pages \in all, raised \in BOOLEAN :
        Call("compress", <<>>, quality \in {"low", "medium", "high"} /\ ~ raised, LAMBDA copies :
             Kept([i \in DOMAIN copies |-> [copies[i] EXCEPT !.images = pages[i].images]]))
  BY DEF Compress
<1> HIDE DEF all
<1>2. PICK copies \in Copies(doc.pages), ok \in BOOLEAN :
        doc' = IF ok THEN Kept([i \in DOMAIN copies |-> [copies[i] EXCEPT !.images = pages[i].images]])
               ELSE doc
  BY <1>1 DEF Call, Called
<1> DEFINE after == [i \in DOMAIN copies |-> [copies[i] EXCEPT !.images = pages[i].images]]
<1>3. \A i \in DOMAIN copies : TextsOf(after[i]) \subseteq TextsOf(copies[i]) \cup {None}
  <2>1. \A i \in DOMAIN copies : copies[i] \in PageRecords
    BY CopiesSame DEF Same
  <2>2. \A i \in DOMAIN copies : after[i].drawn = copies[i].drawn /\ after[i].annots = copies[i].annots
    BY <2>1 DEF PageRecords
  <2> HIDE DEF after
  <2> QED
    BY <2>2 DEF TextsOf
<1>4. DOMAIN after = DOMAIN copies
  OBVIOUS
<1>5. doc' = doc \/ doc' = Written(after, Over(Fresh, doc.info), Bare)
  BY <1>2 DEF Kept
<1> HIDE DEF after
<1> QED
  BY <1>3, <1>4, <1>5, WrittenQuiet, NothingQuiet

LEMMA OptimizeQuiet ==
  ASSUME TypeOK, NEW remove_metadata, Optimize(remove_metadata)
  PROVE  Quiet(doc')
<1>1. PICK pages \in Copies(doc.pages), ok \in BOOLEAN :
        doc' = IF ok THEN IF remove_metadata THEN Written(pages, Fresh, Bare) ELSE Kept(pages) ELSE doc
  BY DEF Optimize, Call, Called
<1> QED
  BY <1>1, CopyQuiet, NothingQuiet DEF Kept

LEMMA RewriteQuiet ==
  ASSUME TypeOK, NEW op, NEW given, NEW accepted, Call(op, given, accepted, Kept)
  PROVE  Quiet(doc')
<1>1. PICK pages \in Copies(doc.pages), ok \in BOOLEAN : doc' = IF ok THEN Kept(pages) ELSE doc
  BY DEF Call, Called
<1> QED
  BY <1>1, CopyQuiet, NothingQuiet DEF Kept

LEMMA DecryptQuiet ==
  ASSUME TypeOK, NEW password, Decrypt(password)
  PROVE  Quiet(doc')
<1>1. PICK pages \in Copies(doc.pages), ok \in BOOLEAN : doc' = IF ok THEN Kept(pages) ELSE doc
  BY DEF Decrypt, Called, Opens
<1> QED
  BY <1>1, CopyQuiet, NothingQuiet DEF Kept

LEMMA RemoveMetadataQuiet ==
  ASSUME TypeOK, RemoveMetadata
  PROVE  Quiet(doc')
<1>1. PICK pages \in Copies(doc.pages), ok \in BOOLEAN :
        doc' = IF ok THEN Written(pages, NoInfo, Bare) ELSE doc
  BY DEF RemoveMetadata, Call, Called
<1> QED
  BY <1>1, CopyQuiet, NothingQuiet

LEMMA SetTitleDisplayQuiet ==
  ASSUME TypeOK, NEW display, SetTitleDisplay(display)
  PROVE  Quiet(doc')
<1>1. PICK pages \in Copies(doc.pages), ok \in BOOLEAN :
        doc' = IF ok THEN [Kept(pages) EXCEPT !.catalog.display = display] ELSE doc
  BY DEF SetTitleDisplay, Call, Called
<1> DEFINE d == [Kept(pages) EXCEPT !.catalog.display = display]
<1>2. /\ d.pages = pages /\ d.info = Over(Fresh, doc.info)
      /\ d.catalog = [Bare EXCEPT !.display = display]
  BY DEF Kept, Written
<1>3. /\ d.catalog.xmp = None /\ d.catalog.lang = None /\ d.catalog.outline = None
      /\ d.catalog.apart = {}
  BY <1>2 DEF Bare
<1>4. doc' = doc \/ doc' = d
  BY <1>1
<1> HIDE DEF d
<1>5. Quiet(d)
  BY <1>2, <1>3, MuteQuiet
<1> QED
  BY <1>4, <1>5, NothingQuiet

LEMMA EncryptQuiet ==
  ASSUME TypeOK, NEW user, NEW owner, Encrypt(user, owner)
  PROVE  Quiet(doc')
<1>1. PICK pages \in Copies(doc.pages), ok \in BOOLEAN :
        doc' = IF ok THEN [Kept(pages) EXCEPT !.lock = <<user, Owner(user, owner)>>] ELSE doc
  BY DEF Encrypt, Call, Called
<1> DEFINE d == [Kept(pages) EXCEPT !.lock = <<user, Owner(user, owner)>>]
<1>2. d.pages = pages /\ d.info = Over(Fresh, doc.info) /\ d.catalog = Bare
  BY DEF Kept, Written
<1>3. Bare.xmp = None /\ Bare.lang = None /\ Bare.outline = None /\ Bare.apart = {}
  BY DEF Bare
<1>4. doc' = doc \/ doc' = d
  BY <1>1
<1> HIDE DEF d
<1>5. Quiet(d)
  BY <1>2, <1>3, MuteQuiet
<1> QED
  BY <1>4, <1>5, NothingQuiet

(* A redaction leaves less on the pages; a widget that is reset says its default.*)
LEMMA RedactedSilent ==
  ASSUME NEW page \in PageRecords, NEW terms, NEW wide \in BOOLEAN
  PROVE  TextsOf(Redacted(page, terms, wide)) \subseteq TextsOf(page)
<1> DEFINE less == Redacted(page, terms, wide)
<1>1. less.drawn \subseteq page.drawn
  <2>1. \A found : [page EXCEPT !.drawn = @ \ found].drawn = page.drawn \ found
    BY DEF PageRecords
  <2> QED
    BY <2>1 DEF Redacted
<1>2. ToSet(less.annots) \subseteq ToSet(page.annots)
  BY RedactedTyped DEF Stripped
<1> HIDE DEF less
<1>3. TextsOf(less) \subseteq TextsOf(page)
  BY <1>1, <1>2 DEF TextsOf
<1> QED
  BY <1>3 DEF less

LEMMA FinishQuiet ==
  ASSUME TypeOK, NEW op, NEW given, NEW pages, NEW terms, DOMAIN pages = DOMAIN doc.pages,
         \A i \in DOMAIN doc.pages : /\ pages[i] \in PageRecords
                                     /\ TextsOf(pages[i]) \subseteq TextsOf(doc.pages[i]),
         Finish(op, given, pages, terms)
  PROVE  Quiet(doc')
<1> DEFINE reset(page) == [page EXCEPT !.annots = [k \in DOMAIN page.annots |-> Reset(page.annots[k])]]
           after == [i \in DOMAIN pages |-> reset(pages[i])]
           catalog == [doc.catalog EXCEPT !.attached = {}, !.xmp = None]
<1>1. doc' = Written(after, NoInfo, catalog)
  BY DEF Finish, Scrubbed
<1>2. ASSUME NEW page \in PageRecords PROVE TextsOf(reset(page)) \subseteq TextsOf(page)
  <2> DEFINE annots == [k \in DOMAIN page.annots |-> Reset(page.annots[k])]
  <2>1. page.annots \in Seq(Annotations) /\ \A k \in DOMAIN page.annots : page.annots[k] \in Annotations
    BY DEF PageRecords
  <2>2. \A a \in Annotations : /\ Reset(a).says \in {a.says, a.default}
                               /\ Reset(a).default = a.default
    BY DEF Reset, Annotations
  <2>3. \A k \in DOMAIN page.annots :
          {annots[k].says, annots[k].default} \subseteq {page.annots[k].says, page.annots[k].default}
    BY <2>1, <2>2
  <2>4. DOMAIN annots = DOMAIN page.annots
    OBVIOUS
  <2>5. reset(page).drawn = page.drawn /\ reset(page).annots = annots
    BY DEF PageRecords
  <2> HIDE DEF annots, reset
  <2>6. UNION {{a.says, a.default} : a \in ToSet(annots)}
          \subseteq UNION {{a.says, a.default} : a \in ToSet(page.annots)}
    BY <2>3, <2>4 DEF ToSet
  <2> QED
    BY <2>5, <2>6 DEF TextsOf
<1>3. \A i \in DOMAIN doc.pages : TextsOf(after[i]) \subseteq TextsOf(doc.pages[i]) \cup {None}
  <2> HIDE DEF reset
  <2>1. \A i \in DOMAIN doc.pages : after[i] = reset(pages[i])
    OBVIOUS
  <2> QED
    BY <1>2, <2>1
<1>4. DOMAIN after = DOMAIN doc.pages
  OBVIOUS
<1>5. /\ catalog.xmp = None /\ catalog.lang = doc.catalog.lang
      /\ catalog.outline = doc.catalog.outline /\ catalog.apart = doc.catalog.apart
  BY PagesTyped DEF Catalogs
<1>6. \A k \in Keys : NoInfo[k] = None
  BY DEF NoInfo
<1> HIDE DEF after, catalog
<1>7. doc'.pages = after /\ doc'.info = NoInfo /\ doc'.catalog = catalog
  BY <1>1 DEF Written
<1> QED
  BY <1>3, <1>4, <1>5, <1>6, <1>7, QuietIf

LEMMA RedactTextQuiet ==
  ASSUME TypeOK, NEW term, NEW targets, RedactText(term, targets)
  PROVE  Quiet(doc')
<1> DEFINE given == <<{term}, targets>>
           nums  == IF targets = None THEN DOMAIN doc.pages ELSE targets
<1>1. PICK wide \in BOOLEAN :
        \/ Refuse("redact_text", given)
        \/ Finish("redact_text", given,
                  [i \in DOMAIN doc.pages |->
                     IF i \in nums THEN Redacted(doc.pages[i], {term}, wide) ELSE doc.pages[i]],
                  {term})
  BY DEF RedactText
<1> DEFINE pages == [i \in DOMAIN doc.pages |->
                       IF i \in nums THEN Redacted(doc.pages[i], {term}, wide) ELSE doc.pages[i]]
<1>2. \A i \in DOMAIN doc.pages : /\ pages[i] \in PageRecords
                                  /\ TextsOf(pages[i]) \subseteq TextsOf(doc.pages[i])
  BY PagesTyped, RedactedTyped, RedactedSilent
<1>3. DOMAIN pages = DOMAIN doc.pages
  OBVIOUS
<1>4. Refuse("redact_text", given) \/ Finish("redact_text", given, pages, {term})
  BY <1>1
<1> HIDE DEF pages
<1>5. Refuse("redact_text", given) => doc' = doc
  BY Zenon DEF Refuse
<1> QED
  BY <1>2, <1>3, <1>4, <1>5, FinishQuiet, NothingQuiet

LEMMA SearchAndRedactQuiet ==
  ASSUME TypeOK, NEW patterns, SearchAndRedact(patterns)
  PROVE  Quiet(doc')
<1>1. PICK wide \in BOOLEAN, shown \in BOOLEAN :
        LET matched(i) == patterns \cap (ExtractText(doc, i) \cup IF shown THEN Shown(i) ELSE {})
            forbidden  == UNION {matched(i) : i \in DOMAIN doc.pages}
        IN  IF Redactable /\ forbidden # {}
            THEN Finish("search_and_redact", <<forbidden, patterns>>,
                        [i \in DOMAIN doc.pages |-> Redacted(doc.pages[i], matched(i), wide)], forbidden)
            ELSE Refuse("search_and_redact", <<{}, patterns>>)
  BY DEF SearchAndRedact
<1> DEFINE matched(i) == patterns \cap (ExtractText(doc, i) \cup IF shown THEN Shown(i) ELSE {})
           forbidden  == UNION {matched(i) : i \in DOMAIN doc.pages}
           pages      == [i \in DOMAIN doc.pages |-> Redacted(doc.pages[i], matched(i), wide)]
<1>2. \/ Finish("search_and_redact", <<forbidden, patterns>>, pages, forbidden)
      \/ Refuse("search_and_redact", <<{}, patterns>>)
  BY <1>1
<1> HIDE DEF matched
<1>3. \A i \in DOMAIN doc.pages : /\ pages[i] \in PageRecords
                                  /\ TextsOf(pages[i]) \subseteq TextsOf(doc.pages[i])
  BY PagesTyped, RedactedTyped, RedactedSilent
<1>4. DOMAIN pages = DOMAIN doc.pages
  OBVIOUS
<1> HIDE DEF pages, forbidden
<1>5. Refuse("search_and_redact", <<{}, patterns>>) => doc' = doc
  BY Zenon DEF Refuse
<1> QED
  BY <1>2, <1>3, <1>4, <1>5, FinishQuiet, NothingQuiet

LEMMA RedactAreaQuiet ==
  ASSUME TypeOK, NEW num, NEW visible, RedactArea(num, visible)
  PROVE  Quiet(doc')
<1>1. \/ Refuse("redact_area", <<num>>)
      \/ /\ InRange(num)
         /\ \E covered \in SUBSET doc.pages[num + 1].drawn :
              Finish("redact_area", <<num>>, [doc.pages EXCEPT ![num + 1].drawn = @ \ covered], {})
  BY DEF RedactArea
<1>2. CASE Refuse("redact_area", <<num>>)
  BY <1>2, NothingQuiet, Zenon DEF Refuse
<1>3. ASSUME InRange(num), NEW covered,
             Finish("redact_area", <<num>>, [doc.pages EXCEPT ![num + 1].drawn = @ \ covered], {})
      PROVE  Quiet(doc')
  <2> DEFINE n     == num + 1
             pages == [i \in DOMAIN doc.pages |->
                         IF i = n THEN [doc.pages[i] EXCEPT !.drawn = @ \ covered] ELSE doc.pages[i]]
  <2>1. doc.pages \in Seq(PageRecords) /\ \A i \in DOMAIN doc.pages : doc.pages[i] \in PageRecords
    BY PagesTyped
  <2>2. [doc.pages EXCEPT ![num + 1].drawn = @ \ covered] = pages
    <3>1. doc.pages = [i \in DOMAIN doc.pages |-> doc.pages[i]]
      BY <2>1
    <3> QED
      BY <1>3, <3>1 DEF InRange
  <2>3. \A i \in DOMAIN doc.pages : /\ pages[i] \in PageRecords /\ pages[i].annots = doc.pages[i].annots
                                    /\ pages[i].drawn \subseteq doc.pages[i].drawn
    BY <2>1 DEF PageRecords
  <2>4. DOMAIN pages = DOMAIN doc.pages
    OBVIOUS
  <2>5. Finish("redact_area", <<num>>, pages, {})
    BY <1>3, <2>2
  <2> HIDE DEF pages
  <2>6. \A i \in DOMAIN doc.pages : TextsOf(pages[i]) \subseteq TextsOf(doc.pages[i])
    BY <2>3 DEF TextsOf
  <2> QED
    BY <2>3, <2>4, <2>5, <2>6, FinishQuiet
<1> QED
  BY <1>1, <1>2, <1>3

(* A call that is given a text.                                                  *)
LEMMA Speaking ==
  ASSUME NEW op \in Makers \cup {"add_text", "add_annotation", "add_text_watermark", "add_headers_footers",
                                 "add_sticky_note", "add_text_comment", "add_link", "fill_form",
                                 "set_metadata", "add_attachment", "set_language", "sign"}
  PROVE  op \notin Textless
BY DEF Makers, Textless, Redactions

LEMMA EveryCalled ==
  ASSUME Next
  PROVE  \E op, given, ok : Called(op, given, ok)
<1>1. CASE Editing
  BY <1>1, Zenon DEF Editing, AddText, AddAnnotation, AddImage, AddShape, AddTextWatermark,
     AddImageWatermark, AddHeadersFooters, Edit, Call
<1>2. CASE Annotating
  BY <1>2, Zenon DEF Annotating, MarkArea, AddStickyNote, AddTextComment, AddLink, AddInternalLink,
     Annotate, Call
<1>3. CASE Flattening
  BY <1>3, Zenon DEF Flattening, FlattenForms, FlattenAnnotations, FlattenAll, Flatten, Call
<1>4. CASE FillingForms
  BY <1>4, Zenon DEF FillingForms, CreateForm, Create, FillForm, Call
<1>5. CASE Shrinking
  BY <1>5, Zenon DEF Shrinking, Compress, Optimize, Rewrite, Call
<1>6. CASE Creating
  BY <1>6, Zenon DEF Creating, FromText, FromHtml, FromImages, FromTemplate, Create
<1>7. CASE Describing
  BY <1>7, Zenon DEF Describing, SetMetadata, RemoveMetadata, AddAttachment, RemoveAttachments,
     SetLanguage, SetTitleDisplay, Call
<1>8. CASE Protecting
  BY <1>8, Zenon DEF Protecting, Encrypt, Decrypt, Sign, Call
<1>9. CASE Redacting
  BY <1>9, Zenon DEF Redacting, RedactText, SearchAndRedact, RedactArea, Finish, Refuse
<1> QED
  BY <1>1, <1>2, <1>3, <1>4, <1>5, <1>6, <1>7, <1>8, <1>9 DEF Next

LEMMA TextlessQuiet ==
  ASSUME TypeOK, Next
  PROVE  last'.op \in Textless => Quiet(doc')
<1>1. ASSUME NEW op \in Makers \cup
               {"add_text", "add_annotation", "add_text_watermark", "add_headers_footers",
                "add_sticky_note", "add_text_comment", "add_link", "fill_form",
                "set_metadata", "add_attachment", "set_language", "sign"}, last'.op = op
      PROVE  last'.op \notin Textless
  BY <1>1, Speaking
<1>2. CASE Editing
  <2>1. ASSUME NEW num \in PageNums, NEW term \in Terms, AddText(num, term)
        PROVE  last'.op \notin Textless
    BY <1>1, <2>1, AddTextStep DEF Usual
  <2>2. ASSUME NEW num \in PageNums, NEW term \in Terms, NEW type, AddAnnotation(num, term, type)
        PROVE  last'.op \notin Textless
    BY <1>1, <2>2, AddAnnotationStep DEF Usual
  <2>3. ASSUME NEW term \in Terms, AddTextWatermark(term) PROVE last'.op \notin Textless
    BY <1>1, <2>3, AddTextWatermarkStep DEF Usual
  <2>4. ASSUME NEW term \in Terms, NEW start \in 1 .. 2, AddHeadersFooters(term, start)
        PROVE  last'.op \notin Textless
    BY <1>1, <2>4, AddHeadersFootersStep DEF Usual
  <2> QED
    BY <1>2, <2>1, <2>2, <2>3, <2>4, AddImageQuiet, AddShapeQuiet, AddImageWatermarkQuiet DEF Editing
<1>3. CASE Annotating
  <2>1. ASSUME NEW num, NEW term, NEW icon, AddStickyNote(num, term, icon)
        PROVE  last'.op = "add_sticky_note"
    BY <2>1 DEF AddStickyNote, Annotate, Call, Called
  <2>2. ASSUME NEW num, NEW term, AddTextComment(num, term) PROVE last'.op = "add_text_comment"
    BY <2>2 DEF AddTextComment, Annotate, Call, Called
  <2>3. ASSUME NEW num, NEW url, AddLink(num, url) PROVE last'.op = "add_link"
    BY <2>3 DEF AddLink, Annotate, Call, Called
  <2> QED
    BY <1>1, <1>3, <2>1, <2>2, <2>3, MarkAreaQuiet, AddInternalLinkQuiet DEF Annotating
<1>4. CASE Flattening
  BY <1>4, FlattenQuiet DEF Flattening, FlattenForms, FlattenAnnotations, FlattenAll
<1>5. CASE FillingForms
  <2>1. PICK op \in {"create_form", "fill_form"} : Usual(op)
    BY <1>5, FillingFormsStep
  <2> QED
    BY <1>1, <2>1 DEF Usual, Makers
<1>6. CASE Shrinking
  BY <1>6, CompressQuiet, OptimizeQuiet, RewriteQuiet DEF Shrinking, Rewrite
<1>7. CASE Creating
  BY <1>1, <1>7, CreatingStep DEF Usual
<1>8. CASE Describing
  <2>1. ASSUME NEW title \in Terms \cup {None}, NEW custom \in Terms \cup {None},
               SetMetadata(title, custom)
        PROVE  last'.op \notin Textless
    BY <1>1, <2>1, SetMetadataStep DEF Usual
  <2>2. ASSUME NEW name \in Names, NEW exists \in BOOLEAN, AddAttachment(name, exists)
        PROVE  last'.op \notin Textless
    BY <1>1, <2>2, AddAttachmentStep DEF Usual
  <2>3. ASSUME NEW tag \in Terms \cup {None}, SetLanguage(tag) PROVE last'.op \notin Textless
    BY <1>1, <2>3, SetLanguageStep DEF Usual
  <2>4. RemoveAttachments => Quiet(doc')
    BY RewriteQuiet DEF RemoveAttachments
  <2> QED
    BY <1>8, <2>1, <2>2, <2>3, <2>4, RemoveMetadataQuiet, SetTitleDisplayQuiet DEF Describing
<1>9. CASE Protecting
  <2>1. ASSUME NEW signer \in Terms, NEW keys \in BOOLEAN, Sign(signer, keys)
        PROVE  last'.op \notin Textless
    BY <1>1, <2>1, SignStep
  <2> QED
    BY <1>9, <2>1, EncryptQuiet, DecryptQuiet DEF Protecting
<1>10. CASE Redacting
  BY <1>10, RedactTextQuiet, SearchAndRedactQuiet, RedactAreaQuiet DEF Redacting
<1> QED
  BY <1>2, <1>3, <1>4, <1>5, <1>6, <1>7, <1>8, <1>9, <1>10 DEF Next

-----------------------------------------------------------------------------
(* What a redaction that returned has removed is not stored in what it wrote.    *)
LEMMA Verifies ==
  ASSUME TypeOK, Next, last'.ok, last'.op \in Redactions
  PROVE  last'.given[1] \subseteq Terms /\ last'.given[1] \cap Stored(doc') = {}
<1>1. ~ \E op : Usual(op) /\ op \notin Redactions
  BY DEF Usual
<1>2. ~ \E signer \in Terms, keys \in BOOLEAN : Sign(signer, keys)
  BY SignStep DEF Redactions
<1>3. Redacting
  BY <1>1, <1>2, EveryCall
<1>4. PICK op, given, terms :
        Checked(op, given, terms) /\ (op \in Redactions => given[1] = terms /\ terms \subseteq Terms)
  BY <1>3, EveryRedaction
<1>5. last'.given[1] = terms /\ terms \subseteq Terms /\ VerifyRedaction(doc', terms)
  BY <1>4 DEF Checked
<1>6. terms \cap Stored(doc') = {}
  BY <1>5, Zenon DEF VerifyRedaction, Stored
<1> QED
  BY <1>5, <1>6

LEMMA StaysRemoved ==
  ASSUME TypeOK, Removed, Next
  PROVE  Removed'
<1>1. PICK op, given, ok : Called(op, given, ok)
  BY EveryCalled
<1>2. /\ last'.op = op /\ last'.given = given /\ last'.ok = ok
      /\ gone' = (IF op \in Textless THEN gone ELSE {})
                   \cup IF ok /\ op \in Redactions THEN given[1] \ {Tool} ELSE {}
  BY <1>1 DEF Called
<1>3. Redactions \subseteq Textless
  BY DEF Textless
<1>4. ASSUME NEW text \in gone, op \in Textless PROVE text \notin Stored(doc')
  <2>1. text \in Terms /\ text # Tool /\ text \notin Stored(doc)
    BY DEF Removed
  <2>2. text # None
    BY <2>1, NoneAssumption
  <2>3. Quiet(doc')
    BY <1>2, <1>4, TextlessQuiet
  <2> QED
    BY <2>1, <2>2, <2>3 DEF Quiet
<1>5. ASSUME ok, op \in Redactions
      PROVE  given[1] \subseteq Terms /\ given[1] \cap Stored(doc') = {}
  BY <1>2, <1>5, Verifies
<1>6. gone \subseteq Terms \ {Tool}
  BY DEF Removed
<1>7. gone' \subseteq Terms \ {Tool}
  BY <1>2, <1>5, <1>6
<1>8. gone' \cap Stored(doc') = {}
  BY <1>2, <1>4, <1>5
<1>9. Stored(doc)' = Stored(doc')
  BY DEF Stored, InfoTexts, PageTexts, RawTexts, ExtractText, AnnotsOf
<1> QED
  BY <1>7, <1>8, <1>9 DEF Removed

(* What the reading functions tell is stored in the file.                        *)
LEMMA ToldIsStored ==
  ASSUME NEW d, NEW text, Tells(d, text)
  PROVE  text \in Stored(d)
<1>1. ASSUME NEW a \in AnnotsOf(d.pages), a.says = text PROVE text \in Stored(d)
  BY <1>1 DEF Stored, RawTexts
<1>2. CASE SearchText(d, text) # {}
  BY <1>2 DEF SearchText, Stored, PageTexts
<1>3. CASE text \in {GetMetadata(d).title, GetMetadata(d).producer} \cup GetMetadata(d).custom
  BY <1>3 DEF GetMetadata, Stored, InfoTexts, Keys
<1>4. ASSUME NEW link \in ExtractLinks(d), link.url = text PROVE text \in Stored(d)
  <2>1. PICK i \in DOMAIN d.pages : \E a \in ToSet(d.pages[i].annots) : link.url = a.says
    BY DEF ExtractLinks
  <2>2. PICK a \in ToSet(d.pages[i].annots) : link.url = a.says
    BY <2>1
  <2>3. a \in AnnotsOf(d.pages)
    BY <2>2 DEF AnnotsOf
  <2> QED
    BY <1>1, <1>4, <2>2, <2>3
<1>5. ASSUME NEW f \in ListFormFields(d), f.value = text PROVE text \in Stored(d)
  <2>1. PICK g \in FormFields(d) : g.value = text
    BY <1>5 DEF ListFormFields
  <2>2. CASE d.catalog.apart # {}
    BY <2>1, <2>2 DEF FormFields, Stored, RawTexts
  <2>3. CASE d.catalog.apart = {}
    <3>1. PICK a \in FormWidgets(d) : g = FieldOf(a)
      BY <2>1, <2>3 DEF FormFields
    <3>2. a \in AnnotsOf(d.pages) /\ a.says = text
      BY <2>1, <3>1 DEF FormWidgets, FieldOf
    <3> QED
      BY <1>1, <3>2
  <2> QED
    BY <2>2, <2>3
<1>6. CASE text \in {GetLanguage(d), d.catalog.outline}
  BY <1>6 DEF GetLanguage, Stored, RawTexts
<1> QED
  BY <1>1, <1>2, <1>3, <1>4, <1>5, <1>6 DEF Tells

Core == TypeOK /\ Sealed /\ Removed

LEMMA Starts ==
  Init => Core
<1> SUFFICES ASSUME Init PROVE Core
  OBVIOUS
<1>1. TypeOK
  BY InitialAssumption, SizesAssumption DEF Init, TypeOK
<1>2. Sealed
  BY DEF Init, Sealed, Signed
<1>3. Removed
  BY DEF Init, Removed
<1> QED
  BY <1>1, <1>2, <1>3 DEF Core

LEMMA Carries ==
  ASSUME Core, [Next]_vars
  PROVE  Core'
<1>0. TypeOK /\ Sealed /\ Removed
  BY DEF Core
<1>1. CASE UNCHANGED vars
  BY <1>0, <1>1 DEF Core, TypeOK, Sealed, Signed, Drawings, Removed, Stored, PageTexts, InfoTexts,
                    RawTexts, ExtractText, AnnotsOf, vars
<1>2. ASSUME NEW op, Usual(op)
      PROVE  TypeOK' /\ Sealed'
  <2>1. doc' \in DocumentRecords /\ SameSignature(doc')
    BY <1>2 DEF Usual, Right
  <2>2. TypeOK'
    BY <1>2, <2>1 DEF Usual, TypeOK
  <2>3. Sealed'
    BY <1>0, <1>2, <2>1 DEF Usual, SameSignature, Sealed, Signed, Drawings
  <2> QED
    BY <2>2, <2>3
<1>3. ASSUME NEW signer \in Terms, NEW keys \in BOOLEAN, Sign(signer, keys)
      PROVE  TypeOK' /\ Sealed'
  <2>1. /\ TypeOK'
        /\ (doc' = doc /\ sealed' = sealed) \/ sealed' = Drawings(doc'.pages)
    BY <1>0, <1>3, SignStep
  <2>2. Sealed'
    BY <1>0, <2>1 DEF Sealed, Signed, Drawings
  <2> QED
    BY <2>1, <2>2
<1>4. ASSUME Redacting
      PROVE  TypeOK' /\ Sealed'
  <2>1. PICK op, given, terms : Checked(op, given, terms)
    BY <1>0, <1>4, EveryRedaction
  <2>2. /\ TypeOK'
        /\ (doc' = doc /\ sealed' = sealed) \/ ~ Signed(doc')
    BY <2>1 DEF Checked
  <2>3. Sealed'
    BY <1>0, <2>2 DEF Sealed, Signed, Drawings
  <2> QED
    BY <2>2, <2>3
<1>5. CASE Next
  <2>1. TypeOK' /\ Sealed'
    BY <1>0, <1>2, <1>3, <1>4, <1>5, EveryCall
  <2>2. Removed'
    BY <1>0, <1>5, StaysRemoved
  <2> QED
    BY <2>1, <2>2 DEF Core
<1> QED
  BY <1>1, <1>5

LEMMA Always ==
  Spec => []Core
BY Starts, Carries, PTL DEF Spec

LEMMA StaysWhole ==
  ASSUME TypeOK, Whole(doc), [Next]_vars
  PROVE  Whole(doc)'
<1>1. CASE UNCHANGED vars
  BY <1>1 DEF vars
<1>2. ASSUME NEW op, Usual(op) PROVE Coheres(doc')
  BY <1>2 DEF Usual, Right
<1>3. ASSUME NEW signer \in Terms, NEW keys \in BOOLEAN, Sign(signer, keys) PROVE Coheres(doc')
  BY <1>3, SignStep
<1>4. Redacting => Coheres(doc')
  BY EveryRedaction DEF Checked
<1>5. CASE Next
  BY <1>2, <1>3, <1>4, <1>5, EveryCall DEF Coheres
<1> QED
  BY <1>1, <1>5

(* Whatever is written is a document that is whole, if those that came from       *)
(* elsewhere were, and while a file is signed, locked or not, its pages show      *)
(* what they showed when sign (signer.py) wrote it.                               *)
THEOREM Invariance == Spec => []IInv
<1>1. Init => Whole(doc)
  BY InitialWhole DEF Init
<1>2. TypeOK /\ Whole(doc) /\ [Next]_vars => Whole(doc)'
  BY StaysWhole
<1>3. Core => TypeOK /\ Sealed /\ Removed
  BY DEF Core
<1> QED
  BY <1>1, <1>2, <1>3, Always, PTL DEF Spec, IInv

(* While verify tells that a file is signed, what its pages show is what sign     *)
(* left: everything that draws on a page drops the signature with the metadata.   *)
THEOREM SignatureCovers == Spec => []SignatureCoversDrawing
<1>1. Core => SignatureCoversDrawing
  BY DEF Core, Sealed, SignatureCoversDrawing
<1> QED
  BY <1>1, Always, PTL

(* What redact_text and search_and_redact (redaction.py) have removed and         *)
(* verified no reading function tells any more, of what they return or of what    *)
(* any later calls make of it, as long as none of them is given a text.           *)
THEOREM RedactionHolds == Spec => []RedactedGone
<1>1. Core => RedactedGone
  <2>1. ASSUME Core, NEW text \in gone PROVE ~ Tells(doc, text)
    <3>1. text \notin Stored(doc)
      BY <2>1 DEF Core, Removed
    <3> QED
      BY <3>1, ToldIsStored
  <2> QED
    BY <2>1 DEF RedactedGone
<1> QED
  BY <1>1, Always, PTL

LEMMA FillsForms ==
  ASSUME TypeOK, Next, last'.op = "fill_form"
  PROVE  Filling
<1>1. ASSUME NEW op, Usual(op), op \notin Redactions \cup {"fill_form"} PROVE FALSE
  BY <1>1 DEF Usual
<1>2. ASSUME NEW signer \in Terms, NEW keys \in BOOLEAN, Sign(signer, keys) PROVE FALSE
  BY <1>2, SignStep
<1>3. ~ Redacting
  BY EveryRedaction DEF Checked, Lossy
<1> QED
  BY <1>1, <1>2, <1>3, EachCall

(* Filling changes what is said by the widgets of the fields that are given.      *)
LEMMA FillFormKeeps ==
  ASSUME TypeOK, NEW data \in Fills, FillForm(data)
  PROVE  /\ last'.given = data
         /\ \A i \in DOMAIN doc.pages : \A k \in DOMAIN doc.pages[i].annots :
              \/ Content(doc'.pages[i].annots[k]) = Content(doc.pages[i].annots[k])
              \/ doc.pages[i].annots[k].field \in DOMAIN data
<1>1. PICK written \in BOOLEAN :
        Call("fill_form", data, doc.catalog.form # {} /\ written, LAMBDA pages :
          Written([pages EXCEPT ![1].annots = [k \in DOMAIN @ |-> Filled(@[k], data)]],
                  Fresh, [Bare EXCEPT !.form = doc.catalog.form, !.apart = FormFields(doc)]))
  BY DEF FillForm
<1>a. PICK pages \in Copies(doc.pages), ok \in BOOLEAN :
        /\ last'.given = data
        /\ doc' = IF ok THEN Written([pages EXCEPT ![1].annots = [k \in DOMAIN @ |-> Filled(@[k], data)]],
                                     Fresh, [Bare EXCEPT !.form = doc.catalog.form, !.apart = FormFields(doc)])
                  ELSE doc
  BY <1>1 DEF Call, Called
<1>2. \/ doc' = doc
      \/ doc'.pages = [pages EXCEPT ![1].annots = [k \in DOMAIN @ |-> Filled(@[k], data)]]
  BY <1>a DEF Written
<1>3. /\ pages \in Seq(PageRecords) /\ DOMAIN pages = DOMAIN doc.pages
      /\ \A i \in DOMAIN doc.pages : Same(doc.pages[i], pages[i]) /\ pages[i] \in PageRecords
  BY CopiesSame DEF Same
<1>4. ASSUME NEW i \in DOMAIN doc.pages, NEW k \in DOMAIN doc.pages[i].annots,
             doc'.pages = [pages EXCEPT ![1].annots = [m \in DOMAIN @ |-> Filled(@[m], data)]]
      PROVE  \/ Content(doc'.pages[i].annots[k]) = Content(doc.pages[i].annots[k])
             \/ doc.pages[i].annots[k].field \in DOMAIN data
  <2>1. /\ k \in DOMAIN pages[i].annots
        /\ Content(pages[i].annots[k]) = Content(doc.pages[i].annots[k])
        /\ pages[i].annots[k].field = doc.pages[i].annots[k].field
    BY <1>3 DEF Same, Content
  <2>2. doc'.pages[i].annots[k] \in {pages[i].annots[k], Filled(pages[i].annots[k], data)}
    <3>1. CASE i = 1
      <4>1. doc'.pages[1] = [pages[1] EXCEPT !.annots = [m \in DOMAIN @ |-> Filled(@[m], data)]]
        BY <1>3, <1>4, <3>1
      <4>2. doc'.pages[1].annots = [m \in DOMAIN pages[1].annots |-> Filled(pages[1].annots[m], data)]
        BY <1>3, <3>1, <4>1 DEF PageRecords
      <4> QED
        BY <2>1, <3>1, <4>2
    <3>2. CASE i # 1
      BY <1>3, <1>4, <3>2
    <3> QED
      BY <3>1, <3>2
  <2>3. pages[i].annots[k].field \notin DOMAIN data => Filled(pages[i].annots[k], data) = pages[i].annots[k]
    BY DEF Filled
  <2> QED
    BY <2>1, <2>2, <2>3
<1> QED
  BY <1>a, <1>2, <1>4

LEMMA SurvivesCall ==
  ASSUME TypeOK, [Next]_vars
  PROVE  [last'.op \notin Makers =>
           /\ DOMAIN doc'.pages = DOMAIN doc.pages
           /\ last'.op \notin Lossy =>
                \A i \in DOMAIN doc.pages : PageKept(doc.pages[i], doc'.pages[i])]_vars
<1> DEFINE Kind == last'.op \notin Flats \cup {"fill_form"}
<1>1. ASSUME Next, AllHold(doc.pages, doc'.pages, Kind)
      PROVE  /\ DOMAIN doc'.pages = DOMAIN doc.pages
             /\ \A i \in DOMAIN doc.pages : PageKept(doc.pages[i], doc'.pages[i])
  <2>1. CASE last'.op = "fill_form"
    <3>1. \A i \in DOMAIN doc.pages : \A k \in DOMAIN doc.pages[i].annots :
            \/ Content(doc'.pages[i].annots[k]) = Content(doc.pages[i].annots[k])
            \/ doc.pages[i].annots[k].field \in DOMAIN last'.given
      BY <1>1, <2>1, FillsForms, FillFormKeeps DEF Filling
    <3> QED
      BY <1>1, <2>1, <3>1 DEF AllHold, Holds, PageKept
  <2>2. CASE last'.op # "fill_form"
    BY <1>1, <2>2 DEF AllHold, Holds, PageKept
  <2> QED
    BY <2>1, <2>2
<1>2. ASSUME Next, NEW op, Usual(op), last'.op \notin Makers
      PROVE  /\ DOMAIN doc'.pages = DOMAIN doc.pages
             /\ last'.op \notin Lossy =>
                  \A i \in DOMAIN doc.pages : PageKept(doc.pages[i], doc'.pages[i])
  <2>1. last'.op = op /\ Right(op, doc')
    BY <1>2 DEF Usual
  <2>2. /\ DOMAIN doc'.pages = DOMAIN doc.pages
        /\ op \notin Lossy => AllHold(doc.pages, doc'.pages, Kind)
    BY <1>2, <2>1 DEF Right
  <2> HIDE DEF Kind
  <2> QED
    BY <1>1, <1>2, <2>1, <2>2
<1>3. ASSUME Next, NEW signer \in Terms, NEW keys \in BOOLEAN, Sign(signer, keys)
      PROVE  /\ DOMAIN doc'.pages = DOMAIN doc.pages
             /\ \A i \in DOMAIN doc.pages : PageKept(doc.pages[i], doc'.pages[i])
  <2>1. AllHold(doc.pages, doc'.pages, TRUE) /\ last'.op = "sign"
    BY <1>3, SignStep
  <2>2. AllHold(doc.pages, doc'.pages, Kind)
    BY <2>1 DEF AllHold, Holds
  <2> QED
    BY <1>1, <1>3, <2>1, <2>2
<1>4. ASSUME Redacting
      PROVE  DOMAIN doc'.pages = DOMAIN doc.pages /\ last'.op \in Lossy
  BY <1>4, EveryRedaction DEF Checked
<1> HIDE DEF Kind
<1> QED
  BY <1>2, <1>3, <1>4, EveryCall

(* No call loses, adds or reorders pages, nor takes away what is drawn on one,    *)
(* its images or its annotations, but those whose purpose it is, and fill_form    *)
(* changes no annotation but the widgets of the fields it is given.               *)
THEOREM PagesKept == Spec => PagesSurvive
<1>1. TypeOK /\ [Next]_vars =>
        [last'.op \notin Makers =>
           /\ DOMAIN doc'.pages = DOMAIN doc.pages
           /\ last'.op \notin Lossy =>
                \A i \in DOMAIN doc.pages : PageKept(doc.pages[i], doc'.pages[i])]_vars
  BY SurvivesCall
<1>2. Core => TypeOK
  BY DEF Core
<1> QED
  BY <1>1, <1>2, Always, PTL DEF Spec, PagesSurvive

-----------------------------------------------------------------------------
(* What the reading functions tell of any document.                              *)

(* The function Total is defined by.                                              *)
Totals(f, counts) ==
  f = [n \in 0 .. Len(counts) |-> IF n = 0 THEN 0 ELSE f[n - 1] + counts[n]]

LEMMA TotalExists ==
  ASSUME NEW counts \in Seq(Nat)
  PROVE  \E f : Totals(f, counts)
<1> DEFINE n == Len(counts)
           Next1(g, k) == IF k = 0 THEN 0 ELSE g[k - 1] + counts[k]
           S == {m \in Nat : \E g : DOMAIN g = 0 .. m /\ \A k \in 0 .. m : g[k] = Next1(g, k)}
<1>0. n \in Nat
  OBVIOUS
<1>1. 0 \in S
  <2> DEFINE g == [k \in 0 .. 0 |-> 0]
  <2>1. DOMAIN g = 0 .. 0 /\ \A k \in 0 .. 0 : g[k] = Next1(g, k)
    OBVIOUS
  <2> QED
    BY <2>1
<1>2. ASSUME NEW m \in 0 .. n - 1, m \in S PROVE m + 1 \in S
  <2>1. PICK g : DOMAIN g = 0 .. m /\ \A k \in 0 .. m : g[k] = Next1(g, k)
    BY <1>2
  <2> DEFINE h == [k \in 0 .. m + 1 |-> IF k = m + 1 THEN Next1(g, m + 1) ELSE g[k]]
  <2>2. \A k \in 0 .. m + 1 : h[k] = IF k = m + 1 THEN Next1(g, m + 1) ELSE g[k]
    OBVIOUS
  <2>3. DOMAIN h = 0 .. m + 1
    OBVIOUS
  <2> HIDE DEF h
  <2>4. \A k \in 1 .. m + 1 : h[k - 1] = g[k - 1]
    BY <1>0, <2>2
  <2>5. ASSUME NEW k \in 0 .. m + 1 PROVE h[k] = Next1(h, k)
    <3>1. CASE k = 0
      <4>1. h[0] = g[0] /\ g[0] = 0
        BY <1>0, <2>1, <2>2
      <4> QED
        BY <3>1, <4>1
    <3>2. CASE k \in 1 .. m
      <4>1. h[k] = g[k] /\ g[k] = Next1(g, k) /\ h[k - 1] = g[k - 1] /\ k # 0
        BY <1>0, <2>1, <2>2, <2>4, <3>2
      <4> QED
        BY <4>1
    <3>3. CASE k = m + 1
      <4>1. h[k] = Next1(g, k) /\ h[k - 1] = g[k - 1] /\ k # 0
        BY <1>0, <2>2, <2>4, <3>3
      <4> QED
        BY <4>1
    <3> QED
      BY <1>0, <3>1, <3>2, <3>3
  <2>6. m + 1 \in Nat
    BY <1>0
  <2> QED
    BY <2>3, <2>5, <2>6
<1> HIDE DEF S
<1>3. n \in S
  <2>1. 0 .. n \subseteq S
    BY <1>0, <1>1, <1>2, UpTo
  <2> QED
    BY <1>0, <2>1
<1>4. PICK g : DOMAIN g = 0 .. n /\ \A k \in 0 .. n : g[k] = Next1(g, k)
  BY <1>3 DEF S
<1> DEFINE f == [k \in 0 .. n |-> g[k]]
<1>5. \A k \in 0 .. n : f[k] = Next1(f, k)
  <2>1. \A k \in 0 .. n : k = 0 \/ k - 1 \in 0 .. n
    BY <1>0
  <2> QED
    BY <1>4, <2>1
<1>6. Totals(f, counts)
  BY <1>5 DEF Totals
<1> QED
  BY <1>6

(* A total is a number; it is 0 only if every count is; the total of none is 0,   *)
(* and of one is that one.                                                        *)
LEMMA TotalIs ==
  ASSUME NEW counts \in Seq(Nat)
  PROVE  /\ Total(counts) \in Nat
         /\ Total(counts) = 0 <=> \A k \in DOMAIN counts : counts[k] = 0
         /\ Len(counts) = 0 => Total(counts) = 0
         /\ Len(counts) = 1 => Total(counts) = counts[1]
<1> DEFINE n == Len(counts)
           f == CHOOSE f : Totals(f, counts)
           S == {k \in 0 .. n : f[k] \in Nat /\ (f[k] = 0 <=> \A j \in 1 .. k : counts[j] = 0)}
<1>1. Totals(f, counts)
  BY TotalExists
<1>2. Total(counts) = f[n]
  BY Zenon DEF Total, Totals
<1> HIDE DEF f
<1>3. n \in Nat /\ DOMAIN counts = 1 .. n /\ \A k \in 1 .. n : counts[k] \in Nat
  OBVIOUS
<1>4. \A k \in 0 .. n : f[k] = IF k = 0 THEN 0 ELSE f[k - 1] + counts[k]
  BY <1>1 DEF Totals
<1>5. f[0] = 0
  BY <1>3, <1>4
<1>6. 0 \in S
  BY <1>3, <1>5
<1>7. ASSUME NEW k \in 0 .. n - 1, k \in S PROVE k + 1 \in S
  <2>1. k + 1 \in 1 .. n /\ (k + 1) - 1 = k /\ k + 1 # 0 /\ k + 1 \in 0 .. n
    BY <1>3
  <2>2. f[k + 1] = f[k] + counts[k + 1] /\ counts[k + 1] \in Nat
    BY <1>3, <1>4, <2>1
  <2>3. f[k] \in Nat /\ (f[k] = 0 <=> \A j \in 1 .. k : counts[j] = 0)
    BY <1>7
  <2>4. \A j \in 1 .. k + 1 : j \in 1 .. k \/ j = k + 1
    BY <2>1
  <2>5. 1 .. k \subseteq 1 .. k + 1 /\ k + 1 \in 1 .. k + 1
    BY <2>1
  <2>6. f[k + 1] = 0 <=> f[k] = 0 /\ counts[k + 1] = 0
    BY <2>2, <2>3
  <2>7. f[k + 1] = 0 <=> \A j \in 1 .. k + 1 : counts[j] = 0
    BY <2>3, <2>4, <2>5, <2>6
  <2> QED
    BY <2>1, <2>2, <2>3, <2>7
<1> HIDE DEF S
<1>8. n \in S
  <2>1. 0 .. n \subseteq S
    BY <1>3, <1>6, <1>7, UpTo
  <2> QED
    BY <1>3, <2>1
<1>9. Total(counts) \in Nat /\ (Total(counts) = 0 <=> \A k \in DOMAIN counts : counts[k] = 0)
  BY <1>2, <1>3, <1>8 DEF S
<1>10. n = 1 => f[1] = f[0] + counts[1]
  BY <1>3, <1>4
<1>11. n = 1 => Total(counts) = counts[1]
  BY <1>2, <1>3, <1>5, <1>10
<1> QED
  BY <1>2, <1>5, <1>9, <1>11

LEMMA CountsTyped ==
  ASSUME NEW d \in DocumentRecords
  PROVE  /\ CountImages(d) \in Seq(Nat) /\ DOMAIN CountImages(d) = DOMAIN d.pages
         /\ DOMAIN d.pages = 1 .. Len(d.pages) /\ Len(d.pages) \in Nat
         /\ \A i \in DOMAIN d.pages :
              /\ CountImages(d)[i] \in Nat
              /\ CountImages(d)[i] = 0 <=> d.pages[i].images = <<>>
<1>1. d.pages \in Seq(PageRecords)
  BY DEF DocumentRecords
<1>2. /\ DOMAIN d.pages = 1 .. Len(d.pages) /\ Len(d.pages) \in Nat
      /\ \A i \in DOMAIN d.pages : d.pages[i] \in PageRecords
  BY <1>1
<1>3. \A i \in DOMAIN d.pages : d.pages[i].images \in Seq(Images)
  BY <1>2 DEF PageRecords
<1>4. \A i \in DOMAIN d.pages : /\ Len(d.pages[i].images) \in Nat
                                /\ Len(d.pages[i].images) = 0 <=> d.pages[i].images = <<>>
  BY <1>3
<1>5. /\ DOMAIN CountImages(d) = DOMAIN d.pages
      /\ \A i \in DOMAIN d.pages : CountImages(d)[i] = Len(d.pages[i].images)
  BY DEF CountImages
<1>6. CountImages(d) \in [1 .. Len(d.pages) -> Nat]
  BY <1>2, <1>4 DEF CountImages
<1> QED
  BY <1>2, <1>4, <1>5, <1>6

(* The report of the compressor and the information of a file agree on whether it *)
(* has pictures.                                                                  *)
LEMMA PicturesAgree ==
  ASSUME NEW d \in DocumentRecords
  PROVE  Report(d).image_count = 0 <=> ~ PdfInfo(d).has_images
<1>1. Report(d).image_count = Total(CountImages(d))
  BY DEF Report
<1>2. PdfInfo(d).has_images <=> \E i \in DOMAIN d.pages : d.pages[i].images # <<>>
  BY DEF PdfInfo
<1> QED
  BY <1>1, <1>2, CountsTyped, TotalIs

(* Two pages are extracted: their files are as many as their images.              *)
LEMMA ExtractsAll ==
  ASSUME NEW d \in DocumentRecords, NEW i \in DOMAIN d.pages, NEW j \in DOMAIN d.pages
  PROVE  Cardinality(ExtractImages(d, <<i, j>>).files) = CountImages(d)[i] + CountImages(d)[j]
<1> DEFINE c == CountImages(d)
           nums == <<i, j>>
           before(k) == Total([m \in 1 .. k - 1 |-> c[nums[m]]])
           files == UNION {{<<nums[k], before(k) + x>> : x \in 1 .. c[nums[k]]} : k \in DOMAIN nums}
           a == c[i]
           b == c[j]
<1>1. a \in Nat /\ b \in Nat
  BY CountsTyped
<1>2. ExtractImages(d, nums).files = files
  BY Zenon DEF ExtractImages
<1>3. DOMAIN nums = {1, 2} /\ nums[1] = i /\ nums[2] = j
  OBVIOUS
<1>4. before(1) = 0
  <2> DEFINE s == [m \in 1 .. 1 - 1 |-> c[nums[m]]]
  <2>1. s \in Seq(Nat) /\ Len(s) = 0
    OBVIOUS
  <2> HIDE DEF s
  <2>2. Total(s) = 0
    BY <2>1, TotalIs
  <2> QED
    BY <2>2 DEF s
<1>5. before(2) = a
  <2> DEFINE s == [m \in 1 .. 2 - 1 |-> c[nums[m]]]
  <2>1. s = <<a>>
    BY <1>1, <1>3
  <2> HIDE DEF s, a
  <2>2. s \in Seq(Nat) /\ Len(s) = 1 /\ s[1] = a
    BY <1>1, <2>1
  <2>3. Total(s) = a
    BY <2>2, TotalIs
  <2> QED
    BY <2>3 DEF s, a
<1>6. files = {<<i, x>> : x \in 1 .. a} \cup {<<j, a + x>> : x \in 1 .. b}
  <2>1. files = {<<nums[1], before(1) + x>> : x \in 1 .. c[nums[1]]}
                  \cup {<<nums[2], before(2) + x>> : x \in 1 .. c[nums[2]]}
    <3> DEFINE F(k) == {<<nums[k], before(k) + x>> : x \in 1 .. c[nums[k]]}
    <3> HIDE DEF F
    <3>1. UNION {F(k) : k \in DOMAIN nums} = F(1) \cup F(2)
      BY <1>3
    <3> QED
      BY <3>1 DEF F
  <2> HIDE DEF c, nums, before, files
  <2>2. {<<nums[1], before(1) + x>> : x \in 1 .. c[nums[1]]} = {<<i, x>> : x \in 1 .. a}
    <3>1. \A x \in 1 .. a : 0 + x = x
      BY <1>1
    <3> QED
      BY <1>3, <1>4, <3>1 DEF c
  <2>3. {<<nums[2], before(2) + x>> : x \in 1 .. c[nums[2]]} = {<<j, a + x>> : x \in 1 .. b}
    BY <1>3, <1>5 DEF c
  <2> QED
    BY <2>1, <2>2, <2>3
<1> HIDE DEF c, nums, before, files, a, b
<1> DEFINE g == [x \in 1 .. a + b |-> IF x <= a THEN <<i, x>> ELSE <<j, x>>]
<1>7. g \in Bijection(1 .. a + b, files)
  <2>1. \A x \in 1 .. a + b : g[x][2] = x
    OBVIOUS
  <2>2. \A x \in 1 .. a + b : g[x] \in files
    <3>1. ASSUME NEW x \in 1 .. a + b PROVE g[x] \in files
      <4>1. CASE x <= a
        <5>1. x \in 1 .. a
          BY <1>1, <4>1
        <5> QED
          BY <1>6, <4>1, <5>1
      <4>2. CASE ~ (x <= a)
        <5>1. x - a \in 1 .. b /\ a + (x - a) = x
          BY <1>1, <4>2
        <5>2. <<j, a + (x - a)>> \in files
          BY <1>6, <5>1
        <5> QED
          BY <4>2, <5>1, <5>2
      <4> QED
        BY <4>1, <4>2
    <3> QED
      BY <3>1
  <2>3. ASSUME NEW file \in files PROVE \E x \in 1 .. a + b : g[x] = file
    <3>1. ASSUME NEW x \in 1 .. a, file = <<i, x>> PROVE \E y \in 1 .. a + b : g[y] = file
      <4>1. x \in 1 .. a + b /\ x <= a
        BY <1>1
      <4>2. g[x] = file
        BY <3>1, <4>1
      <4> QED
        BY <4>1, <4>2
    <3>2. ASSUME NEW x \in 1 .. b, file = <<j, a + x>> PROVE \E y \in 1 .. a + b : g[y] = file
      <4>1. a + x \in 1 .. a + b /\ ~ (a + x <= a)
        BY <1>1
      <4>2. g[a + x] = file
        BY <3>2, <4>1
      <4> QED
        BY <4>1, <4>2
    <3> QED
      BY <1>6, <3>1, <3>2
  <2>4. g \in [1 .. a + b -> files]
    BY <2>2
  <2> HIDE DEF g
  <2>5. g \in Injection(1 .. a + b, files)
    BY <2>1, <2>4 DEF Injection, IsInjective
  <2>6. g \in Surjection(1 .. a + b, files)
    BY <2>3, <2>4 DEF Surjection
  <2> QED
    BY <2>5, <2>6 DEF Bijection
<1> HIDE DEF g
<1>8. ExistsBijection(1 .. a + b, files)
  BY <1>7 DEF ExistsBijection
<1>9. IsFiniteSet(1 .. a + b) /\ Cardinality(1 .. a + b) = a + b
  <2>1. 1 \in Int /\ a + b \in Int /\ a + b >= 0
    BY <1>1
  <2>2. /\ IsFiniteSet(1 .. a + b)
        /\ Cardinality(1 .. a + b) = IF 1 > a + b THEN 0 ELSE (a + b) - 1 + 1
    BY <2>1, FS_Interval
  <2> QED
    BY <1>1, <2>1, <2>2
<1>10. Cardinality(files) = a + b
  BY <1>8, <1>9, FS_Bijection
<1> QED
  BY <1>2, <1>10 DEF a, b, c, nums

(* Four of the five checks passed make the score good, and leave one at most.     *)
Checks == {"language", "title", "displayed", "tagged", "bookmarks"}

LEMMA ScoreAgrees ==
  ASSUME NEW d
  PROVE  /\ Issues(d) = {} => Score(d) = "good"
         /\ Score(d) = "good" => Cardinality(Issues(d)) <= 1
<1> DEFINE passed == Passed(d)
           n == Cardinality(passed)
<1>1. IsFiniteSet(Checks) /\ Cardinality(Checks) = 5
  <2>1. IsFiniteSet({"language", "title"}) /\ Cardinality({"language", "title"}) = 2
    <3>1. {"language"} \cup {"title"} = {"language", "title"} /\ "title" \notin {"language"}
      OBVIOUS
    <3>2. IsFiniteSet({"language"}) /\ Cardinality({"language"}) = 1
      BY FS_Singleton
    <3>3. /\ IsFiniteSet({"language"} \cup {"title"})
          /\ Cardinality({"language"} \cup {"title"}) = Cardinality({"language"}) + 1
      BY <3>1, <3>2, FS_AddElement
    <3> QED
      BY <3>1, <3>2, <3>3
  <2>2. IsFiniteSet({"language", "title", "displayed"}) /\ Cardinality({"language", "title", "displayed"}) = 3
    <3>1. {"language", "title"} \cup {"displayed"} = {"language", "title", "displayed"}
      OBVIOUS
    <3> QED
      BY <2>1, <3>1, FS_AddElement
  <2>3. /\ IsFiniteSet({"language", "title", "displayed", "tagged"})
        /\ Cardinality({"language", "title", "displayed", "tagged"}) = 4
    <3>1. {"language", "title", "displayed"} \cup {"tagged"} = {"language", "title", "displayed", "tagged"}
      OBVIOUS
    <3> QED
      BY <2>2, <3>1, FS_AddElement
  <2>4. {"language", "title", "displayed", "tagged"} \cup {"bookmarks"} = Checks
    BY DEF Checks
  <2> QED
    BY <2>3, <2>4, FS_AddElement DEF Checks
<1>2. passed \subseteq Checks
  BY DEF Passed, Checks
<1>3. IsFiniteSet(passed) /\ n \in Nat
  BY <1>1, <1>2, FS_Subset, FS_CardinalityType
<1>4. Score(d) = "good" <=> n >= 4
  <2> HIDE DEF n
  <2>1. Score(d) = IF n >= 4 THEN "good" ELSE IF n >= 2 THEN "fair" ELSE "poor"
    BY Zenon DEF Score, n
  <2> QED
    BY <2>1
<1>5. Issues(d) \subseteq Checks \ passed
  BY DEF Issues, Checks
<1> HIDE DEF passed
<1>6. IsFiniteSet(Checks \ passed) /\ Cardinality(Checks \ passed) = 5 - n
  <2>1. IsFiniteSet(Checks \ passed) /\ Cardinality(Checks \ passed) \in Nat
    BY <1>1, FS_Subset, FS_CardinalityType
  <2>2. (Checks \ passed) \cup passed = Checks /\ (Checks \ passed) \cap passed = {}
    BY <1>2
  <2>3. Cardinality((Checks \ passed) \cup passed)
          = Cardinality(Checks \ passed) + n - Cardinality((Checks \ passed) \cap passed)
    BY <1>3, <2>1, FS_Union
  <2>4. Cardinality({}) = 0
    BY FS_EmptySet
  <2>5. 5 = Cardinality(Checks \ passed) + n
    <3>1. /\ Cardinality((Checks \ passed) \cup passed) = 5
          /\ Cardinality((Checks \ passed) \cap passed) = 0
      BY <1>1, <2>2, <2>4, Zenon
    <3> HIDE DEF n
    <3> QED
      BY <1>3, <2>1, <2>3, <3>1
  <2> QED
    BY <1>3, <2>1, <2>5
<1>7. n >= 4 => Cardinality(Issues(d)) <= 1
  <2>1. Cardinality(Issues(d)) <= 5 - n /\ Cardinality(Issues(d)) \in Nat
    BY <1>5, <1>6, FS_Subset, FS_CardinalityType
  <2> QED
    BY <1>3, <2>1
<1>8. Issues(d) = {} => n >= 4
  <2> SUFFICES ASSUME Issues(d) = {} PROVE n >= 4
    OBVIOUS
  <2>1. \A x \in {"language", "title", "tagged"} : x \in passed
    BY DEF Issues, passed
  <2>2. d.info["title"] # None
    BY <2>1 DEF passed, Passed
  <2>3. "displayed" \in passed
    BY <2>2 DEF Issues, passed
  <2>4. Checks \ passed \subseteq {"bookmarks"}
    BY <2>1, <2>3 DEF Checks
  <2>5. Cardinality(Checks \ passed) <= 1
    <3>1. IsFiniteSet({"bookmarks"}) /\ Cardinality({"bookmarks"}) = 1
      BY FS_Singleton
    <3> QED
      BY <2>4, <3>1, FS_Subset
  <2> QED
    BY <1>3, <1>6, <2>5
<1> QED
  BY <1>4, <1>7, <1>8


(* A link that is on a page is told, with the page it is said to lead to; and    *)
(* every link that is told is one on a page.                                      *)
LEMMA LinkExtracted ==
  ASSUME NEW d, NEW i \in DOMAIN d.pages, NEW a \in ToSet(d.pages[i].annots), a.kind = "Link",
         NEW to \in Resolutions(d, a.to)
  PROVE  [page |-> i, url |-> a.says, to |-> to] \in ExtractLinks(d)
<1> DEFINE Link(x, b, goal) == [page |-> x, url |-> b.says, to |-> goal]
           Of(x, b) == {Link(x, b, goal) : goal \in Resolutions(d, b.to)}
           On(x) == UNION {Of(x, b) : b \in {b \in ToSet(d.pages[x].annots) : b.kind = "Link"}}
<1>1. ExtractLinks(d) = UNION {On(x) : x \in DOMAIN d.pages}
  BY Zenon DEF ExtractLinks
<1> HIDE DEF Of, On
<1>2. Link(i, a, to) \in Of(i, a)
  BY DEF Of
<1>3. Link(i, a, to) \in On(i)
  BY <1>2 DEF On
<1> QED
  BY <1>1, <1>3

LEMMA LinkOnPage ==
  ASSUME NEW d, NEW link \in ExtractLinks(d)
  PROVE  \E i \in DOMAIN d.pages : \E a \in ToSet(d.pages[i].annots) : \E to \in Resolutions(d, a.to) :
           a.kind = "Link" /\ link = [page |-> i, url |-> a.says, to |-> to]
<1> DEFINE Link(i, a, to) == [page |-> i, url |-> a.says, to |-> to]
           Of(i, a) == {Link(i, a, to) : to \in Resolutions(d, a.to)}
           On(i) == UNION {Of(i, a) : a \in {a \in ToSet(d.pages[i].annots) : a.kind = "Link"}}
<1>1. ExtractLinks(d) = UNION {On(i) : i \in DOMAIN d.pages}
  BY Zenon DEF ExtractLinks
<1> HIDE DEF Of, On
<1>2. PICK i \in DOMAIN d.pages : link \in On(i)
  BY <1>1
<1>3. PICK a \in ToSet(d.pages[i].annots) : a.kind = "Link" /\ link \in Of(i, a)
  BY <1>2 DEF On
<1>4. PICK to \in Resolutions(d, a.to) : link = Link(i, a, to)
  BY <1>3 DEF Of
<1> QED
  BY <1>3, <1>4, Zenon

(* A destination that is a page is resolved to one.                               *)
LEMMA ResolvesInside ==
  ASSUME NEW d \in DocumentRecords, NEW to \in {0} \cup DOMAIN d.pages, NEW r \in Resolutions(d, to)
  PROVE  r \in {0} \cup DOMAIN d.pages
<1> DEFINE T == {i \in DOMAIN d.pages : d.pages[i] = d.pages[to]}
           First(i) == /\ d.pages[i] = d.pages[to]
                       /\ \A j \in 1 .. i - 1 : d.pages[j] # d.pages[to]
<1>1. DOMAIN d.pages = 1 .. Len(d.pages) /\ Len(d.pages) \in Nat
  BY CountsTyped
<1> SUFFICES ASSUME to # 0 PROVE r \in DOMAIN d.pages
  BY Zenon DEF Resolutions
<1>2. T \subseteq Nat /\ T # {}
  BY <1>1
<1>3. PICK x \in T : \A y \in T : ~ (y < x)
  BY <1>2, Smallest
<1>4. First(x)
  <2>1. ASSUME NEW j \in 1 .. x - 1, d.pages[j] = d.pages[to] PROVE FALSE
    <3>1. j \in 1 .. Len(d.pages) /\ j < x
      BY <1>1, <1>3
    <3> QED
      BY <1>1, <1>3, <2>1, <3>1
  <2> QED
    BY <1>3, <2>1
<1>5. x \in DOMAIN d.pages
  BY <1>3
<1>6. r = to \/ r = CHOOSE i \in DOMAIN d.pages : First(i)
  BY Zenon DEF Resolutions
<1> HIDE DEF First
<1>7. (CHOOSE i \in DOMAIN d.pages : First(i)) \in DOMAIN d.pages
  BY <1>4, <1>5, Zenon
<1> QED
  BY <1>6, <1>7

(* No link that is told leads out of a whole file.                                *)
LEMMA LinksInside ==
  ASSUME IInv
  PROVE  \A link \in ExtractLinks(doc) : link.to \in {0} \cup DOMAIN doc.pages
<1> SUFFICES ASSUME NEW link \in ExtractLinks(doc) PROVE link.to \in {0} \cup DOMAIN doc.pages
  OBVIOUS
<1>0. PICK i \in DOMAIN doc.pages :
        \E a \in ToSet(doc.pages[i].annots) : \E to \in Resolutions(doc, a.to) :
          a.kind = "Link" /\ link = [page |-> i, url |-> a.says, to |-> to]
  BY LinkOnPage, Zenon
<1>1. PICK a \in ToSet(doc.pages[i].annots) : \E to \in Resolutions(doc, a.to) :
        a.kind = "Link" /\ link = [page |-> i, url |-> a.says, to |-> to]
  BY <1>0, Zenon
<1>2. a \in AnnotsOf(doc.pages)
  BY DEF AnnotsOf
<1>3. a.to \in {0} \cup DOMAIN doc.pages
  BY <1>1, <1>2 DEF IInv, Whole
<1>4. PICK to \in Resolutions(doc, a.to) : link = [page |-> i, url |-> a.says, to |-> to]
  BY <1>1, Zenon
<1>5. to \in {0} \cup DOMAIN doc.pages
  BY <1>3, ResolvesInside DEF IInv, TypeOK
<1> QED
  BY <1>4, <1>5

LEMMA ReportsConsistent ==
  ASSUME IInv
  PROVE  FieldsDrawn /\ ReportsAgree
<1>1. doc \in DocumentRecords /\ Whole(doc)
  BY DEF IInv, TypeOK
<1>a. {f.name : f \in ListFormFields(doc)} = doc.catalog.form
  <2>1. {f.name : f \in FormFields(doc)} = doc.catalog.form
    BY <1>1, FieldNames
  <2>2. \A g \in ListFormFields(doc) : \E f \in FormFields(doc) : g.name = f.name
    BY DEF ListFormFields
  <2>3. ASSUME NEW f \in FormFields(doc) PROVE \E g \in ListFormFields(doc) : g.name = f.name
    <3> DEFINE g == [name |-> f.name, type |-> f.type, value |-> f.value]
    <3>1. g \in ListFormFields(doc) /\ g.name = f.name
      BY DEF ListFormFields
    <3> HIDE DEF g
    <3> QED
      BY <3>1
  <2> QED
    BY <2>1, <2>2, <2>3
<1>2. FieldsDrawn
  BY <1>1, <1>a DEF FieldsDrawn, Whole
<1>3. Report(doc).image_count = 0 <=> ~ PdfInfo(doc).has_images
  BY <1>1, PicturesAgree
<1>4. /\ Report(doc).has_forms <=> doc.catalog.form # {}
      /\ Report(doc).has_annotations <=> AnnotsOf(doc.pages) # {}
  BY DEF Report
<1>5. ListFormFields(doc) # {} => Report(doc).has_forms /\ Report(doc).has_annotations
  <2>1. ListFormFields(doc) # {} => doc.catalog.form # {} /\ AnnotsOf(doc.pages) # {}
    <3>1. doc.catalog.form # {} => AnnotsOf(doc.pages) # {}
      BY <1>1 DEF Whole
    <3> QED
      BY <1>a, <3>1
  <2> QED
    BY <1>4, <2>1
<1>6. ExtractLinks(doc) # {} => Report(doc).has_annotations
  <2> SUFFICES ASSUME NEW link \in ExtractLinks(doc) PROVE AnnotsOf(doc.pages) # {}
    BY <1>4
  <2>1. PICK i \in DOMAIN doc.pages : \E a \in ToSet(doc.pages[i].annots) : TRUE
    BY LinkOnPage, Zenon
  <2> QED
    BY <2>1 DEF AnnotsOf
<1>7. /\ Issues(doc) = {} => Score(doc) = "good"
      /\ Score(doc) = "good" => Cardinality(Issues(doc)) <= 1
  BY ScoreAgrees
<1>8. \A i, j \in DOMAIN doc.pages :
        Cardinality(ExtractImages(doc, <<i, j>>).files) = CountImages(doc)[i] + CountImages(doc)[j]
  BY <1>1, ExtractsAll
<1> QED
  BY <1>2, <1>3, <1>5, <1>6, <1>7, <1>8, Zenon DEF ReportsAgree


-----------------------------------------------------------------------------
(* What a call was given is what is then told: call by call.                     *)
LEMMA WrittenIs ==
  ASSUME NEW pages, NEW info, NEW catalog
  PROVE  LET d == Written(pages, info, catalog) IN
         d.pages = pages /\ d.info = info /\ d.catalog = catalog /\ d.lock = <<>>
BY DEF Written

LEMMA AddTextTells ==
  ASSUME TypeOK, NEW num \in PageNums, NEW term \in Terms, AddText(num, term)
  PROVE  TextsReadBack'
<1> DEFINE Paint(page) == Drawn(page, {<<"text", term>>})
<1>1. PICK pages \in Copies(doc.pages), ok \in BOOLEAN :
        /\ Called("add_text", <<num, term>>, ok) /\ (ok => Indexable(num))
        /\ doc' = IF ok THEN Overlaid([i \in DOMAIN pages |-> IF i = num + 1 THEN Paint(pages[i]) ELSE pages[i]]) ELSE doc
  BY DEF AddText, Edit, Call, Called
<1> DEFINE after == [i \in DOMAIN pages |-> IF i = num + 1 THEN Paint(pages[i]) ELSE pages[i]]
<1>2. last'.ok = ok /\ last'.given = <<num, term>>
  BY <1>1, CalledTyped
<1>3. ASSUME ok, num >= 0 PROVE num + 1 \in SearchText(doc', term)
  <2>1. num \in Int /\ DOMAIN doc.pages = 1 .. Len(doc.pages) /\ Len(doc.pages) \in Nat
    BY InputsAssumption, PagesTyped
  <2>2. num + 1 \in DOMAIN pages /\ pages[num + 1] \in PageRecords
    BY <1>1, <1>3, <2>1, CopiesSame DEF Indexable, Same
  <2>3. doc'.pages = after
    BY <1>1, <1>3, WrittenIs DEF Overlaid
  <2>4. num + 1 \in DOMAIN doc'.pages /\ doc'.pages[num + 1] = Paint(pages[num + 1])
    BY <2>2, <2>3
  <2>5. <<"text", term>> \in Paint(pages[num + 1]).drawn
    BY <2>2 DEF Drawn, PageRecords
  <2> QED
    BY <2>4, <2>5 DEF SearchText, ExtractText, Texts
<1>4. last'.given[1] = num /\ last'.given[2] = term
  BY <1>2
<1> HIDE DEF after, Paint
<1> QED
  BY <1>2, <1>3, <1>4 DEF TextsReadBack, Returned, SearchText, ExtractText

LEMMA AddHeadersFootersTells ==
  ASSUME TypeOK, NEW term \in Terms, NEW start \in Int, AddHeadersFooters(term, start)
  PROVE  FootersNumbered'
<1> DEFINE Paint(i, page, total) == IF i < start THEN page ELSE Drawn(page, {<<"text", term>>, Footer(i, total, start)})
<1>1. PICK pages \in Copies(doc.pages), ok \in BOOLEAN :
        /\ Called("add_headers_footers", <<term, start>>, ok) /\ sealed' = sealed
        /\ doc' = IF ok THEN Overlaid([i \in DOMAIN pages |-> Paint(i, pages[i], Len(pages))]) ELSE doc
  BY DEF AddHeadersFooters, Call, Called
<1> DEFINE after == [i \in DOMAIN pages |-> Paint(i, pages[i], Len(pages))]
<1>2. last'.ok = ok /\ last'.given = <<term, start>>
  BY <1>1, CalledTyped
<1>3. last'.given[1] = term /\ last'.given[2] = start
  BY <1>2
<1>4. /\ DOMAIN pages = 1 .. Len(pages) /\ Len(pages) \in Nat
      /\ \A i \in DOMAIN pages : pages[i] \in PageRecords
  BY CopiesSame DEF Same
<1>5. Len(after) = Len(pages) /\ DOMAIN after = DOMAIN pages
  BY <1>4
<1>6. \A i \in DOMAIN pages : after[i] = Paint(i, pages[i], Len(pages))
  OBVIOUS
<1> HIDE DEF after
<1>7. ASSUME ok, NEW i \in DOMAIN doc'.pages, i >= start
      PROVE  /\ <<"footer", i, Len(doc'.pages)>> \in doc'.pages[i].drawn
             /\ i \in SearchText(doc', term)
  <2>1. doc'.pages = after
    BY <1>1, <1>7, WrittenIs DEF Overlaid, after
  <2>2. i \in DOMAIN pages /\ i \in Nat /\ ~ (i < start)
    BY <1>4, <1>5, <1>7, <2>1
  <2>3. doc'.pages[i] = Drawn(pages[i], {<<"text", term>>, <<"footer", i, Len(pages)>>})
    BY <1>6, <2>1, <2>2 DEF Footer
  <2>4. pages[i] \in PageRecords
    BY <1>4, <2>2
  <2>5. /\ <<"text", term>> \in doc'.pages[i].drawn
        /\ <<"footer", i, Len(pages)>> \in doc'.pages[i].drawn
    BY <2>3, <2>4 DEF Drawn, PageRecords
  <2> QED
    BY <1>5, <1>7, <2>1, <2>5 DEF SearchText, ExtractText, Texts
<1> HIDE DEF Paint
<1> QED
  BY <1>2, <1>3, <1>7 DEF FootersNumbered, Returned, SearchText, ExtractText

(* The first two parts of LinksReadBack.                                         *)
LinksTold ==
  /\ Returned("add_link") =>
       [page |-> last.given[1] + 1, url |-> last.given[2], to |-> 0] \in ExtractLinks(doc)
  /\ Returned("add_internal_link") =>
       \E link \in ExtractLinks(doc) :
         link.page = last.given[1] + 1 /\ link.url = None /\ link.to = last.given[2] + 1

(* A link is on its page once it was put there.                                  *)
LEMMA AnnotateLinks ==
  ASSUME TypeOK, NEW op, NEW given, NEW num, NEW accepted, NEW annot, annot.kind = "Link",
         Annotate(op, given, num, accepted, annot), last'.ok
  PROVE  /\ accepted /\ last'.given = given
         /\ \A to \in Resolutions(doc', annot.to) :
              [page |-> num + 1, url |-> annot.says, to |-> to] \in ExtractLinks(doc')
<1> DEFINE n == num + 1
<1>1. PICK pages \in Copies(doc.pages), ok \in BOOLEAN :
        /\ Called(op, given, ok) /\ (ok => InRange(num) /\ accepted)
        /\ doc' = IF ok THEN Kept(Annotated(pages, num, annot)) ELSE doc
  BY DEF Annotate, Call, Called
<1>2. ok /\ last'.given = given
  BY <1>1, CalledTyped
<1>3. n \in DOMAIN pages /\ pages \in Seq(PageRecords) /\ pages[n] \in PageRecords
  BY <1>1, <1>2, CopiesSame DEF InRange, Same
<1>4. doc'.pages = Annotated(pages, num, annot)
  BY <1>1, <1>2, WrittenIs DEF Kept
<1>5. n \in DOMAIN doc'.pages /\ doc'.pages[n].annots = Append(pages[n].annots, annot)
  BY <1>3, <1>4 DEF Annotated, PageRecords
<1>6. annot \in ToSet(doc'.pages[n].annots)
  <2>1. Len(pages[n].annots) \in Nat /\ pages[n].annots \in Seq(Annotations)
    BY <1>3 DEF PageRecords
  <2>2. /\ Len(pages[n].annots) + 1 \in DOMAIN Append(pages[n].annots, annot)
        /\ Append(pages[n].annots, annot)[Len(pages[n].annots) + 1] = annot
    BY <2>1
  <2> QED
    BY <1>5, <2>2 DEF ToSet
<1> HIDE DEF n
<1>7. \A to \in Resolutions(doc', annot.to) :
        [page |-> n, url |-> annot.says, to |-> to] \in ExtractLinks(doc')
  BY <1>5, <1>6, LinkExtracted
<1> QED
  BY <1>1, <1>2, <1>7 DEF n

LEMMA AddLinkTells ==
  ASSUME TypeOK, NEW num \in PageNums, NEW url \in Terms, AddLink(num, url)
  PROVE  LinksTold'
<1> DEFINE annot == Annot("Link", url)
<1>1. annot.kind = "Link" /\ annot.says = url /\ annot.to = 0
  BY DEF Annot
<1>2. Annotate("add_link", <<num, url>>, num, TRUE, annot) /\ last'.op = "add_link"
  BY CalledTyped DEF AddLink, Annotate, Call, Called
<1> HIDE DEF annot
<1>3. ASSUME last'.ok
      PROVE  [page |-> last'.given[1] + 1, url |-> last'.given[2], to |-> 0] \in ExtractLinks(doc')
  <2>1. /\ last'.given = <<num, url>>
        /\ \A to \in Resolutions(doc', annot.to) :
             [page |-> num + 1, url |-> annot.says, to |-> to] \in ExtractLinks(doc')
    BY <1>1, <1>2, <1>3, AnnotateLinks
  <2>2. 0 \in Resolutions(doc', annot.to)
    BY <1>1 DEF Resolutions
  <2>3. last'.given[1] = num /\ last'.given[2] = url
    BY <2>1
  <2> QED
    BY <1>1, <2>1, <2>2, <2>3
<1>4. ExtractLinks(doc)' = ExtractLinks(doc')
  BY Zenon DEF ExtractLinks, Resolutions
<1> QED
  BY <1>2, <1>3, <1>4 DEF LinksTold, Returned

LEMMA AddInternalLinkTells ==
  ASSUME TypeOK, NEW num \in PageNums, NEW to \in PageNums, AddInternalLink(num, to)
  PROVE  LinksTold'
<1> DEFINE annot == [Annot("Link", None) EXCEPT !.to = to + 1]
<1>1. annot.kind = "Link" /\ annot.says = None /\ annot.to = to + 1
  BY DEF Annot
<1>2. Annotate("add_internal_link", <<num, to>>, num, InRange(to), annot) /\ last'.op = "add_internal_link"
  BY CalledTyped DEF AddInternalLink, Annotate, Call, Called
<1> HIDE DEF annot
<1>3. ASSUME last'.ok
      PROVE  \E link \in ExtractLinks(doc') :
               link.page = last'.given[1] + 1 /\ link.url = None /\ link.to = last'.given[2] + 1
  <2>1. /\ InRange(to) /\ last'.given = <<num, to>>
        /\ \A r \in Resolutions(doc', annot.to) :
             [page |-> num + 1, url |-> annot.says, to |-> r] \in ExtractLinks(doc')
    BY <1>1, <1>2, <1>3, AnnotateLinks
  <2>2. to + 1 # 0
    BY <2>1, PagesTyped DEF InRange
  <2>3. to + 1 \in Resolutions(doc', annot.to)
    BY <1>1, <2>2 DEF Resolutions
  <2>4. last'.given[1] = num /\ last'.given[2] = to
    BY <2>1
  <2>5. [page |-> num + 1, url |-> None, to |-> to + 1] \in ExtractLinks(doc')
    BY <1>1, <2>1, <2>3
  <2> QED
    BY <2>4, <2>5
<1>4. ExtractLinks(doc)' = ExtractLinks(doc')
  BY Zenon DEF ExtractLinks, Resolutions
<1> QED
  BY <1>2, <1>3, <1>4 DEF LinksTold, Returned


LEMMA FormlessTells ==
  ASSUME NEW op \in Flats \cup {"optimize"}, last'.op = op, last'.ok => Plain(doc'.catalog)
  PROVE  FormsReadBack'
<1>1. last'.ok => ListFormFields(doc') = {}
  <2>1. last'.ok => FormWidgets(doc') = {}
    BY DEF FormWidgets, Plain
  <2>2. last'.ok => FormFields(doc') = {}
    BY <2>1 DEF FormFields, Plain
  <2> QED
    BY <2>2 DEF ListFormFields
<1>2. op # "create_form"
  BY DEF Flats
<1>3. ListFormFields(doc)' = ListFormFields(doc')
  BY Zenon DEF ListFormFields, FormFields, FieldOf, FormWidgets, AnnotsOf
<1> QED
  BY <1>1, <1>2, <1>3 DEF FormsReadBack, Returned

LEMMA FlattenTells ==
  ASSUME TypeOK, NEW op \in Flats, NEW kinds, Flatten(op, kinds)
  PROVE  FormsReadBack'
<1>0. PICK merged \in BOOLEAN :
        Call(op, <<kinds>>, TRUE, LAMBDA pages :
          Written([i \in DOMAIN pages |-> Flattened(pages[i], kinds, merged)], Fresh, Formless))
  BY DEF Flatten
<1>1. PICK pages \in Copies(doc.pages), ok \in BOOLEAN :
        /\ Called(op, <<kinds>>, ok)
        /\ doc' = IF ok THEN Written([i \in DOMAIN pages |-> Flattened(pages[i], kinds, merged)], Fresh, Formless)
                  ELSE doc
  BY <1>0 DEF Call, Called
<1>2. last'.op = op /\ last'.ok = ok
  BY <1>1, CalledTyped
<1>3. ok => doc'.catalog = Bare
  BY <1>1, WrittenIs DEF Formless
<1> QED
  BY <1>2, <1>3, InfosTyped, FormlessTells

LEMMA OptimizeTells ==
  ASSUME TypeOK, NEW remove_metadata \in BOOLEAN, Optimize(remove_metadata)
  PROVE  FormsReadBack'
<1>1. PICK pages \in Copies(doc.pages), ok \in BOOLEAN :
        /\ Called("optimize", <<remove_metadata>>, ok)
        /\ doc' = IF ok THEN IF remove_metadata THEN Written(pages, Fresh, Bare) ELSE Kept(pages)
                  ELSE doc
  BY DEF Optimize, Call, Called
<1>2. last'.op = "optimize" /\ last'.ok = ok
  BY <1>1, CalledTyped
<1>3. ok => doc'.catalog = Bare
  BY <1>1, WrittenIs DEF Kept
<1> QED
  BY <1>2, <1>3, InfosTyped, FormlessTells

LEMMA CreateFormTells ==
  ASSUME TypeOK, NEW fields \in FieldLists, CreateForm(fields)
  PROVE  FormsReadBack'
<1> DEFINE ok      == fields # <<>> /\ \A k \in DOMAIN fields : Creatable(fields[k])
           widgets == [k \in DOMAIN fields |-> FieldWidget(fields[k])]
           page    == [drawn |-> {}, images |-> <<>>, annots |-> IF ok THEN widgets ELSE <<>>]
           catalog == [Bare EXCEPT !.form = {fields[k].name : k \in DOMAIN fields}]
<1>1. Create("create_form", fields, ok, Reportlab(<<page>>, catalog))
  BY DEF CreateForm
<1>2. ok \in BOOLEAN
  OBVIOUS
<1>3. page.annots = IF ok THEN widgets ELSE <<>>
  OBVIOUS
<1>4. catalog.form = {fields[k].name : k \in DOMAIN fields} /\ catalog.apart = {}
  BY DEF Bare
<1>5. DOMAIN widgets = DOMAIN fields /\ \A k \in DOMAIN fields : widgets[k] = FieldWidget(fields[k])
  OBVIOUS
<1>6. fields \in Inputs.fields
  BY InputsAssumption
<1>7. ok => \A k \in DOMAIN fields : Creatable(fields[k])
  OBVIOUS
<1> HIDE DEF ok, widgets, page, catalog
<1>8. last'.op = "create_form" /\ last'.given = fields /\ last'.ok = ok
  BY <1>1, <1>2, CalledTyped DEF Create
<1>9. ASSUME ok, NEW k \in DOMAIN fields
      PROVE  \E f \in ListFormFields(doc') : f.name = fields[k].name /\ f.type = fields[k].type
  <2> DEFINE a == widgets[k]
  <2>1. doc'.pages = <<page>> /\ doc'.catalog = catalog
    BY <1>1, <1>9, WrittenIs DEF Create, Reportlab
  <2>2. a.kind = "Widget" /\ a.field = fields[k].name /\ a.type = fields[k].type
    BY <1>5, <1>6, <1>7, <1>9, FieldWidgetTyped
  <2>3. a \in ToSet(page.annots)
    BY <1>3, <1>5, <1>9 DEF ToSet
  <2>4. a \in AnnotsOf(doc'.pages)
    <3>1. 1 \in DOMAIN doc'.pages /\ doc'.pages[1] = page
      BY <2>1
    <3> HIDE DEF a
    <3> QED
      BY <2>3, <3>1 DEF AnnotsOf
  <2>5. a.field \in doc'.catalog.form
    BY <1>4, <2>1, <2>2
  <2> HIDE DEF a
  <2>6. a \in FormWidgets(doc')
    BY <2>2, <2>4, <2>5 DEF FormWidgets
  <2>7. FieldOf(a) \in FormFields(doc')
    BY <1>4, <2>1, <2>6 DEF FormFields
  <2>8. [name |-> a.field, type |-> a.type, value |-> a.says] \in ListFormFields(doc')
    BY <2>7 DEF ListFormFields, FieldOf
  <2> QED
    BY <2>2, <2>8
<1>10. ListFormFields(doc)' = ListFormFields(doc')
  BY Zenon DEF ListFormFields, FormFields, FieldOf, FormWidgets, AnnotsOf
<1> QED
  BY <1>8, <1>9, <1>10 DEF FormsReadBack, Returned, Flats

LEMMA FromImagesTells ==
  ASSUME TypeOK, NEW sizes \in Pictures, FromImages(sizes)
  PROVE  PicturesInOrder'
<1> DEFINE ok    == sizes # <<>> /\ \A k \in DOMAIN sizes : sizes[k] # None
           made  == [k \in DOMAIN sizes |->
                       Page({<<"image", sizes[k]>>}, <<[size |-> sizes[k], bits |-> 8]>>)]
           pages == IF ok THEN made ELSE <<Page({}, <<>>)>>
<1>1. sizes \in Seq(Sizes \cup {None}) /\ DOMAIN sizes = 1 .. Len(sizes) /\ Len(sizes) \in Nat
  BY InputsAssumption DEF Inputs
<1>2. Create("from_images", sizes, ok, Reportlab(pages, Bare))
  BY DEF FromImages
<1>3. ok \in BOOLEAN
  OBVIOUS
<1>4. ok => pages = made /\ sizes # <<>>
  OBVIOUS
<1>5. DOMAIN made = DOMAIN sizes /\ Len(made) = Len(sizes)
  BY <1>1
<1>6. \A k \in DOMAIN sizes : Len(made[k].images) = 1 /\ made[k].images # <<>>
  BY DEF Page
<1> HIDE DEF ok, made, pages
<1>7. last'.op = "from_images" /\ last'.given = sizes /\ last'.ok = ok
  BY <1>2, <1>3, CalledTyped DEF Create
<1>8. ASSUME ok
      PROVE  /\ PdfInfo(doc').page_count = Len(sizes) /\ PdfInfo(doc').has_images
             /\ CountImages(doc') = [k \in DOMAIN sizes |-> 1]
  <2>1. doc'.pages = made
    BY <1>2, <1>4, <1>8, WrittenIs DEF Create, Reportlab
  <2>2. PdfInfo(doc').page_count = Len(sizes)
    BY <1>5, <2>1 DEF PdfInfo
  <2>3. 1 \in DOMAIN sizes
    BY <1>1, <1>4, <1>8
  <2>4. PdfInfo(doc').has_images
    BY <1>5, <1>6, <2>1, <2>3 DEF PdfInfo
  <2>5. CountImages(doc') = [k \in DOMAIN sizes |-> 1]
    BY <1>5, <1>6, <2>1 DEF CountImages
  <2> QED
    BY <2>2, <2>4, <2>5
<1>9. PdfInfo(doc)' = PdfInfo(doc') /\ CountImages(doc)' = CountImages(doc')
  BY Zenon DEF PdfInfo, CountImages, IsEncrypted
<1> QED
  BY <1>7, <1>8, <1>9 DEF PicturesInOrder, Returned

LEMMA FromTemplateTells ==
  ASSUME TypeOK, NEW t \in Templates, FromTemplate(t.pages, t.data)
  PROVE  TemplatesResolved'
<1> DEFINE template == t.pages
           data     == t.data
           ok    == /\ template # <<>>
                    /\ \A i \in DOMAIN template : \A e \in ToSet(template[i]) :
                         /\ e.type \in {"text", "image", "rect", "line"}
                         /\ e.type = "image" => e.size # None
           laid  == [i \in DOMAIN template |-> Laid(template[i], data)]
           pages == IF ok THEN laid ELSE <<Page({}, <<>>)>>
<1>1. Create("from_template", <<template, data>>, ok, Reportlab(pages, Bare))
  BY DEF FromTemplate
<1>2. ok \in BOOLEAN
  OBVIOUS
<1>3. ok => pages = laid
  OBVIOUS
<1>4. DOMAIN laid = DOMAIN template /\ \A i \in DOMAIN template : laid[i] = Laid(template[i], data)
  OBVIOUS
<1> HIDE DEF template, data, ok, laid, pages
<1>5. last'.op = "from_template" /\ last'.given = <<template, data>> /\ last'.ok = ok
  BY <1>1, <1>2, CalledTyped DEF Create
<1>6. last'.given[2] = data
  BY <1>5
<1>7. ASSUME ok, NEW i \in DOMAIN doc'.pages, NEW what \in doc'.pages[i].drawn, what[1] = "placeholders"
      PROVE  ~ what[2] \subseteq DOMAIN data
  <2>1. doc'.pages = laid
    BY <1>1, <1>3, <1>7, WrittenIs DEF Create, Reportlab
  <2>2. doc'.pages[i].drawn = UNION {Painted(template[i][k], data) : k \in DOMAIN template[i]}
    <3>1. doc'.pages[i] = Laid(template[i], data)
      BY <1>4, <1>7, <2>1
    <3>2. ASSUME NEW drawn, NEW images PROVE Page(drawn, images).drawn = drawn
      BY DEF Page
    <3>3. Laid(template[i], data).drawn = UNION {Painted(template[i][k], data) : k \in DOMAIN template[i]}
      BY <3>2, Zenon DEF Laid
    <3> QED
      BY <3>1, <3>3
  <2>3. PICK e : what \in Painted(e, data)
    BY <1>7, <2>2
  <2>4. e.type # "text" => what \in {<<"image", e.size>>, <<"shape", e.type>>}
    BY <2>3 DEF Painted
  <2>5. e.type = "text"
    BY <1>7, <2>4
  <2>6. what \in Resolved(e.names, data)
    BY <2>3, <2>5 DEF Painted
  <2>7. CASE e.names \subseteq DOMAIN data
    <3>1. PICK n \in e.names : what = <<"text", data[n]>>
      BY <2>6, <2>7 DEF Resolved
    <3> QED
      BY <1>7, <3>1
  <2>8. CASE ~ (e.names \subseteq DOMAIN data)
    <3>1. what = <<"placeholders", e.names>>
      BY <2>6, <2>8 DEF Resolved
    <3> QED
      BY <2>8, <3>1
  <2> QED
    BY <2>7, <2>8
<1> QED
  BY <1>5, <1>6, <1>7 DEF TemplatesResolved, Returned


LEMMA SetMetadataTells ==
  ASSUME TypeOK, NEW title \in Terms \cup {None}, NEW custom \in Terms \cup {None},
         SetMetadata(title, custom)
  PROVE  MetadataReadsBack'
<1> DEFINE new  == [NoInfo EXCEPT !["title"] = title, !["custom"] = custom]
           info == Over(Over(Fresh, doc.info), new)
<1>1. PICK pages \in Copies(doc.pages), ok \in BOOLEAN :
        /\ Called("set_metadata", <<title, custom>>, ok)
        /\ doc' = IF ok THEN Written(pages, info, Bare) ELSE doc
  BY DEF SetMetadata, Call, Called
<1>2. last'.op = "set_metadata" /\ last'.given = <<title, custom>> /\ last'.ok = ok
  BY <1>1, CalledTyped
<1>3. last'.given[1] = title /\ last'.given[2] = custom
  BY <1>2
<1>4. new["title"] = title /\ new["custom"] = custom
  BY DEF NoInfo, Keys
<1> HIDE DEF new
<1>5. \A k \in Keys : new[k] # None => info[k] = new[k]
  BY DEF Over
<1> HIDE DEF info
<1>6. ok => doc'.info = info
  BY <1>1, WrittenIs
<1>7. ASSUME ok, title # None PROVE GetMetadata(doc').title = title
  BY <1>4, <1>5, <1>6, <1>7 DEF GetMetadata, Keys
<1>8. ASSUME ok, custom # None PROVE custom \in GetMetadata(doc').custom
  BY <1>4, <1>5, <1>6, <1>8 DEF GetMetadata, Keys
<1>9. GetMetadata(doc)' = GetMetadata(doc')
  BY Zenon DEF GetMetadata
<1> QED
  BY <1>2, <1>3, <1>7, <1>8, <1>9 DEF MetadataReadsBack, Returned

LEMMA RemoveMetadataTells ==
  ASSUME TypeOK, RemoveMetadata
  PROVE  MetadataReadsBack'
<1>1. PICK pages \in Copies(doc.pages), ok \in BOOLEAN :
        /\ Called("remove_metadata", <<>>, ok)
        /\ doc' = IF ok THEN Written(pages, NoInfo, Bare) ELSE doc
  BY DEF RemoveMetadata, Call, Called
<1>2. last'.op = "remove_metadata" /\ last'.ok = ok
  BY <1>1, CalledTyped
<1>3. ok => doc'.info = NoInfo
  BY <1>1, WrittenIs
<1>4. ASSUME ok PROVE GetMetadata(doc').custom = {} /\ ~ Report(doc').has_metadata
  <2>1. \A k \in Keys : doc'.info[k] = None
    BY <1>3, <1>4 DEF NoInfo
  <2>2. GetMetadata(doc').custom = {}
    BY <2>1 DEF GetMetadata, Keys
  <2>3. Report(doc').has_metadata <=> doc'.info["title"] # None \/ doc'.info["producer"] # None
    BY DEF Report
  <2> QED
    BY <2>1, <2>2, <2>3 DEF Keys
<1>5. GetMetadata(doc)' = GetMetadata(doc') /\ Report(doc)' = Report(doc')
  BY Zenon DEF GetMetadata, Report, AnnotsOf, Total, CountImages
<1> QED
  BY <1>2, <1>4, <1>5 DEF MetadataReadsBack, Returned

LEMMA SetLanguageTells ==
  ASSUME TypeOK, NEW tag \in Terms \cup {None}, SetLanguage(tag)
  PROVE  MetadataReadsBack'
<1>1. PICK pages \in Copies(doc.pages), ok \in BOOLEAN :
        /\ Called("set_language", <<tag>>, ok)
        /\ doc' = IF ok THEN [Kept(pages) EXCEPT !.catalog.lang = tag] ELSE doc
  BY DEF SetLanguage, Call, Called
<1>2. last'.op = "set_language" /\ last'.given = <<tag>> /\ last'.ok = ok
  BY <1>1, CalledTyped
<1>3. last'.given[1] = tag
  BY <1>2
<1>4. [Kept(pages) EXCEPT !.catalog.lang = tag].catalog.lang = tag
  BY DEF Kept, Written, Bare
<1>5. ok => GetLanguage(doc') = tag
  BY <1>1, <1>4 DEF GetLanguage
<1> QED
  BY <1>2, <1>3, <1>5 DEF MetadataReadsBack, Returned, GetLanguage

LEMMA AddAttachmentTells ==
  ASSUME TypeOK, NEW name \in Names, NEW exists \in BOOLEAN, AddAttachment(name, exists)
  PROVE  MetadataReadsBack'
<1>1. PICK pages \in Copies(doc.pages), ok \in BOOLEAN :
        /\ Called("add_attachment", <<name>>, ok)
        /\ doc' = IF ok THEN [Kept(pages) EXCEPT !.catalog.attached = {name}] ELSE doc
  BY DEF AddAttachment, Call, Called
<1>2. last'.op = "add_attachment" /\ last'.given = <<name>> /\ last'.ok = ok
  BY <1>1, CalledTyped
<1>3. last'.given[1] = name
  BY <1>2
<1>4. [Kept(pages) EXCEPT !.catalog.attached = {name}].catalog.attached = {name}
  BY DEF Kept, Written, Bare
<1>5. ok => ExtractAttachments(doc') = [ok |-> TRUE, files |-> {name}]
  BY <1>1, <1>4 DEF ExtractAttachments
<1>6. ExtractAttachments(doc)' = ExtractAttachments(doc')
  BY Zenon DEF ExtractAttachments
<1> QED
  BY <1>2, <1>3, <1>5, <1>6 DEF MetadataReadsBack, Returned

LEMMA EncryptTells ==
  ASSUME TypeOK, NEW user \in Passwords, NEW owner \in Passwords \cup {None}, Encrypt(user, owner)
  PROVE  LocksOpen'
<1> DEFINE lock == <<user, Owner(user, owner)>>
<1>1. PICK pages \in Copies(doc.pages), ok \in BOOLEAN :
        /\ Called("encrypt", <<user, owner>>, ok)
        /\ doc' = IF ok THEN [Kept(pages) EXCEPT !.lock = lock] ELSE doc
  BY DEF Encrypt, Call, Called
<1>2. last'.op = "encrypt" /\ last'.given = <<user, owner>> /\ last'.ok = ok
  BY <1>1, CalledTyped
<1>3. last'.given[1] = user
  BY <1>2
<1>4. [Kept(pages) EXCEPT !.lock = lock].lock = lock
  BY DEF Kept, Written
<1>5. lock # <<>> /\ user \in ToSet(lock)
  <2>1. 1 \in DOMAIN lock /\ lock[1] = user
    OBVIOUS
  <2> HIDE DEF lock
  <2> QED
    BY <2>1 DEF ToSet
<1>6. ok => doc'.lock # <<>> /\ user \in ToSet(doc'.lock)
  BY <1>1, <1>4, <1>5
<1> QED
  BY <1>2, <1>3, <1>6, Zenon DEF LocksOpen, Returned, IsEncrypted, Opens

-----------------------------------------------------------------------------
Told ==
  /\ MetadataReadsBack /\ LinksTold /\ FormsReadBack /\ TextsReadBack
  /\ FootersNumbered /\ PicturesInOrder /\ TemplatesResolved /\ LocksOpen

(* Each part is about its own calls.                                             *)
Describes == {"set_metadata", "remove_metadata", "set_language", "add_attachment"}
Links     == {"add_link", "add_internal_link"}
Forms     == Flats \cup {"create_form", "optimize"}

LEMMA OthersSilent ==
  /\ last'.op \notin Describes => MetadataReadsBack'
  /\ last'.op \notin Links => LinksTold'
  /\ last'.op \notin Forms => FormsReadBack'
  /\ last'.op # "add_text" => TextsReadBack'
  /\ last'.op # "add_headers_footers" => FootersNumbered'
  /\ last'.op # "from_images" => PicturesInOrder'
  /\ last'.op # "from_template" => TemplatesResolved'
  /\ last'.op # "encrypt" => LocksOpen'
<1>1. last'.op \notin Describes => MetadataReadsBack'
  BY DEF Describes, MetadataReadsBack, Returned
<1>2. last'.op \notin Links => LinksTold'
  BY DEF Links, LinksTold, Returned
<1>3. last'.op \notin Forms => FormsReadBack'
  BY DEF Forms, FormsReadBack, Returned
<1>4. last'.op # "add_text" => TextsReadBack'
  BY DEF TextsReadBack, Returned
<1>5. last'.op # "add_headers_footers" => FootersNumbered'
  BY DEF FootersNumbered, Returned
<1>6. last'.op # "from_images" => PicturesInOrder'
  BY DEF PicturesInOrder, Returned
<1>7. last'.op # "from_template" => TemplatesResolved'
  BY DEF TemplatesResolved, Returned
<1>8. last'.op # "encrypt" => LocksOpen'
  BY DEF LocksOpen, Returned
<1> QED
  BY <1>1, <1>2, <1>3, <1>4, <1>5, <1>6, <1>7, <1>8

LEMMA StartsTold ==
  Init => Told
<1> SUFFICES ASSUME Init PROVE Told
  OBVIOUS
<1>1. last.op = "none"
  BY DEF Init
<1> QED
  BY <1>1 DEF Told, MetadataReadsBack, LinksTold, FormsReadBack, TextsReadBack, FootersNumbered,
              PicturesInOrder, TemplatesResolved, LocksOpen, Returned, Flats


LEMMA QuietTold ==
  ASSUME NEW op, last'.op = op,
         op \notin Describes \cup Links \cup Forms
                   \cup {"add_text", "add_headers_footers", "from_images", "from_template", "encrypt"}
  PROVE  Told'
BY OthersSilent DEF Told

LEMMA EditingTold ==
  ASSUME TypeOK, Editing
  PROVE  Told'
<1>1. \A start \in 1 .. 2 : start \in Int
  OBVIOUS
<1>2. ASSUME NEW num \in PageNums, NEW term \in Terms, AddText(num, term) PROVE Told'
  <2>1. last'.op = "add_text" /\ TextsReadBack'
    BY <1>2, AddTextStep, AddTextTells DEF Usual
  <2>2. last'.op \notin Describes \cup Links \cup Forms
    BY <2>1 DEF Describes, Links, Forms, Flats
  <2> QED
    BY <2>1, <2>2, OthersSilent DEF Told
<1>3. ASSUME NEW term \in Terms, NEW start \in Int, AddHeadersFooters(term, start) PROVE Told'
  <2>1. last'.op = "add_headers_footers" /\ FootersNumbered'
    BY <1>3, AddHeadersFootersStep, AddHeadersFootersTells DEF Usual
  <2>2. last'.op \notin Describes \cup Links \cup Forms
    BY <2>1 DEF Describes, Links, Forms, Flats
  <2> QED
    BY <2>1, <2>2, OthersSilent DEF Told
<1>4. ASSUME NEW op, Usual(op),
             op \in {"add_annotation", "add_image", "add_shape", "add_text_watermark", "add_image_watermark"}
      PROVE  Told'
  <2>1. op \notin Describes \cup Links \cup Forms
                    \cup {"add_text", "add_headers_footers", "from_images", "from_template", "encrypt"}
    BY <1>4 DEF Describes, Links, Forms, Flats
  <2>2. last'.op = op
    BY <1>4 DEF Usual
  <2> QED
    BY <2>1, <2>2, QuietTold
<1>5. \/ \E num \in PageNums, term \in Terms : AddText(num, term)
      \/ \E term \in Terms, start \in 1 .. 2 : AddHeadersFooters(term, start)
      \/ \E op \in {"add_annotation", "add_image", "add_shape", "add_text_watermark",
                    "add_image_watermark"} : Usual(op)
  BY AddAnnotationStep, AddImageStep, AddShapeStep, AddTextWatermarkStep, AddImageWatermarkStep DEF Editing
<1> QED
  BY <1>1, <1>2, <1>3, <1>4, <1>5

LEMMA AnnotatingTold ==
  ASSUME TypeOK, Annotating
  PROVE  Told'
<1>1. last'.op \in {"mark_area", "add_sticky_note", "add_text_comment", "add_link", "add_internal_link"}
  BY AnnotatingStep DEF Usual
<1>2. last'.op \notin Describes \cup Forms
        \cup {"add_text", "add_headers_footers", "from_images", "from_template", "encrypt"}
  BY <1>1 DEF Describes, Forms, Flats
<1>3. PICK num \in PageNums :
        \/ \E kind \in {"Highlight", "Underline", "StrikeOut"} : MarkArea(num, kind)
        \/ \E term \in Terms, icon \in {"Note", "other"} : AddStickyNote(num, term, icon)
        \/ \E term \in Terms : AddTextComment(num, term)
        \/ \E url \in Terms : AddLink(num, url)
        \/ \E to \in PageNums : AddInternalLink(num, to)
  BY DEF Annotating
<1>4. ASSUME last'.op \notin Links PROVE LinksTold'
  BY <1>4, OthersSilent
<1>5. LinksTold'
  <2>1. ASSUME NEW kind, MarkArea(num, kind) PROVE LinksTold'
    <3>1. last'.op = "mark_area"
      BY <2>1 DEF MarkArea, Annotate, Call, Called
    <3> QED
      BY <1>4, <3>1 DEF Links
  <2>2. ASSUME NEW term, NEW icon, AddStickyNote(num, term, icon) PROVE LinksTold'
    <3>1. last'.op = "add_sticky_note"
      BY <2>2 DEF AddStickyNote, Annotate, Call, Called
    <3> QED
      BY <1>4, <3>1 DEF Links
  <2>3. ASSUME NEW term, AddTextComment(num, term) PROVE LinksTold'
    <3>1. last'.op = "add_text_comment"
      BY <2>3 DEF AddTextComment, Annotate, Call, Called
    <3> QED
      BY <1>4, <3>1 DEF Links
  <2> QED
    BY <1>3, <2>1, <2>2, <2>3, AddLinkTells, AddInternalLinkTells
<1> QED
  BY <1>2, <1>5, OthersSilent DEF Told

LEMMA FormsTold ==
  ASSUME TypeOK, Whole(doc), Flattening \/ FillingForms \/ Shrinking
  PROVE  Told'
<1>1. ASSUME NEW op \in Forms, last'.op = op, FormsReadBack' PROVE Told'
  <2>1. op \notin Describes \cup Links
          \cup {"add_text", "add_headers_footers", "from_images", "from_template", "encrypt"}
    BY DEF Describes, Links, Forms, Flats
  <2> QED
    BY <1>1, <2>1, OthersSilent DEF Told
<1>2. ASSUME NEW op \in Flats, NEW kinds, Flatten(op, kinds) PROVE Told'
  <2>1. last'.op = op /\ FormsReadBack' /\ op \in Forms
    BY <1>2, FlattenStep, FlattenTells DEF Usual, Forms
  <2> QED
    BY <1>1, <2>1
<1>3. Flattening => \E op \in Flats : \E kinds : Flatten(op, kinds)
  BY DEF Flattening, FlattenForms, FlattenAnnotations, FlattenAll, Flats
<1>4. ASSUME NEW fields \in FieldLists, CreateForm(fields) PROVE Told'
  <2>1. last'.op = "create_form" /\ FormsReadBack' /\ "create_form" \in Forms
    BY <1>4, CreateFormStep, CreateFormTells DEF Usual, Forms
  <2> QED
    BY <1>1, <2>1
<1>5. ASSUME NEW data \in Fills, FillForm(data) PROVE Told'
  <2>1. last'.op = "fill_form"
    BY <1>5, FillFormStep DEF Usual
  <2>2. "fill_form" \notin Describes \cup Links \cup Forms
          \cup {"add_text", "add_headers_footers", "from_images", "from_template", "encrypt"}
    BY DEF Describes, Links, Forms, Flats
  <2> QED
    BY <2>1, <2>2, QuietTold
<1>6. ASSUME NEW remove_metadata \in BOOLEAN, Optimize(remove_metadata) PROVE Told'
  <2>1. last'.op = "optimize" /\ FormsReadBack' /\ "optimize" \in Forms
    BY <1>6, OptimizeStep, OptimizeTells DEF Usual, Forms
  <2> QED
    BY <1>1, <2>1
<1>7. ASSUME NEW op \in {"compress", "remove_unused_objects", "linearize"}, Usual(op) PROVE Told'
  <2>1. op \notin Describes \cup Links \cup Forms
          \cup {"add_text", "add_headers_footers", "from_images", "from_template", "encrypt"}
    BY DEF Describes, Links, Forms, Flats
  <2>2. last'.op = op
    BY <1>7 DEF Usual
  <2> QED
    BY <2>1, <2>2, QuietTold
<1>8. ASSUME NEW op \in {"remove_unused_objects", "linearize"}, Rewrite(op) PROVE Usual(op)
  BY <1>8, RewriteStep DEF Rewrite
<1>9. Shrinking => \/ \E remove_metadata \in BOOLEAN : Optimize(remove_metadata)
                   \/ \E op \in {"compress", "remove_unused_objects", "linearize"} : Usual(op)
  BY <1>8, CompressStep DEF Shrinking
<1>10. FillingForms => \/ \E fields \in FieldLists : CreateForm(fields)
                       \/ \E data \in Fills : FillForm(data)
  BY DEF FillingForms
<1> QED
  BY <1>2, <1>3, <1>4, <1>5, <1>6, <1>7, <1>9, <1>10

LEMMA CreatingTold ==
  ASSUME TypeOK, Creating
  PROVE  Told'
<1>1. ASSUME last'.op \in {"from_text", "from_html", "from_images", "from_template"}
      PROVE  last'.op \notin Describes \cup Links \cup Forms
                \cup {"add_text", "add_headers_footers", "encrypt"}
  BY <1>1 DEF Describes, Links, Forms, Flats
<1>2. ASSUME NEW sizes \in Pictures, FromImages(sizes) PROVE Told'
  <2>1. last'.op = "from_images" /\ PicturesInOrder'
    BY <1>2, FromImagesStep, FromImagesTells DEF Usual
  <2> QED
    BY <1>1, <2>1, OthersSilent DEF Told
<1>3. ASSUME NEW t \in Templates, FromTemplate(t.pages, t.data) PROVE Told'
  <2>1. last'.op = "from_template" /\ TemplatesResolved'
    BY <1>3, FromTemplateStep, FromTemplateTells DEF Usual
  <2> QED
    BY <1>1, <2>1, OthersSilent DEF Told
<1>4. ASSUME NEW op \in {"from_text", "from_html"}, Usual(op) PROVE Told'
  <2>1. last'.op = op
    BY <1>4 DEF Usual
  <2> QED
    BY <1>1, <2>1, OthersSilent DEF Told
<1>5. \/ \E sizes \in Pictures : FromImages(sizes)
      \/ \E t \in Templates : FromTemplate(t.pages, t.data)
      \/ \E op \in {"from_text", "from_html"} : Usual(op)
  BY FromTextStep, FromHtmlStep DEF Creating
<1> QED
  BY <1>2, <1>3, <1>4, <1>5

LEMMA DescribingTold ==
  ASSUME TypeOK, Describing
  PROVE  Told'
<1>1. last'.op \in Describes \cup {"remove_attachments", "set_title_display"}
  BY DescribingStep DEF Usual, Describes
<1>2. last'.op \notin Links \cup Forms
        \cup {"add_text", "add_headers_footers", "from_images", "from_template", "encrypt"}
  BY <1>1 DEF Describes, Links, Forms, Flats
<1>3. RemoveAttachments => Usual("remove_attachments")
  BY RewriteStep DEF RemoveAttachments
<1>4. ASSUME NEW op \in {"remove_attachments", "set_title_display"}, Usual(op) PROVE MetadataReadsBack'
  <2>1. last'.op \notin Describes
    BY <1>4 DEF Usual, Describes
  <2> QED
    BY <2>1, OthersSilent
<1>5. MetadataReadsBack'
  <2>1. \/ \E title, custom \in Terms \cup {None} : SetMetadata(title, custom)
        \/ RemoveMetadata
        \/ \E name \in Names, exists \in BOOLEAN : AddAttachment(name, exists)
        \/ \E tag \in Terms \cup {None} : SetLanguage(tag)
        \/ \E op \in {"remove_attachments", "set_title_display"} : Usual(op)
    BY <1>3, SetTitleDisplayStep DEF Describing
  <2> QED
    BY <1>4, <2>1, SetMetadataTells, RemoveMetadataTells, AddAttachmentTells, SetLanguageTells
<1> QED
  BY <1>2, <1>5, OthersSilent DEF Told

LEMMA ProtectingTold ==
  ASSUME TypeOK, Protecting \/ Redacting
  PROVE  Told'
<1>1. ASSUME NEW op \in {"decrypt", "sign"} \cup Lossy, last'.op = op PROVE Told'
  <2>1. op \notin Describes \cup Links \cup Forms
          \cup {"add_text", "add_headers_footers", "from_images", "from_template", "encrypt"}
    BY DEF Describes, Links, Forms, Flats, Lossy
  <2> QED
    BY <1>1, <2>1, QuietTold
<1>2. ASSUME NEW user \in Passwords, NEW owner \in Passwords \cup {None}, Encrypt(user, owner)
      PROVE  Told'
  <2>1. last'.op = "encrypt" /\ LocksOpen'
    BY <1>2, EncryptStep, EncryptTells DEF Usual
  <2>2. last'.op \notin Describes \cup Links \cup Forms
    BY <2>1 DEF Describes, Links, Forms, Flats
  <2> QED
    BY <2>1, <2>2, OthersSilent DEF Told
<1>3. ASSUME NEW password \in Passwords, Decrypt(password) PROVE Told'
  <2>1. last'.op = "decrypt"
    BY <1>3, DecryptStep DEF Usual
  <2> QED
    BY <1>1, <2>1
<1>4. ASSUME NEW signer \in Terms, NEW keys \in BOOLEAN, Sign(signer, keys) PROVE Told'
  <2>1. last'.op = "sign"
    BY <1>4, SignStep
  <2> QED
    BY <1>1, <2>1
<1>5. CASE Redacting
  <2>1. last'.op \in Lossy
    BY <1>5, EveryRedaction DEF Checked
  <2> QED
    BY <1>1, <2>1
<1>6. Protecting => \/ \E user \in Passwords, owner \in Passwords \cup {None} : Encrypt(user, owner)
                    \/ \E password \in Passwords : Decrypt(password)
                    \/ \E signer \in Terms, keys \in BOOLEAN : Sign(signer, keys)
  BY DEF Protecting
<1> QED
  BY <1>2, <1>3, <1>4, <1>5, <1>6

LEMMA EveryCallTold ==
  ASSUME TypeOK, Whole(doc), Told, [Next]_vars
  PROVE  Told'
<1>1. CASE UNCHANGED vars
  <2>1. doc' = doc /\ last' = last
    BY <1>1 DEF vars
  <2>2. /\ MetadataReadsBack' <=> MetadataReadsBack
        /\ LinksTold' <=> LinksTold
        /\ FormsReadBack' <=> FormsReadBack
        /\ TextsReadBack' <=> TextsReadBack
        /\ FootersNumbered' <=> FootersNumbered
        /\ PicturesInOrder' <=> PicturesInOrder
        /\ TemplatesResolved' <=> TemplatesResolved
        /\ LocksOpen' <=> LocksOpen
    BY <2>1 DEF MetadataReadsBack, LinksTold, FormsReadBack, TextsReadBack, FootersNumbered,
                PicturesInOrder, TemplatesResolved, LocksOpen, Returned, Opens, ExtractLinks,
                Resolutions, ListFormFields, FormFields, FieldOf, FormWidgets, AnnotsOf, SearchText,
                ExtractText, PdfInfo, CountImages, IsEncrypted, GetMetadata, Report, Total,
                ExtractAttachments, GetLanguage
  <2> QED
    BY <2>2 DEF Told
<1>2. CASE Next
  BY <1>2, EditingTold, AnnotatingTold, FormsTold, CreatingTold, DescribingTold, ProtectingTold DEF Next
<1> QED
  BY <1>1, <1>2

(* What was set, linked, drawn or locked by a call is what the reading functions  *)
(* then tell (metadata.py, links.py, forms.py, editor.py, creator.py,             *)
(* encryption.py), and whatever calls came before, their reports do not           *)
(* contradict each other, the fields that are listed are those of the form, each  *)
(* with a widget on a page, and no link leads to a page that is not there. What   *)
(* fill_form was given is not among it.                                           *)
THEOREM ReadBack == Spec => []ReadsBack
<1>1. TypeOK /\ Whole(doc) /\ Told /\ [Next]_vars => Told'
  BY EveryCallTold
<1>2. IInv => TypeOK /\ Whole(doc)
  BY DEF IInv
<1>3. IInv /\ Told => ReadsBack
  <2> SUFFICES ASSUME IInv, Told PROVE ReadsBack
    OBVIOUS
  <2>1. LinksReadBack
    BY LinksInside, Zenon DEF Told, LinksTold, LinksReadBack
  <2> QED
    BY <2>1, ReportsConsistent DEF Told, ReadsBack
<1> QED
  BY <1>1, <1>2, <1>3, StartsTold, Invariance, PTL DEF Spec

=============================================================================
