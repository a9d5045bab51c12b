------------------------------- MODULE Edits -------------------------------
(***************************************************************************)
(* The functions of core/ that draw on pages, annotate, link, flatten,     *)
(* fill forms, compress, and those that make a document from nothing.      *)
(***************************************************************************)
EXTENDS Contents

-----------------------------------------------------------------------------
(* editor.py, watermark.py, headers_footers.py: an overlay is merged into the  *)
(* pages' content; the metadata is not copied. Faulty: it is.                  *)

Overlaid_Faulty(pages) == Kept(pages)

Overlaid(pages) == Written(pages, Fresh, Bare)

Drawn(page, what) == [page EXCEPT !.drawn = @ \cup what]

Pictured(page, size) ==
  [Drawn(page, {<<"image", size>>}) EXCEPT
     !.images = Append(@, [size |-> size, bits |-> 8])]

(* Python indexes the page for its dimensions, negative numbers from the end;   *)
(* the loop that merges compares with the number itself.                        *)
Indexable(num) == - Len(doc.pages) <= num /\ num < Len(doc.pages)

Edit(op, given, num, accepted, Paint(_)) ==
  Call(op, given, Indexable(num) /\ accepted,
       LAMBDA pages : Overlaid(
         [i \in DOMAIN pages |-> IF i = num + 1 THEN Paint(pages[i]) ELSE pages[i]]))

AddText(num, term) ==
  Edit("add_text", <<num, term>>, num, TRUE, LAMBDA page : Drawn(page, {<<"text", term>>}))

AddImage(num, size) ==
  Edit("add_image", <<num>>, num, TRUE, LAMBDA page : Pictured(page, size))

AddShape(num, shape) ==
  Edit("add_shape", <<num>>, num, shape \in {"rect", "circle", "line"},
       LAMBDA page : Drawn(page, {<<"shape", shape>>}))

(* Draws a note, not an annotation; a highlight shows only how wide its text is. *)
AddAnnotation(num, term, type) ==
  Edit("add_annotation", <<num, term>>, num, type \in {"text", "highlight"},
       LAMBDA page : Drawn(page, IF type = "text" THEN {<<"text", term>>} ELSE {<<"shape", "span">>}))

AddTextWatermark(term) ==
  Call("add_text_watermark", <<term>>, TRUE,
       LAMBDA pages : Overlaid([i \in DOMAIN pages |-> Drawn(pages[i], {<<"text", term>>})]))

AddImageWatermark(size, position) ==
  Call("add_image_watermark", <<size>>,
       position \in {"center", "top-left", "top-right", "bottom-left", "bottom-right"},
       LAMBDA pages : Overlaid([i \in DOMAIN pages |-> Pictured(pages[i], size)]))

(* {page} and {total}. Faulty: numbered from the first page that has a footer. *)
Footer_Faulty(i, total, start) == <<"footer", i - start + 1, total>>

Footer(i, total, start) == <<"footer", i, total>>

AddHeadersFooters(term, start) ==
  Call("add_headers_footers", <<term, start>>, TRUE,
       LAMBDA pages : Overlaid([i \in DOMAIN pages |->
         IF i < start THEN pages[i]
         ELSE Drawn(pages[i], {<<"text", term>>, Footer(i, Len(pages), start)})]))

-----------------------------------------------------------------------------
(* markup.py, links.py. Faulty: the page's annotations are replaced.           *)

Annotated_Faulty(pages, num, annot) == [pages EXCEPT ![num + 1].annots = <<annot>>]

Annotated(pages, num, annot) == [pages EXCEPT ![num + 1].annots = Append(@, annot)]

Annotate(op, given, num, accepted, annot) ==
  Call(op, given, InRange(num) /\ accepted, LAMBDA pages : Kept(Annotated(pages, num, annot)))

(* highlight_area, underline_area, strikethrough_area: no text. *)
MarkArea(num, kind) == Annotate("mark_area", <<num, kind>>, num, TRUE, Annot(kind, None))

AddStickyNote(num, term, icon) ==
  Annotate("add_sticky_note", <<num, "Text", term>>, num,
           icon \in {"Comment", "Key", "Note", "Help", "NewParagraph", "Paragraph", "Insert"},
           Annot("Text", term))

AddTextComment(num, term) ==
  Annotate("add_text_comment", <<num, "FreeText", term>>, num, TRUE, Annot("FreeText", term))

AddLink(num, url) == Annotate("add_link", <<num, url>>, num, TRUE, Annot("Link", url))

AddInternalLink(num, to) ==
  Annotate("add_internal_link", <<num, to>>, num, InRange(to),
           [Annot("Link", None) EXCEPT !.to = to + 1])

-----------------------------------------------------------------------------
(* flatten.py: what an annotation shows becomes part of the page. One without   *)
(* an appearance stream, or that cannot be merged, goes and leaves nothing.     *)

Flattened(page, kinds, merged) ==
  LET going == {a \in ToSet(page.annots) : a.kind \in kinds}
      shown == {a \in going : merged /\ a.look}
  IN  [page EXCEPT
         !.drawn  = @ \cup {<<"look", a.kind>> : a \in shown}
                      \cup {<<"text", a.says>> : a \in {a \in shown : a.says # None}},
         !.annots = Only(@, ToSet(page.annots) \ going)]

(* The form is deleted from a catalog that has none. Faulty: it is copied.      *)
Formless_Faulty == [Bare EXCEPT !.form = doc.catalog.form]

Formless == Bare

Flatten(op, kinds) ==
  \E merged \in BOOLEAN :
    Call(op, <<kinds>>, TRUE, LAMBDA pages :
         Written([i \in DOMAIN pages |-> Flattened(pages[i], kinds, merged)], Fresh, Formless))

FlattenForms       == Flatten("flatten_forms", {"Widget"})
FlattenAnnotations == Flatten("flatten_annotations", Kinds \ {"Widget"})
FlattenAll         == Flatten("flatten_all", Kinds)

-----------------------------------------------------------------------------
(* forms.py. A radio button is drawn unselected whatever its default.           *)

FieldWidget(field) ==
  Widget(field.name, field.type,
         CASE field.type = "radio"    -> None
           [] field.type = "dropdown" -> IF field.default # None THEN field.default
                                         ELSE field.options[1]
           [] OTHER -> field.default,
         None)

Creatable(field) ==
  /\ field.type \in {"text", "checkbox", "dropdown", "radio"}
  /\ field.type \in {"dropdown", "radio"} => field.options # <<>>

(* A function that reads no document and makes one. *)
Create(op, given, accepted, document) ==
  /\ Called(op, given, accepted)
  /\ doc' = IF accepted THEN document ELSE doc
  /\ sealed' = sealed

Reportlab(pages, catalog) == Written(pages, [Fresh EXCEPT !["title"] = Untitled], catalog)

CreateForm(fields) ==
  LET ok == fields # <<>> /\ \A k \in DOMAIN fields : Creatable(fields[k]) IN
  Create("create_form", fields, ok,
    Reportlab(<<[drawn |-> {}, images |-> <<>>,
                 annots |-> IF ok THEN [k \in DOMAIN fields |-> FieldWidget(fields[k])] ELSE <<>>]>>,
              [Bare EXCEPT !.form = {fields[k].name : k \in DOMAIN fields}]))

Filled(annot, data) ==
  IF annot.kind = "Widget" /\ annot.field \in DOMAIN data
  THEN [annot EXCEPT !.says = data[annot.field]] ELSE annot

(* The widgets of the writer's first page are filled. The form in its catalog is *)
(* the reader's, whose fields nobody has filled. That entry is added under a     *)
(* plain str: whether pypdf writes it or raises is its affair.                   *)
FillForm(data) ==
  \E written \in BOOLEAN :
    Call("fill_form", data, doc.catalog.form # {} /\ written, LAMBDA pages :
      Written([pages EXCEPT ![1].annots = [k \in DOMAIN @ |-> Filled(@[k], data)]],
              Fresh, [Bare EXCEPT !.form = doc.catalog.form, !.apart = FormFields(doc)]))

-----------------------------------------------------------------------------
(* compressor.py, optimizer.py                                                  *)

(* What becomes of an image as a JPEG of any size; one of 1 bit stays. *)
Recompressed(image) ==
  {image} \cup IF image.bits = 1 THEN {}
               ELSE {[size |-> s, bits |-> 8] : s \in {s \in Sizes : s < image.size}}

Recompressions(page) ==
  {[page EXCEPT !.images = images] :
     images \in {images \in [DOMAIN page.images -> UNION {Recompressed(page.images[k]) : k \in DOMAIN page.images}] :
                   \A k \in DOMAIN images : images[k] \in Recompressed(page.images[k])}}

(* A replaced image gets plain ints for its length and depth: whether pypdf    *)
(* accepts them or raises is its affair.                                        *)
Compress(quality) ==
  \E pages \in {pages \in [DOMAIN doc.pages -> UNION {Recompressions(doc.pages[i]) : i \in DOMAIN doc.pages}] :
                  \A i \in DOMAIN pages : pages[i] \in Recompressions(doc.pages[i])},
     raised \in BOOLEAN :
    /\ raised => pages # doc.pages
    /\ Call("compress", <<>>, quality \in {"low", "medium", "high"} /\ ~ raised, LAMBDA copies :
         Kept([i \in DOMAIN copies |-> [copies[i] EXCEPT !.images = pages[i].images]]))

Optimize(remove_metadata) ==
  Call("optimize", <<remove_metadata>>, TRUE, LAMBDA pages :
       IF remove_metadata THEN Written(pages, Fresh, Bare) ELSE Kept(pages))

(* remove_unused_objects and linearize differ in the layout of the file only.  *)
Rewrite(op) == Call(op, <<>>, TRUE, Kept)

-----------------------------------------------------------------------------
(* creator.py. Bound: a text fits on one page.                                  *)

Page(drawn, images) == [drawn |-> drawn, images |-> images, annots |-> <<>>]

(* None for the empty string. *)
FromText(term) ==
  Create("from_text", <<term>>, term # None, Reportlab(<<Page({<<"text", term>>}, <<>>)>>, Bare))

(* loads: it names something that is not embedded. from_markdown ends here.    *)
FromHtml(term, loads) ==
  Create("from_html", <<term, loads>>, term # None /\ ~ loads,
         Written(<<Page({<<"text", term>>}, <<>>)>>, Fresh, Bare))

(* None for a path where there is no file: then nothing is saved. *)
FromImages(sizes) ==
  LET ok == sizes # <<>> /\ \A k \in DOMAIN sizes : sizes[k] # None IN
  Create("from_images", sizes, ok, Reportlab(
    IF ok THEN [k \in DOMAIN sizes |->
                  Page({<<"image", sizes[k]>>}, <<[size |-> sizes[k], bits |-> 8]>>)]
    ELSE <<Page({}, <<>>)>>, Bare))

(* A text element names the placeholders it has; all are resolved or none is.  *)
Resolved(names, data) ==
  IF names \subseteq DOMAIN data THEN {<<"text", data[n]>> : n \in names}
  ELSE {<<"placeholders", names>>}

Painted(e, data) ==
  CASE e.type = "text"  -> Resolved(e.names, data)
    [] e.type = "image" -> {<<"image", e.size>>}
    [] OTHER            -> {<<"shape", e.type>>}

Laid(elements, data) ==
  Page(UNION {Painted(elements[k], data) : k \in DOMAIN elements},
       LET pictures == Only(elements, {e \in ToSet(elements) : e.type = "image"})
       IN  [k \in DOMAIN pictures |-> [size |-> pictures[k].size, bits |-> 8]])

FromTemplate(template, data) ==
  LET ok == /\ template # <<>>
            /\ \A i \in DOMAIN template : \A e \in ToSet(template[i]) :
                 /\ e.type \in {"text", "image", "rect", "line"}
                 /\ e.type = "image" => e.size # None
  IN  Create("from_template", <<template, data>>, ok, Reportlab(
        IF ok THEN [i \in DOMAIN template |-> Laid(template[i], data)]
        ELSE <<Page({}, <<>>)>>, Bare))

=============================================================================
