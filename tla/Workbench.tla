------------------------------ MODULE Workbench ------------------------------
(***************************************************************************)
(* Any sequence of calls of Edits and Safeguards on one file, and what     *)
(* must be so after each.                                                   *)
(***************************************************************************)
EXTENDS Edits, Safeguards

CONSTANTS
  PageNums,    \* page numbers as callers give them
  FieldLists,  \* of create_form
  Fills,       \* data of fill_form
  Templates,   \* of from_template, each with its data
  Pictures     \* lists for from_images

Inputs ==
  [fields   |-> Seq([name : Names, type : STRING, default : Texts \cup {None}, options : Seq(Texts)]),
   fill     |-> UNION {[names -> Texts] : names \in SUBSET Names},
   template |-> Seq(Seq([type : STRING, names : SUBSET Names, size : Sizes \cup {None}])),
   pictures |-> Seq(Sizes \cup {None})]

ASSUME InputsAssumption ==
  /\ PageNums \subseteq Int /\ FieldLists \subseteq Inputs.fields
  /\ Fills \subseteq Inputs.fill /\ Pictures \subseteq Inputs.pictures
  /\ \A t \in Templates : t.pages \in Inputs.template /\ t.data \in Inputs.fill

(* A file that comes from elsewhere is whole: a field of its form is drawn by a  *)
(* widget, a form that is not empty has the field of every widget, fields apart  *)
(* are those of the form, and a link leads to a page of the file or nowhere.      *)
Whole(d) ==
  /\ \A name \in d.catalog.form :
       \E a \in AnnotsOf(d.pages) : a.kind = "Widget" /\ a.field = name
  /\ d.catalog.apart # {} => {f.name : f \in d.catalog.apart} = d.catalog.form
  /\ \A a \in AnnotsOf(d.pages) :
       /\ a.kind = "Widget" /\ d.catalog.form # {} => a.field \in d.catalog.form
       /\ a.kind = "Link" => a.to \in {0} \cup DOMAIN d.pages

ASSUME InitialWhole == \A d \in Initial : Whole(d)

Editing ==
  \/ \E num \in PageNums :
       \/ \E term \in Terms : AddText(num, term)
       \/ \E term \in Terms, type \in {"text", "highlight", "other"} : AddAnnotation(num, term, type)
       \/ \E size \in Sizes : AddImage(num, size)
       \/ \E shape \in {"rect", "other"} : AddShape(num, shape)
  \/ \E term \in Terms : AddTextWatermark(term)
  \/ \E size \in Sizes, position \in {"center", "other"} : AddImageWatermark(size, position)
  \/ \E term \in Terms, start \in 1 .. 2 : AddHeadersFooters(term, start)

Annotating ==
  \E num \in PageNums :
    \/ \E kind \in {"Highlight", "Underline", "StrikeOut"} : MarkArea(num, kind)
    \/ \E term \in Terms, icon \in {"Note", "other"} : AddStickyNote(num, term, icon)
    \/ \E term \in Terms : AddTextComment(num, term)
    \/ \E url \in Terms : AddLink(num, url)
    \/ \E to \in PageNums : AddInternalLink(num, to)

Flattening == FlattenForms \/ FlattenAnnotations \/ FlattenAll

FillingForms ==
  \/ \E fields \in FieldLists : CreateForm(fields)
  \/ \E data \in Fills : FillForm(data)

Shrinking ==
  \/ \E quality \in {"low", "other"} : Compress(quality)
  \/ \E remove_metadata \in BOOLEAN : Optimize(remove_metadata)
  \/ \E op \in {"remove_unused_objects", "linearize"} : Rewrite(op)

Creating ==
  \/ \E term \in Terms \cup {None} : FromText(term)
  \/ \E term \in Terms \cup {None}, loads \in BOOLEAN : FromHtml(term, loads)
  \/ \E sizes \in Pictures : FromImages(sizes)
  \/ \E t \in Templates : FromTemplate(t.pages, t.data)

Describing ==
  \/ \E title, custom \in Terms \cup {None} : SetMetadata(title, custom)
  \/ RemoveMetadata
  \/ \E name \in Names, exists \in BOOLEAN : AddAttachment(name, exists)
  \/ RemoveAttachments
  \/ \E tag \in Terms \cup {None} : SetLanguage(tag)
  \/ \E display \in BOOLEAN : SetTitleDisplay(display)

Protecting ==
  \/ \E user \in Passwords, owner \in Passwords \cup {None} : Encrypt(user, owner)
  \/ \E password \in Passwords : Decrypt(password)
  \/ \E signer \in Terms, keys \in BOOLEAN : Sign(signer, keys)

Redacting ==
  \/ \E term \in Terms, targets \in {None, {1}, {2}, {1, 2}} : RedactText(term, targets)
  \/ \E patterns \in SUBSET Terms \ {{}} : SearchAndRedact(patterns)
  \/ \E num \in PageNums, visible \in BOOLEAN : RedactArea(num, visible)

Next ==
  \/ Editing \/ Annotating \/ Flattening \/ FillingForms \/ Shrinking \/ Creating
  \/ Describing \/ Protecting \/ Redacting

Spec == Init /\ [][Next]_vars

-----------------------------------------------------------------------------
Returned(op) == last.op = op /\ last.ok

(* What can be learnt of a text from a file: by reading its pages, metadata,     *)
(* links, bookmarks, language and form, or by looking at its annotations.        *)
Tells(d, text) ==
  \/ SearchText(d, text) # {}
  \/ text \in {GetMetadata(d).title, GetMetadata(d).producer} \cup GetMetadata(d).custom
  \/ \E link \in ExtractLinks(d) : link.url = text
  \/ \E f \in ListFormFields(d) : f.value = text
  \/ text \in {GetLanguage(d), d.catalog.outline}
  \/ \E a \in AnnotsOf(d.pages) : a.says = text

(* What redact_text and search_and_redact have removed and verified is not told   *)
(* by the file any more, nor by what later calls make of it that are not given a  *)
(* text: no flattening, reset field, copied form, metadata or decryption brings   *)
(* it back. The verification of bytes, pages and metadata suffices for that.      *)
RedactedGone == \A text \in gone : ~ Tells(doc, text)

(* While verify tells that a file is signed, its pages show what they showed    *)
(* when sign wrote it: everything that draws on a page drops the signature.     *)
SignatureCoversDrawing ==
  Signed(doc) /\ doc.lock = <<>> => sealed = Drawings(doc.pages)

(* The inductive invariant: encryption keeps a signature and what it covers,     *)
(* every call leaves a whole file, and what is gone is stored nowhere, not in a   *)
(* default or a field apart either, from where a later call could bring it back.  *)
Sealed == Signed(doc) => sealed = Drawings(doc.pages)

Stored(d) == InfoTexts(d) \cup PageTexts(d) \cup RawTexts(d)

Removed == gone \subseteq Terms \ {Tool} /\ gone \cap Stored(doc) = {}

IInv == TypeOK /\ Sealed /\ Removed /\ Whole(doc)

(* No call loses, adds or reorders pages, and none but redaction takes away     *)
(* from a page what is drawn there, nor but flattening an annotation; only      *)
(* fill_form changes what an annotation says, and only of the widgets it is given.*)
Lossy == {"redact_text", "search_and_redact", "redact_area"}
Makers == {"create_form", "from_text", "from_html", "from_images", "from_template"}
Flats == {"flatten_forms", "flatten_annotations", "flatten_all"}

Content(a) == <<a.kind, a.says, a.default, a.field, a.type>>

PageKept(before, after) ==
  /\ before.drawn \subseteq after.drawn
  /\ last'.op \notin Flats =>
       \A k \in DOMAIN before.annots :
         \/ Content(after.annots[k]) = Content(before.annots[k])
         \/ last'.op = "fill_form" /\ before.annots[k].field \in DOMAIN last'.given
  /\ Len(after.images) >= Len(before.images)

PagesSurvive ==
  [][last'.op \notin Makers =>
       /\ DOMAIN doc'.pages = DOMAIN doc.pages
       /\ last'.op \notin Lossy =>
            \A i \in DOMAIN doc.pages : PageKept(doc.pages[i], doc'.pages[i])]_vars

-----------------------------------------------------------------------------
(* What a call was given is what the reading functions then tell.               *)

MetadataReadsBack ==
  /\ Returned("set_metadata") =>
       /\ last.given[1] # None => GetMetadata(doc).title = last.given[1]
       /\ last.given[2] # None => last.given[2] \in GetMetadata(doc).custom
  /\ Returned("remove_metadata") =>
       GetMetadata(doc).custom = {} /\ ~ Report(doc).has_metadata
  /\ Returned("set_language") => GetLanguage(doc) = last.given[1]
  /\ Returned("add_attachment") => ExtractAttachments(doc) = [ok |-> TRUE, files |-> {last.given[1]}]

(* Pages are given from 0 and reported from 1; an internal link is reported to  *)
(* lead to a page that is, or looks exactly like, the one that was meant.       *)
LinksReadBack ==
  /\ Returned("add_link") =>
       [page |-> last.given[1] + 1, url |-> last.given[2], to |-> 0] \in ExtractLinks(doc)
  /\ Returned("add_internal_link") =>
       \E link \in ExtractLinks(doc) :
         link.page = last.given[1] + 1 /\ link.url = None /\ link.to = last.given[2] + 1
  /\ \A link \in ExtractLinks(doc) : link.to \in {0} \cup DOMAIN doc.pages

FormsReadBack ==
  /\ Returned("create_form") =>
       \A k \in DOMAIN last.given :
         \E f \in ListFormFields(doc) : f.name = last.given[k].name /\ f.type = last.given[k].type
  /\ last.op \in Flats \cup {"optimize"} /\ last.ok => ListFormFields(doc) = {}

(* The fields that are listed are those of the form, and none that no page has   *)
(* any more: flattening takes the fields from the form, and no function that     *)
(* drops, copies or fills leaves it dangling.                                    *)
FieldsDrawn ==
  /\ {f.name : f \in ListFormFields(doc)} = doc.catalog.form
  /\ \A name \in doc.catalog.form : \E a \in AnnotsOf(doc.pages) : a.kind = "Widget" /\ a.field = name


(* A page number below 0 is accepted by editor.py and draws nothing.             *)
TextsReadBack ==
  Returned("add_text") /\ last.given[1] >= 0 =>
    last.given[1] + 1 \in SearchText(doc, last.given[2])

FootersNumbered ==
  Returned("add_headers_footers") =>
    \A i \in DOMAIN doc.pages :
      i >= last.given[2] => /\ <<"footer", i, Len(doc.pages)>> \in doc.pages[i].drawn
                            /\ i \in SearchText(doc, last.given[1])

PicturesInOrder ==
  Returned("from_images") =>
    /\ PdfInfo(doc).page_count = Len(last.given) /\ PdfInfo(doc).has_images
    /\ CountImages(doc) = [k \in DOMAIN last.given |-> 1]

(* A text is drawn with all its placeholders resolved or with none.             *)
TemplatesResolved ==
  Returned("from_template") =>
    \A i \in DOMAIN doc.pages : \A what \in doc.pages[i].drawn :
      what[1] = "placeholders" => ~ what[2] \subseteq DOMAIN last.given[2]

(* The password that was given opens what encrypt wrote.                        *)
LocksOpen ==
  Returned("encrypt") => IsEncrypted(doc) /\ Opens(last.given[1])

(* The reports agree with each other and with the functions that list.          *)
ReportsAgree ==
  LET report == Report(doc) IN
  /\ report.image_count = 0 <=> ~ PdfInfo(doc).has_images
  /\ ListFormFields(doc) # {} => report.has_forms /\ report.has_annotations
  /\ ExtractLinks(doc) # {} => report.has_annotations
  /\ Issues(doc) = {} => Score(doc) = "good"
  /\ Score(doc) = "good" => Cardinality(Issues(doc)) <= 1
  /\ \A i, j \in DOMAIN doc.pages :
       Cardinality(ExtractImages(doc, <<i, j>>).files) = CountImages(doc)[i] + CountImages(doc)[j]

(* What was set, linked, drawn or locked by a call is what the reading  *)
(* functions of the library then tell, and their reports do not contradict.     *)
ReadsBack ==
  /\ MetadataReadsBack /\ LinksReadBack /\ FormsReadBack /\ FieldsDrawn /\ TextsReadBack
  /\ FootersNumbered /\ PicturesInOrder /\ TemplatesResolved /\ LocksOpen /\ ReportsAgree

=============================================================================
