------------------------------ MODULE Contents ------------------------------
(***************************************************************************)
(* What a document holds besides the order of its pages: drawings, images, *)
(* annotations, form fields, attachments, metadata, language, encryption.  *)
(* A caller works on one file, each call on what the last has written; a   *)
(* refused call raises. This module has the document and the functions of  *)
(* core/ that only read it; Edits and Safeguards have those that write.    *)
(*                                                                         *)
(* pypdf and PyMuPDF are modelled by what the functions use of them: a     *)
(* writer filled by add_page has the pages with their annotations and      *)
(* nothing of the catalog or the metadata but what it is given.            *)
(***************************************************************************)
EXTENDS Integers, Sequences, FiniteSets, SequencesExt

CONSTANTS
  Terms,       \* what a text may say; ASCII, stored as its bytes
  Untitled,    \* the title of what reportlab writes
  Tool,        \* the producer pypdf and reportlab name: themselves
  None,
  Names,       \* of form fields and of attached files
  Passwords,   \* not empty
  Sizes,       \* of the data of an image, as get_data gives it
  Initial,     \* documents that come from elsewhere
  MaxCalls     \* bound: calls

ASSUME NoneAssumption == None \notin Terms \cup {Untitled, Tool} \cup Names \cup Passwords
ASSUME SizesAssumption == Sizes \subseteq Nat /\ MaxCalls \in Nat

VARIABLES
  doc,     \* the file as last written
  last,    \* the last call: its name, what it was given, whether it returned
  sealed,  \* history: the drawings of each page when sign wrote them
  gone,    \* history: what redactions removed, as long as no call is given a text
  calls

vars == <<doc, last, sealed, gone, calls>>

Texts   == Terms \cup {Untitled, Tool}
Markups == {"Highlight", "Underline", "StrikeOut", "Text", "FreeText"}
Kinds   == Markups \cup {"Link", "Widget"}
Types   == {"text", "checkbox", "dropdown", "radio", "signature"}   \* of a field
Keys    == {"title", "custom", "signer", "producer"}   \* of the Info dictionary

(* says: /Contents, the URI or the field's value; to: the page an internal     *)
(* link leads to, 0 when it leads nowhere; look: it has an appearance stream.  *)
Annotations ==
  [kind : Kinds, says : Texts \cup {None}, default : Texts \cup {None}, to : Nat,
   field : Names \cup {None}, type : Types \cup {None}, look : BOOLEAN]

Annot(kind, says) ==
  [kind |-> kind, says |-> says, default |-> None, to |-> 0,
   field |-> None, type |-> None, look |-> FALSE]

Widget(name, type, value, default) ==
  [Annot("Widget", value) EXCEPT
     !.default = default, !.field = name, !.type = type, !.look = TRUE]

Images == [size : Sizes, bits : {1, 8}]

(* What can be drawn on a page. A footer has the number of its page and of all. *)
Drawables ==
  ({"text"} \X Texts) \cup ({"image"} \X Sizes) \cup ({"look"} \X Kinds)
    \cup ({"shape"} \X {"rect", "circle", "line", "span"})
    \cup ({"footer"} \X Nat \X Nat) \cup ({"placeholders"} \X SUBSET Names)

PageRecords ==
  [drawn : SUBSET Drawables, images : Seq(Images), annots : Seq(Annotations)]

(* The fields of a form are its widgets on the pages, the same objects, or       *)
(* apart: objects of their own that only the form still leads to.               *)
FieldRecords ==
  [name : Names, type : Types \cup {None}, value : Texts \cup {None}, default : Texts \cup {None}]

Catalogs ==
  [form : SUBSET Names, apart : SUBSET FieldRecords, attached : SUBSET Names,
   outline : Texts \cup {None}, lang : Texts \cup {None}, display : BOOLEAN,
   tagged : BOOLEAN, xmp : Texts \cup {None}]

Infos == [Keys -> Texts \cup {None}]
Locks == {<<>>} \cup (Passwords \X Passwords)   \* user and owner password

DocumentRecords ==
  [pages : Seq(PageRecords) \ {<<>>}, info : Infos, catalog : Catalogs, lock : Locks]

ASSUME InitialAssumption == Initial \subseteq DocumentRecords

TypeOK ==
  /\ doc \in DocumentRecords
  /\ last.ok \in BOOLEAN
  /\ calls \in 0 .. MaxCalls

Drawings(pages) == [i \in DOMAIN pages |-> pages[i].drawn]

(* A document that is signed is as sign wrote it. *)
Init ==
  /\ doc \in Initial
  /\ last = [op |-> "none", given |-> <<>>, ok |-> TRUE]
  /\ sealed = IF doc.info["signer"] # None THEN Drawings(doc.pages) ELSE <<>>
  /\ gone = {}
  /\ calls = 0

-----------------------------------------------------------------------------
(* The elements of a sequence that are in a set, in their order.                *)
Only(seq, set) ==
  LET only[n \in 0 .. Len(seq)] ==
        IF n = 0 THEN <<>>
        ELSE IF seq[n] \in set THEN Append(only[n - 1], seq[n]) ELSE only[n - 1]
  IN only[Len(seq)]

(* A definition whose name ends in _Faulty is the one after it with a          *)
(* plausible mistake; nothing uses it, the properties are tried against it.   *)

NoInfo  == [k \in Keys |-> None]
Bare    == [form |-> {}, apart |-> {}, attached |-> {}, outline |-> None, lang |-> None,
            display |-> FALSE, tagged |-> FALSE, xmp |-> None]

(* A file a new writer is filled with and writes. *)
Written(pages, info, catalog) ==
  [pages |-> pages, info |-> info, catalog |-> catalog, lock |-> <<>>]

(* A new writer names itself as the producer; copied metadata goes over that. *)
Fresh == [NoInfo EXCEPT !["producer"] = Tool]
Over(info, new) == [k \in Keys |-> IF new[k] = None THEN info[k] ELSE new[k]]

(* Most functions copy the pages and the Info dictionary, and no more. *)
Kept(pages) == Written(pages, Over(Fresh, doc.info), Bare)

(* What becomes of the destination of an internal link when its page is copied *)
(* to another writer is pypdf's affair: it may be lost.                        *)
Copies(pages) ==
  {pages,
   [i \in DOMAIN pages |->
      [pages[i] EXCEPT !.annots = [k \in DOMAIN @ |-> [@[k] EXCEPT !.to = 0]]]]}

Redactions == {"redact_text", "search_and_redact"}

(* The calls that are given no text. Some of them put texts elsewhere: what a    *)
(* field says on the page, its default in the field.                            *)
Textless ==
  Redactions \cup
    {"redact_area", "add_image", "add_shape", "add_image_watermark", "mark_area",
     "add_internal_link", "flatten_forms", "flatten_annotations", "flatten_all", "compress",
     "optimize", "remove_unused_objects", "linearize", "remove_metadata", "remove_attachments",
     "set_title_display", "encrypt", "decrypt"}

(* Every writer names Tool, so that is not counted as gone. *)
Called(op, given, ok) ==
  /\ calls < MaxCalls /\ calls' = calls + 1
  /\ last' = [op |-> op, given |-> given, ok |-> ok]
  /\ gone' = (IF op \in Textless THEN gone ELSE {})
               \cup IF ok /\ op \in Redactions THEN given[1] \ {Tool} ELSE {}

(* A call that reads the file and, unless refused, replaces it. No reader      *)
(* gives the pages of an encrypted file.                                       *)
Call(op, given, accepted, Result(_)) ==
  /\ Called(op, given, accepted /\ doc.lock = <<>>)
  /\ \E pages \in Copies(doc.pages) : doc' = IF last'.ok THEN Result(pages) ELSE doc
  /\ sealed' = sealed

InRange(num) == num + 1 \in DOMAIN doc.pages   \* callers count pages from 0

AnnotsOf(pages) == UNION {ToSet(pages[i].annots) : i \in DOMAIN pages}

-----------------------------------------------------------------------------
(* What the reading functions tell of a document that is not encrypted.        *)

GetMetadata(d) ==
  [title    |-> d.info["title"],
   producer |-> d.info["producer"],
   custom   |-> {d.info[k] : k \in {"custom", "signer"}} \ {None}]

ListAttachments(d) == d.catalog.attached
ExtractAttachments(d) == [ok |-> d.catalog.attached # {}, files |-> d.catalog.attached]

(* The page a destination is resolved to, numbered from 1: the one itself when *)
(* the reader gives the same object twice, else the first that compares equal. *)
Resolutions(d, to) ==
  IF to = 0 THEN {0}
  ELSE {to, CHOOSE i \in DOMAIN d.pages :
              /\ d.pages[i] = d.pages[to]
              /\ \A j \in 1 .. i - 1 : d.pages[j] # d.pages[to]}

ExtractLinks(d) ==
  UNION {UNION {{[page |-> i, url |-> a.says, to |-> to] : to \in Resolutions(d, a.to)} :
                  a \in {a \in ToSet(d.pages[i].annots) : a.kind = "Link"}} :
           i \in DOMAIN d.pages}

FormWidgets(d) == {a \in AnnotsOf(d.pages) : a.kind = "Widget" /\ a.field \in d.catalog.form}

FieldOf(a) == [name |-> a.field, type |-> a.type, value |-> a.says, default |-> a.default]

(* What /Fields of the form leads to. *)
FormFields(d) ==
  IF d.catalog.apart # {} THEN d.catalog.apart ELSE {FieldOf(a) : a \in FormWidgets(d)}

ListFormFields(d) == {[name |-> f.name, type |-> f.type, value |-> f.value] : f \in FormFields(d)}

ExtractFormData(d) == {<<f.name, f.value>> : f \in FormFields(d)}

GetLanguage(d) == d.catalog.lang
IsEncrypted(d) == d.lock # <<>>
Signed(d)      == d.info["signer"] # None   \* signed, as verify tells

ExtractText(d, i) == {t \in Texts : <<"text", t>> \in d.pages[i].drawn}
SearchText(d, term) == {i \in DOMAIN d.pages : term \in ExtractText(d, i)}

CountImages(d) == [i \in DOMAIN d.pages |-> Len(d.pages[i].images)]

Total(counts) ==
  LET total[n \in 0 .. Len(counts)] == IF n = 0 THEN 0 ELSE total[n - 1] + counts[n]
  IN  total[Len(counts)]

(* Files are named after the page and a counter that runs over all pages asked *)
(* for; an image that cannot be decoded is passed over and keeps its number.   *)
ExtractImages(d, nums) ==
  LET before(k) == Total([m \in 1 .. k - 1 |-> CountImages(d)[nums[m]]]) IN
  [ok    |-> ToSet(nums) \subseteq DOMAIN d.pages,
   files |-> UNION {{<<nums[k], before(k) + j>> : j \in 1 .. CountImages(d)[nums[k]]} :
                      k \in DOMAIN nums}]

Report(d) ==
  [has_metadata    |-> d.info["title"] # None \/ d.info["producer"] # None,
   image_count     |-> Total(CountImages(d)),
   has_forms       |-> d.catalog.form # {},
   has_annotations |-> AnnotsOf(d.pages) # {}]

PdfInfo(d) ==
  [page_count |-> Len(d.pages),
   has_images |-> \E i \in DOMAIN d.pages : d.pages[i].images # <<>>,
   has_forms  |-> d.catalog.form # {},
   title      |-> d.info["title"],
   encrypted  |-> IsEncrypted(d)]

(* check_accessibility *)
Passed(d) ==
  {c \in {"language", "title", "displayed", "tagged", "bookmarks"} :
     CASE c = "language"  -> d.catalog.lang # None
       [] c = "title"     -> d.info["title"] # None
       [] c = "displayed" -> d.info["title"] # None /\ d.catalog.display
       [] c = "tagged"    -> d.catalog.tagged
       [] c = "bookmarks" -> d.catalog.outline # None}

Issues(d) ==
  {c \in {"language", "title", "displayed", "tagged", "bookmarks"} \ Passed(d) :
     /\ c = "displayed" => d.info["title"] # None
     /\ c = "bookmarks" => Len(d.pages) > 1}

Score(d) ==
  LET n == Cardinality(Passed(d)) IN
  IF n >= 4 THEN "good" ELSE IF n >= 2 THEN "fair" ELSE "poor"

=============================================================================
