----------------------------- MODULE Safeguards -----------------------------
(***************************************************************************)
(* The functions of core/ that change what surrounds the pages: metadata,  *)
(* attachments, language, encryption, signature, and redaction, which      *)
(* removes a text from the pages and everything it could be left in.       *)
(***************************************************************************)
EXTENDS Contents

-----------------------------------------------------------------------------
(* metadata.py, attachments.py, accessibility.py                                *)

(* None: not given, stays as it is. *)
SetMetadata(title, custom) ==
  Call("set_metadata", <<title, custom>>, TRUE, LAMBDA pages :
       Written(pages, Over(Over(Fresh, doc.info),
                           [NoInfo EXCEPT !["title"] = title, !["custom"] = custom]), Bare))

RemoveMetadata ==
  Call("remove_metadata", <<>>, TRUE, LAMBDA pages : Written(pages, NoInfo, Bare))

(* Files attached before are not copied to the new writer. *)
AddAttachment(name, exists) ==
  Call("add_attachment", <<name>>, exists, LAMBDA pages :
       [Kept(pages) EXCEPT !.catalog.attached = {name}])

(* The catalog they are deleted from is that of a new writer. *)
RemoveAttachments == Call("remove_attachments", <<>>, TRUE, Kept)

(* None for a blank tag. *)
SetLanguage(tag) ==
  Call("set_language", <<tag>>, tag # None, LAMBDA pages :
       [Kept(pages) EXCEPT !.catalog.lang = tag])

SetTitleDisplay(display) ==
  Call("set_title_display", <<display>>, TRUE, LAMBDA pages :
       [Kept(pages) EXCEPT !.catalog.display = display])

-----------------------------------------------------------------------------
(* encryption.py                                                                *)

(* None: the owner's password is the user's. Faulty: it is left out. *)
Owner_Faulty(user, owner) == owner

Owner(user, owner) == IF owner = None THEN user ELSE owner

Encrypt(user, owner) ==
  Call("encrypt", <<user, owner>>, TRUE, LAMBDA pages :
       [Kept(pages) EXCEPT !.lock = <<user, Owner(user, owner)>>])

Opens(password) == doc.lock # <<>> /\ password \in ToSet(doc.lock)

Decrypt(password) ==
  /\ Called("decrypt", <<password>>, Opens(password))
  /\ \E pages \in Copies(doc.pages) : doc' = IF last'.ok THEN Kept(pages) ELSE doc
  /\ sealed' = sealed

-----------------------------------------------------------------------------
(* signer.py. The signature is over the file before the appearance is drawn    *)
(* and travels in the metadata; what was there is not copied.                   *)

Signature(signer) == [Fresh EXCEPT !["signer"] = signer]

(* keys: key and certificate exist and load. *)
Sign(signer, keys) ==
  LET n == Len(doc.pages) IN
  /\ Called("sign", <<signer>>, keys /\ doc.lock = <<>>)
  /\ \E pages \in Copies(doc.pages) :
       LET signed == [pages EXCEPT ![n].drawn = @ \cup {<<"text", signer>>}] IN
       IF last'.ok
       THEN /\ doc' = Written(signed, Signature(signer), Bare)
            /\ sealed' = Drawings(signed)
       ELSE UNCHANGED <<doc, sealed>>

-----------------------------------------------------------------------------
(* redaction.py works with PyMuPDF on the document itself: the catalog stays.   *)

(* Only signature fields are looked for, not what sign leaves in the metadata. *)
SignatureField(d) ==
  \E a \in AnnotsOf(d.pages) : a.kind = "Widget" /\ a.type = "signature"

(* A rectangle covers what else is drawn, the images and the links under it;    *)
(* "wide" chooses between nothing and all that.                                 *)
Redacted(page, terms, wide) ==
  LET found == {<<"text", t>> : t \in terms} IN
  IF ~ wide \/ found \cap page.drawn = {}
  THEN [page EXCEPT !.drawn = @ \ found]
  ELSE [drawn  |-> {what \in page.drawn \ found : what[1] = "text"},
        images |-> <<>>,
        annots |-> Only(page.annots, {a \in ToSet(page.annots) : a.kind # "Link"})]

(* Attachments and metadata go, widgets return to their defaults; bookmarks,    *)
(* language, the texts of annotations and fields apart are left.                *)
Reset(annot) == IF annot.kind = "Widget" THEN [annot EXCEPT !.says = annot.default] ELSE annot

Scrubbed(pages) ==
  Written([i \in DOMAIN pages |->
             [pages[i] EXCEPT !.annots = [k \in DOMAIN @ |-> Reset(@[k])]]],
          NoInfo, [doc.catalog EXCEPT !.attached = {}, !.xmp = None])

(* What the bytes of a file show: page contents are compressed, the strings of *)
(* annotations and of the catalog are not.                                      *)
RawTexts(d) ==
  (UNION {{a.says, a.default} : a \in AnnotsOf(d.pages)})
    \cup (UNION {{f.value, f.default} : f \in d.catalog.apart})
    \cup {d.catalog.outline, d.catalog.lang}

PageTexts(d) == UNION {ExtractText(d, i) : i \in DOMAIN d.pages}

InfoTexts(d) == {d.info[k] : k \in Keys} \cup {d.catalog.xmp}

(* Faulty: the bytes are not searched. *)
VerifyRedaction_Faulty(d, terms) ==
  d.catalog.attached = {} /\ terms \cap (InfoTexts(d) \cup PageTexts(d)) = {}

VerifyRedaction(d, terms) ==
  d.catalog.attached = {} /\ terms \cap (InfoTexts(d) \cup PageTexts(d) \cup RawTexts(d)) = {}

(* The output is written before it is verified: a failure leaves it there.      *)
Finish(op, given, pages, terms) ==
  /\ doc' = Scrubbed(pages)
  /\ Called(op, given, VerifyRedaction(Scrubbed(pages), terms))
  /\ sealed' = sealed

Refuse(op, given) == Called(op, given, FALSE) /\ UNCHANGED <<doc, sealed>>

Redactable == doc.lock = <<>> /\ ~ SignatureField(doc)

(* Whether PyMuPDF finds what the appearance of an annotation shows is its      *)
(* affair; it cannot remove it from the page.                                   *)
Shown(i) == {a.says : a \in {a \in ToSet(doc.pages[i].annots) : a.look}}

(* targets: page numbers from 1, None for all pages. *)
RedactText(term, targets) ==
  LET given == <<{term}, targets>>
      pages == IF targets = None THEN DOMAIN doc.pages ELSE targets
  IN  \E wide, shown \in BOOLEAN :
        IF /\ Redactable /\ pages \subseteq DOMAIN doc.pages
           /\ \E i \in pages : term \in ExtractText(doc, i) \cup IF shown THEN Shown(i) ELSE {}
        THEN Finish("redact_text", given,
                    [i \in DOMAIN doc.pages |->
                       IF i \in pages THEN Redacted(doc.pages[i], {term}, wide) ELSE doc.pages[i]],
                    {term})
        ELSE Refuse("redact_text", given)

(* Each page is redacted by what is matched on it. *)
SearchAndRedact(patterns) ==
  \E wide, shown \in BOOLEAN :
    LET matched(i) == patterns \cap (ExtractText(doc, i) \cup IF shown THEN Shown(i) ELSE {})
        forbidden  == UNION {matched(i) : i \in DOMAIN doc.pages}
    IN  IF Redactable /\ forbidden # {}
        THEN Finish("search_and_redact", <<forbidden, patterns>>,
                    [i \in DOMAIN doc.pages |-> Redacted(doc.pages[i], matched(i), wide)], forbidden)
        ELSE Refuse("search_and_redact", <<{}, patterns>>)

(* visible: the rectangle is not empty and meets the page; it covers some of    *)
(* what is drawn there.                                                         *)
RedactArea(num, visible) ==
  IF ~ Redactable \/ ~ InRange(num) \/ ~ visible
  THEN Refuse("redact_area", <<num>>)
  ELSE \E covered \in SUBSET doc.pages[num + 1].drawn :
         Finish("redact_area", <<num>>, [doc.pages EXCEPT ![num + 1].drawn = @ \ covered], {})

=============================================================================
