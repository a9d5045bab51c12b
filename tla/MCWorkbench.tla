----------------------------- MODULE MCWorkbench -----------------------------
(* Documents to begin with: a form whose second field is on page 2, with all    *)
(* a catalog can have; two equal pages; a signature field; a file sign wrote.     *)
EXTENDS Workbench

MCPageNums == -1 .. 1

Elsewhere == [title |-> "name", custom |-> None, signer |-> None, producer |-> None]

FormDocument ==
  [pages |-> <<
     [drawn  |-> {<<"text", "name">>},
      images |-> <<[size |-> 2, bits |-> 8]>>,
      annots |-> <<Widget("a", "text", "name", None),
                   [Annot("Link", None) EXCEPT !.to = 2]>>],
     [drawn  |-> {<<"text", "word">>},
      images |-> <<[size |-> 2, bits |-> 1]>>,
      annots |-> <<Widget("b", "checkbox", None, "word")>>]>>,
   info |-> Elsewhere,
   catalog |-> [form |-> {"a", "b"}, apart |-> {}, attached |-> {"a"}, outline |-> "word",
                lang |-> "word", display |-> TRUE, tagged |-> TRUE, xmp |-> "name"],
   lock |-> <<>>]

Blank == [drawn |-> {}, images |-> <<>>, annots |-> <<>>]

BlankDocument == Written(<<Blank, Blank>>, NoInfo, Bare)

SignatureDocument ==
  [Written(<<[drawn |-> {<<"text", "name">>}, images |-> <<>>,
              annots |-> <<Widget("a", "signature", None, None)>>]>>, NoInfo, Bare)
     EXCEPT !.catalog.form = {"a"}]

SignedDocument ==
  Written(<<[Blank EXCEPT !.drawn = {<<"text", "name">>}, !.annots = <<Annot("FreeText", "word")>>]>>,
          [Elsewhere EXCEPT !["signer"] = "name"], Bare)

MCInitial == {FormDocument, BlankDocument, SignatureDocument, SignedDocument}

Field(name, type, default, options) ==
  [name |-> name, type |-> type, default |-> default, options |-> options]

MCFieldLists ==
  {<<>>, <<Field("a", "text", "name", <<>>), Field("b", "radio", "word", <<"word">>)>>,
   <<Field("a", "dropdown", None, <<"word">>)>>, <<Field("a", "dropdown", None, <<>>)>>,
   <<Field("b", "other", None, <<>>)>>}

MCFills == {[a |-> "word", b |-> "name"]}

Element(type, names, size) == [type |-> type, names |-> names, size |-> size]

MCTemplates ==
  {[pages |-> <<>>, data |-> [a |-> "name"]],
   [pages |-> <<<<Element("text", {"a"}, None), Element("text", {"a", "b"}, None)>>,
                <<Element("image", {}, 2), Element("rect", {}, None)>>>>,
    data |-> [a |-> "name"]],
   [pages |-> <<<<Element("image", {}, None)>>>>, data |-> [a |-> "name"]],
   [pages |-> <<<<Element("other", {}, None)>>>>, data |-> [a |-> "name"]]}

MCPictures == {<<>>, <<2, 1>>, <<1, None>>}

=============================================================================
