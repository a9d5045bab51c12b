----------------------------- MODULE Navigation -----------------------------
(***************************************************************************)
(* How a reader finds his way in a document: the bookmarks of core/toc.py  *)
(* and the page labels of core/page_labels.py, as they are written and     *)
(* read back. An outline is the sequence of its items in the order they    *)
(* were added, each with the page it points to and the parent it was added *)
(* to, 0 at top level.                                                     *)
(***************************************************************************)
EXTENDS Integers, Sequences, FiniteSets, SequencesExt

Items == [page : Nat, parent : Nat]

-----------------------------------------------------------------------------
(* add_bookmarks keeps a stack of the items that may still get children.     *)
(* Open is how much of it is left for an entry of that level. Faulty: an     *)
(* item becomes the child of one of its own level.                           *)
Open_Faulty(stack, level) == SelectLastInSeq(stack, LAMBDA top : top.level <= level)

Open(stack, level) == SelectLastInSeq(stack, LAMBDA top : top.level < level)

AddEntry(added, entry) ==
  LET open   == Open(added.stack, entry.level)
      parent == IF open = 0 THEN 0 ELSE added.stack[open].item
  IN [outline |-> Append(added.outline, [page |-> entry.page, parent |-> parent]),
      stack   |-> Append(SubSeq(added.stack, 1, open),
                         [level |-> entry.level, item |-> Len(added.outline) + 1])]

(* Behind the outline the document has, which clone_reader_document_root kept. *)
Bookmarked(outline, entries) ==
  LET added[i \in 0 .. Len(entries)] == IF i = 0 THEN [outline |-> outline, stack |-> <<>>]
                                         ELSE AddEntry(added[i - 1], entries[i])
  IN added[Len(entries)].outline

(* /First of an item leads to the first of its children, /Next of one to the next *)
(* child of its parent: the first item after it with that parent, 0 if there is    *)
(* none.                                                                          *)
Following(outline, parent, item) ==
  LET later == {c \in item + 1 .. Len(outline) : outline[c].parent = parent}
  IN IF later = {} THEN 0 ELSE Min(later)

(* extract_toc: _walk_outlines goes through the items of a list and, after each,   *)
(* through its children one level deeper.                                          *)
Walk(outline) ==
  LET from[item \in 0 .. Len(outline)] ==
        [level \in Nat |->
           IF item = 0 THEN <<>>
           ELSE <<[page |-> outline[item].page, level |-> level]>>
                  \o from[Following(outline, item, item)][level + 1]
                  \o from[Following(outline, outline[item].parent, item)][level]]
  IN from[Following(outline, 0, 0)][0]

(* What the levels of the entries mean: an earlier entry is above another when *)
(* everything after it, up to that one, is deeper than it.                     *)
Above(entries, i) ==
  {j \in 1 .. i - 1 : \A k \in j + 1 .. i : entries[k].level > entries[j].level}

Meant(entries) ==
  [i \in DOMAIN entries |->
     [page |-> entries[i].page, level |-> Cardinality(Above(entries, i))]]

-----------------------------------------------------------------------------
(* Page labels. An entry of /Nums has /S, /P and /St only when they are needed. *)

Unset == -1

PdfStyle == [decimal |-> "/D", roman_lower |-> "/r", roman_upper |-> "/R",
             alpha_lower |-> "/a", alpha_upper |-> "/A"]

LabelDicts == [start : Nat, S : Range(PdfStyle) \cup {"absent"}, P : STRING, St : Int]

LabelDict(entry) ==
  [start |-> entry.start_page,
   S  |-> IF entry.style = "none" THEN "absent" ELSE PdfStyle[entry.style],
   P  |-> entry.prefix,
   St |-> IF entry.first_number = 1 THEN Unset ELSE entry.first_number]

LabelsAccepted(count, entries) ==
  /\ entries # <<>>
  /\ \A i \in DOMAIN entries : /\ entries[i].start_page \in 0 .. count - 1
                               /\ entries[i].first_number >= 0

Labelled(entries) == [i \in DOMAIN entries |-> LabelDict(entries[i])]

(* get_page_labels. *)
ReadStyle(S) ==
  IF S = "absent" THEN "none"
  ELSE CHOOSE style \in DOMAIN PdfStyle : PdfStyle[style] = S

LabelsRead(labels) ==
  [i \in DOMAIN labels |->
     [start_page |-> labels[i].start, style |-> ReadStyle(labels[i].S), prefix |-> labels[i].P,
      first_number |-> IF labels[i].St = Unset THEN 1 ELSE labels[i].St]]
=============================================================================
