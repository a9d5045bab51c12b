------------------------------- MODULE Library -------------------------------
(***************************************************************************)
(* A directory of PDF files and the calls of the library (core/) on it, in *)
(* any order: each reads files, and writes one or several. Nothing but the *)
(* files is kept between two calls. A refused call raises InputError.      *)
(***************************************************************************)
EXTENDS Pages, Navigation

CONSTANTS
  Dirs, Stems,              \* a path is a directory and a stem
  BatesStem,                \* stem -> stem + "_bates"
  SplitStems,               \* "split_1", "split_2", ...
  FitFirst, FitNext,        \* entries that fit on the first and on a later TOC page
  InitialFiles,             \* what may be there at first
  Outputs,                  \* the paths callers name as output
  PageArgs, RangeArgs, OffsetArgs, BoxArgs, SizeArgs, PositionArgs, EntryArgs, LabelArgs,
  MaxCalls                  \* bound: calls

Paths == Dirs \X Stems

(* The pages, labels and bookmarks of a file, and the labels and bookmarks that *)
(* lead somewhere.                                                              *)
DocumentRecords ==
  [pages : Seq(PageRecords) \ {<<>>}, labels : Seq(LabelDicts), outline : Seq(Items)]

Linked(document) ==
  /\ \A i \in DOMAIN document.outline : document.outline[i].page \in DOMAIN document.pages
  /\ \A i \in DOMAIN document.labels : document.labels[i].start < Len(document.pages)

ASSUME PathsAssumption ==
  /\ BatesStem \in [DOMAIN BatesStem -> Stems] /\ SplitStems \in Seq(Stems)
  /\ Outputs \subseteq Paths

(* Numbers are whole; a label's style is one of the six set_page_labels takes. *)
ASSUME ArgsAssumption ==
  /\ MaxCalls \in Nat /\ FitFirst \in Nat \ {0} /\ FitNext \in Nat \ {0}
  /\ PageArgs \subseteq Seq(Int)
  /\ RangeArgs \subseteq {ranges \in Seq(Int \X Int) : Len(ranges) <= Len(SplitStems)}
  /\ OffsetArgs \subseteq Boxes /\ BoxArgs \subseteq Boxes /\ SizeArgs \subseteq Int \X Int
  /\ EntryArgs \subseteq Seq([page : Int, level : Int])
  /\ LabelArgs \subseteq Seq([start_page : Int, style : DOMAIN PdfStyle \cup {"none"},
                             prefix : STRING, first_number : Int])

(* What is there at first are readable files whose bookmarks and labels lead    *)
(* somewhere.                                                                   *)
ASSUME FilesAssumption ==
  \A fs \in InitialFiles :
    /\ DOMAIN fs \subseteq Paths /\ fs \in [DOMAIN fs -> DocumentRecords]
    /\ \A p \in DOMAIN fs : Linked(fs[p])

VARIABLES
  files,  \* path -> document, for the paths that exist
  last,   \* the last call: what it was, whether it was refused, the documents
          \* it read, its further argument and the paths it told
  calls

vars == <<files, last, calls>>

TypeOK ==
  /\ DOMAIN files \subseteq Paths /\ files \in [DOMAIN files -> DocumentRecords]
  /\ last.ok \in BOOLEAN /\ last.read \in Seq(DocumentRecords) /\ last.told \in Seq(Paths)
  /\ calls \in 0 .. MaxCalls

Init ==
  /\ files \in InitialFiles
  /\ last = [op |-> "none", ok |-> TRUE, read |-> <<>>, given |-> <<>>, told |-> <<>>]
  /\ calls = 0

-----------------------------------------------------------------------------
Put(fs, path, document) ==
  [p \in DOMAIN fs \cup {path} |-> IF p = path THEN document ELSE fs[p]]

(* A PdfWriter to which pages are added has nothing of the document but them. *)
(* Faulty: keeps the catalog.                                                 *)
Rebuilt_Faulty(document, pages) == [document EXCEPT !.pages = pages]

Rebuilt(document, pages) == [document EXCEPT !.pages = pages, !.labels = <<>>, !.outline = <<>>]

(* A call that reads the files at paths and, unless refused, writes one. *)
Call(op, given, paths, Accepted(_), Result(_), out) ==
  LET present == Range(paths) \subseteq DOMAIN files
      read    == IF present THEN [i \in DOMAIN paths |-> files[paths[i]]] ELSE <<>>
      ok      == present /\ Accepted(read)
  IN /\ calls < MaxCalls /\ calls' = calls + 1
     /\ last' = [op |-> op, ok |-> ok, read |-> read, given |-> given,
                 told |-> IF ok THEN <<out>> ELSE <<>>]
     /\ files' = IF ok THEN Put(files, out, Result(read)) ELSE files

(* The common case: one file, whose pages are changed. *)
PageCall(op, given, path, Accepted(_), Change(_), out) ==
  Call(op, given, <<path>>, LAMBDA read : Accepted(read[1].pages),
       LAMBDA read : Rebuilt(read[1], Change(read[1].pages)), out)

-----------------------------------------------------------------------------
(* merger.py *)

Merge(paths, out) ==
  Call("merge", <<>>, paths, LAMBDA read : paths # <<>>,
       LAMBDA read : Rebuilt(read[1], Merged([i \in DOMAIN read |-> read[i].pages])), out)

(* Files before the first bad range are written all the same. *)
Split(path, ranges, dir) ==
  /\ path \in DOMAIN files /\ calls < MaxCalls
  /\ LET pages  == files[path].pages
         pieces == Pieces(pages, ranges)
         ok     == ranges # <<>> /\ Len(pieces) = Len(ranges)
         told   == [i \in DOMAIN pieces |-> <<dir, SplitStems[i]>>]
         written[i \in 0 .. Len(pieces)] ==
           IF i = 0 THEN files
           ELSE Put(written[i - 1], told[i], Rebuilt(files[path], pieces[i]))
     IN /\ files' = written[Len(pieces)]
        /\ last' = [op |-> "split", ok |-> ok, read |-> <<files[path]>>, given |-> ranges,
                    told |-> IF ok THEN told ELSE <<>>]
  /\ calls' = calls + 1

ExtractPages(path, nums, out) ==
  PageCall("extract", nums, path, LAMBDA pages : nums # <<>> /\ AllInRange(pages, nums),
           LAMBDA pages : Picked(pages, nums), out)

ReorderPages(path, order, out) ==
  PageCall("reorder", order, path, LAMBDA pages : order # <<>> /\ AllInRange(pages, order),
           LAMBDA pages : Picked(pages, order), out)

InterleaveFiles(a, b, out) ==
  Call("interleave", <<>>, <<a, b>>, LAMBDA read : TRUE,
       LAMBDA read : Rebuilt(read[1], Interleaved(read[1].pages, read[2].pages)), out)

RotatePages(path, nums, angle, out) ==
  PageCall("rotate", nums, path, LAMBDA pages : angle \in {90, 180, 270} /\ AllInRange(pages, nums),
           LAMBDA pages : Rotated(pages, nums, angle), out)

ReverseFile(path, out) ==
  PageCall("reverse", <<>>, path, LAMBDA pages : TRUE, LAMBDA pages : Reverse(pages), out)

DeletePages(path, nums, out) ==
  PageCall("delete", nums, path, LAMBDA pages : Deletable(pages, nums),
           LAMBDA pages : Without(pages, nums), out)

-----------------------------------------------------------------------------
(* cropper.py; trim_margins is CropPages with four equal offsets. *)

CropPages(path, nums, offset, out) ==
  PageCall("crop", nums, path, LAMBDA pages : Croppable(pages, nums, offset),
           LAMBDA pages : Cropped(pages, nums, offset), out)

(* Bound: sizes that are multiples of the old ones, for the numbers are whole. *)
ResizePages(path, nums, size, out) ==
  /\ path \in DOMAIN files
  /\ \A i \in DOMAIN files[path].pages :
       LET media == files[path].pages[i].media IN
       size[1] % Width(media) = 0 /\ size[2] % Height(media) = 0
  /\ PageCall("resize", nums, path,
              LAMBDA pages : size[1] > 0 /\ size[2] > 0 /\ AllInRange(pages, nums),
              LAMBDA pages : Resized(pages, nums, size[1], size[2]), out)

SetPageBoxes(path, nums, type, box, out) ==
  PageCall("boxes", nums, path,
           LAMBDA pages : type \in {"MediaBox", "CropBox"} /\ Proper(box) /\ AllInRange(pages, nums),
           LAMBDA pages : Boxed(pages, nums, type, box), out)

-----------------------------------------------------------------------------
(* bates.py and stamps.py *)

AddBatesNumbers(path, start, position, out) ==
  PageCall("bates", <<start, position>>, path, LAMBDA pages : position \in BatesPositions,
           LAMBDA pages : Numbered(pages, start, position), out)

(* The number the file after one of that many pages begins with. Faulty:     *)
(* every file begins anew.                                                   *)
NextNumber_Faulty(number, pages) == number

NextNumber(number, pages) == number + Len(pages)

(* One file after the other is read, numbered and written, until one is not   *)
(* there: a file is read as the files before it have left it. Bound: only      *)
(* stems whose numbered stem is among Stems.                                   *)
BatchFile(done, path, dirOf, position) ==
  IF ~ done.ok \/ path \notin DOMAIN done.files THEN [done EXCEPT !.ok = FALSE]
  ELSE LET document == done.files[path]
           out == <<dirOf[path], BatesStem[path[2]]>>
       IN [ok |-> TRUE,
           files |-> Put(done.files, out,
                         Rebuilt(document, Numbered(document.pages, done.number, position))),
           number |-> NextNumber(done.number, document.pages),
           read |-> Append(done.read, document),
           told |-> Append(done.told, out)]

AddBatesToBatch(paths, dirOf, start, position) ==
  LET after[i \in 0 .. Len(paths)] ==
        IF i = 0 THEN [ok |-> paths # <<>> /\ position \in BatesPositions, files |-> files,
                       number |-> start, read |-> <<>>, told |-> <<>>]
        ELSE BatchFile(after[i - 1], paths[i], dirOf, position)
      done == after[Len(paths)]
  IN /\ calls < MaxCalls /\ calls' = calls + 1
     /\ \A i \in DOMAIN paths : paths[i][2] \in DOMAIN BatesStem
     /\ files' = done.files
     /\ last' = [op |-> "batch", ok |-> done.ok, read |-> done.read,
                 given |-> <<start, position>>, told |-> IF done.ok THEN done.told ELSE <<>>]

AddStamp(path, nums, position, out) ==
  PageCall("stamp", <<nums, position>>, path,
           LAMBDA pages : position \in Positions /\ AllInRange(pages, nums),
           LAMBDA pages : Stamped(pages, nums, position), out)

-----------------------------------------------------------------------------
(* toc.py and page_labels.py *)

(* The pages of a table of contents, in the size of the first page; how many    *)
(* entries fit does not depend on the size here.                               *)
TocPage(media) == [id |-> 0, rotation |-> 0, media |-> [left |-> 0, bottom |-> 0,
                   right |-> Width(media), top |-> Height(media)], crop |-> NoBox, marks |-> <<>>]

TocPages(count) ==
  IF count <= FitFirst THEN 1 ELSE 1 + (count - FitFirst + FitNext - 1) \div FitNext

GenerateToc(path, entries, out) ==
  PageCall("toc", entries, path, LAMBDA pages : TRUE,
           LAMBDA pages : [i \in 1 .. TocPages(Len(entries)) |-> TocPage(pages[1].media)] \o pages,
           out)

AddBookmarks(path, entries, out) ==
  Call("bookmarks", entries, <<path>>,
       LAMBDA read : \A i \in DOMAIN entries : entries[i].page \in DOMAIN read[1].pages,
       LAMBDA read : [read[1] EXCEPT !.outline = Bookmarked(@, entries)], out)

SetPageLabels(path, entries, out) ==
  Call("labels", entries, <<path>>,
       LAMBDA read : LabelsAccepted(Len(read[1].pages), entries),
       LAMBDA read : [Rebuilt(read[1], read[1].pages) EXCEPT !.labels = Labelled(entries)], out)

-----------------------------------------------------------------------------
(* compare.py; the text of a page is what it says and the numbers drawn on it. *)

Text(page) == <<page.id, [i \in DOMAIN page.marks |-> page.marks[i].number]>>

Structure(page) == <<Width(page.media), Height(page.media), page.rotation>>

(* Faulty: compares as many pages as both have. *)
Compared_Faulty(a, b) == 1 .. Min({Len(a), Len(b)})

Compared(a, b) == 1 .. Max({Len(a), Len(b)})

(* The page differences under View, by page number. *)
Differences(a, b, View(_)) ==
  LET Kind(i) ==
        CASE i \notin DOMAIN b -> "removed"
          [] i \notin DOMAIN a -> "added"
          [] OTHER -> IF View(a[i]) = View(b[i]) THEN "same" ELSE "changed"
  IN {<<i, Kind(i)>> : i \in {j \in Compared(a, b) : Kind(j) # "same"}}

CompareText(a, b) == Differences(a, b, Text)
CompareStructure(a, b) == Differences(a, b, Structure)

-----------------------------------------------------------------------------
(* The files there are, and one path that does not exist for all of them. *)
Named == DOMAIN files \cup {CHOOSE path \in Paths : path \notin DOMAIN files}

(* output_dir, or beside the originals. *)
BatchDirs == {[p \in Paths |-> dir] : dir \in Dirs} \cup {[p \in Paths |-> p[1]]}

Next ==
  \E path \in Named :
    \/ \E dir \in Dirs, ranges \in RangeArgs : Split(path, ranges, dir)
    \/ \E other \in Named, dirOf \in BatchDirs, position \in PositionArgs :
         AddBatesToBatch(<<path, other>>, dirOf, 1, position)
    \/ \E out \in Outputs :
         \/ \E other \in Named : Merge(<<path, other>>, out) \/ InterleaveFiles(path, other, out)
         \/ ReverseFile(path, out)
         \/ \E nums \in PageArgs :
              \/ ExtractPages(path, nums, out) \/ ReorderPages(path, nums, out)
              \/ DeletePages(path, nums, out) \/ RotatePages(path, nums, 90, out)
              \/ \E offset \in OffsetArgs : CropPages(path, nums, offset, out)
              \/ \E size \in SizeArgs : ResizePages(path, nums, size, out)
              \/ \E type \in {"MediaBox", "CropBox"}, box \in BoxArgs :
                   SetPageBoxes(path, nums, type, box, out)
              \/ \E position \in PositionArgs : AddStamp(path, nums, position, out)
         \/ \E position \in PositionArgs : AddBatesNumbers(path, 1, position, out)
         \/ \E entries \in EntryArgs : GenerateToc(path, entries, out) \/ AddBookmarks(path, entries, out)
         \/ \E entries \in LabelArgs : SetPageLabels(path, entries, out)

Spec == Init /\ [][Next]_vars

-----------------------------------------------------------------------------
(* Properties. *)

TellsPages(i) == files[last.told[i]].pages

(* Splitting and merging, interleaving and deleting lose, repeat and reorder   *)
(* no page but as they say: pieces merge back to the document,    *)
(* interleaved pages alternate until the shorter file ends and keep their     *)
(* order, what is not deleted stays in its order (merger.py).                 *)
PageAlgebra ==
  \A p, q \in DOMAIN files :
    LET a == files[p].pages  b == files[q].pages  mixed == Interleaved(a, b)
        PlaceOfA(i) == i + Min({i - 1, Len(b)})
        PlaceOfB(i) == i + Min({i, Len(a)})
    IN /\ \A cut \in 1 .. Len(a) - 1 :
            Merged(Pieces(a, <<<<1, cut>>, <<cut + 1, Len(a)>>>>)) = a
       /\ Len(mixed) = Len(a) + Len(b)
       /\ \A i \in DOMAIN a : mixed[PlaceOfA(i)] = a[i]
       /\ \A i \in DOMAIN b : mixed[PlaceOfB(i)] = b[i]
       /\ \A nums \in PageArgs : Deletable(a, nums) =>
            LET rest == Without(a, nums) IN
            /\ Len(rest) = Len(a) - Cardinality(Range(nums))
            /\ \A i \in DOMAIN a \ Range(nums) :
                 rest[i - Cardinality({n \in Range(nums) : n < i})] = a[i]

(* A batch numbers what it reads as add_bates_numbers would number the merge:  *)
(* the numbers run on from file to file, and every file read is there,         *)
(* numbered. The code takes for granted that no two outputs of a batch are one *)
(* path.                                                                       *)
BatchRunsOn ==
  last.op = "batch" /\ last.ok /\ Cardinality(Range(last.told)) = Len(last.told) =>
    Merged([i \in DOMAIN last.told |-> TellsPages(i)])
      = Numbered(Merged([i \in DOMAIN last.read |-> last.read[i].pages]),
                 last.given[1], last.given[2])

CropInside(page) == page.crop = NoBox \/ (Proper(page.crop) /\ Within(page.crop, page.media))

(* Only set_page_boxes can put a crop box outside its media box: neither an     *)
(* inset nor a scaling of both does, in any order with the others (cropper.py). *)
CropsStayInside ==
  last.op # "boxes" /\ (\A i \in DOMAIN last.read : \A j \in DOMAIN last.read[i].pages :
                            CropInside(last.read[i].pages[j])) =>
    \A i \in DOMAIN last.told : \A j \in DOMAIN TellsPages(i) : CropInside(TellsPages(i)[j])

(* A label or stamp lies inside the margins of a page that has room for it and *)
(* begins at the origin (_compute_position, _calc_position).                   *)
MarksOnPage ==
  last.op \in {"bates", "stamp"} /\ last.ok =>
    \A j \in DOMAIN TellsPages(1) :
      LET page == TellsPages(1)[j]
          old  == last.read[1].pages[j]
          inner == [left |-> Margin, bottom |-> Margin, right |-> page.media.right - Margin,
                    top |-> page.media.top - Margin]
      IN /\ page.marks # old.marks
         /\ page.media.left = 0 /\ page.media.bottom = 0
         /\ Width(page.media) >= TextWidth + 2 * Margin /\ Height(page.media) >= FontSize + 2 * Margin
         => Within(MarkBox(page.marks[Len(page.marks)]), inner)

(* Whatever is done to the pages, a bookmark or a label range never points     *)
(* to a page that is not there.                                                *)
TargetsExist == \A p \in DOMAIN files : Linked(files[p])

(* What add_bookmarks writes extract_toc reads, behind what was there: every   *)
(* entry, in order, at the level its surroundings give it; and label ranges    *)
(* are read as they were set.                                                  *)
NavigationReadsBack ==
  /\ last.op = "bookmarks" /\ last.ok =>
       Walk(files[last.told[1]].outline) = Walk(last.read[1].outline) \o Meant(last.given)
  /\ last.op = "labels" /\ last.ok => LabelsRead(files[last.told[1]].labels) = last.given

(* Two files without differences have the same pages in text, size and          *)
(* rotation, and comparing the other way round finds the same pages, added for  *)
(* removed (compare.py).                                                        *)
ComparisonsSound ==
  \A p, q \in DOMAIN files :
    LET a == files[p].pages  b == files[q].pages
        Mirror(kind) == CASE kind = "added" -> "removed" [] kind = "removed" -> "added"
                          [] OTHER -> kind
    IN /\ CompareText(a, b) = {} /\ CompareStructure(a, b) = {} =>
            /\ Len(a) = Len(b)
            /\ \A i \in DOMAIN a : Text(a[i]) = Text(b[i]) /\ Structure(a[i]) = Structure(b[i])
       /\ CompareText(b, a) = {<<d[1], Mirror(d[2])>> : d \in CompareText(a, b)}
=============================================================================
