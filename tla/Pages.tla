------------------------------- MODULE Pages -------------------------------
(***************************************************************************)
(* What the library does with the pages of a document: merger.py,          *)
(* cropper.py, bates.py and stamps.py of core/. A document is here the     *)
(* sequence of its pages, a page what these functions change of it. Page   *)
(* numbers are 1-based, as the functions take them; None for "all pages"   *)
(* is the list of all numbers, which is what _resolve_pages makes of it.   *)
(***************************************************************************)
EXTENDS Integers, Sequences, FiniteSets, SequencesExt

CONSTANTS
  Margin,              \* _MARGIN, in units that divide every box
  TextWidth, FontSize  \* of a stamp or a Bates label

ASSUME GeometryAssumption == Margin \in Nat /\ TextWidth \in Nat /\ FontSize \in Nat

Boxes == [left : Int, bottom : Int, right : Int, top : Int]
NoBox == [left |-> 0, bottom |-> 0, right |-> 0, top |-> 0]

Width(box)  == box.right - box.left
Height(box) == box.top - box.bottom
Proper(box) == box.left < box.right /\ box.bottom < box.top

(* A page has a media box that is no line or point; a crop box may be missing. *)
PageRecords == [id : Nat, rotation : Nat, media : {box \in Boxes : Proper(box)}, crop : Boxes,
                marks : Seq([number : Nat, x : Int, y : Int])]

Within(inner, outer) ==
  /\ outer.left <= inner.left /\ inner.right <= outer.right
  /\ outer.bottom <= inner.bottom /\ inner.top <= outer.top

AllInRange(pages, nums) == \A i \in DOMAIN nums : nums[i] \in DOMAIN pages

(* The pages at nums become Change(page). *)
Altered(pages, nums, Change(_)) ==
  [i \in DOMAIN pages |-> IF i \in Range(nums) THEN Change(pages[i]) ELSE pages[i]]

-----------------------------------------------------------------------------
(* merger.py *)

Merged(documents) == FlattenSeq(documents)

RangeOK(pages, range) == 1 <= range[1] /\ range[1] <= range[2] /\ range[2] <= Len(pages)

(* Faulty: an exclusive end. *)
Piece_Faulty(pages, range) == SubSeq(pages, range[1], range[2] - 1)

Piece(pages, range) == SubSeq(pages, range[1], range[2])

(* The files split has written when it returns or meets a bad range. *)
Pieces(pages, ranges) ==
  LET bad == SelectInSeq(ranges, LAMBDA r : ~ RangeOK(pages, r)) IN
  [i \in 1 .. (IF bad = 0 THEN Len(ranges) ELSE bad - 1) |-> Piece(pages, ranges[i])]

(* extract_pages and reorder_pages. *)
Picked(pages, nums) == [i \in DOMAIN nums |-> pages[nums[i]]]

At(pages, i) == IF i \in DOMAIN pages THEN <<pages[i]>> ELSE <<>>

Interleaved(a, b) ==
  LET longer == IF Len(a) >= Len(b) THEN Len(a) ELSE Len(b)
      mixed[i \in 0 .. longer] == IF i = 0 THEN <<>> ELSE mixed[i - 1] \o At(a, i) \o At(b, i)
  IN mixed[longer]

(* pypdf adds the angle to /Rotate. *)
Rotated(pages, nums, angle) ==
  Altered(pages, nums, LAMBDA page : [page EXCEPT !.rotation = @ + angle])

(* delete_pages. Faulty: refuses only to delete more pages than there are.   *)
Deletable_Faulty(pages, nums) ==
  nums # <<>> /\ AllInRange(pages, nums) /\ Len(nums) <= Len(pages)

Deletable(pages, nums) ==
  nums # <<>> /\ AllInRange(pages, nums) /\ Cardinality(Range(nums)) < Len(pages)

Without(pages, nums) ==
  LET rest[i \in 0 .. Len(pages)] ==
        IF i = 0 THEN <<>>
        ELSE IF i \in Range(nums) THEN rest[i - 1] ELSE Append(rest[i - 1], pages[i])
  IN rest[Len(pages)]

-----------------------------------------------------------------------------
(* cropper.py *)

(* crop_pages insets the media box, whatever the crop box was. Faulty: adds   *)
(* the offset on the right.                                                   *)
CroppedBox_Faulty(media, offset) ==
  [left |-> media.left + offset.left, bottom |-> media.bottom + offset.bottom,
   right |-> media.right + offset.right, top |-> media.top - offset.top]

CroppedBox(media, offset) ==
  [left |-> media.left + offset.left, bottom |-> media.bottom + offset.bottom,
   right |-> media.right - offset.right, top |-> media.top - offset.top]

Croppable(pages, nums, offset) ==
  /\ \A side \in DOMAIN offset : offset[side] >= 0
  /\ AllInRange(pages, nums)
  /\ \A i \in Range(nums) : Proper(CroppedBox(pages[i].media, offset))

Cropped(pages, nums, offset) ==
  Altered(pages, nums, LAMBDA page : [page EXCEPT !.crop = CroppedBox(page.media, offset)])

Visible(page) == IF page.crop = NoBox THEN page.media ELSE page.crop

(* pypdf scales every box of the page, from the origin; a crop box that was  *)
(* not there becomes that of the media box.                                  *)
ScaledBox(box, old, width, height) ==
  [left |-> (box.left * width) \div Width(old), right |-> (box.right * width) \div Width(old),
   bottom |-> (box.bottom * height) \div Height(old), top |-> (box.top * height) \div Height(old)]

Resized(pages, nums, width, height) ==
  Altered(pages, nums,
          LAMBDA page : [page EXCEPT !.media = ScaledBox(@, page.media, width, height),
                                     !.crop = ScaledBox(Visible(page), page.media, width, height)])

Boxed(pages, nums, type, box) ==
  Altered(pages, nums, LAMBDA page : IF type = "MediaBox" THEN [page EXCEPT !.media = box]
                                                          ELSE [page EXCEPT !.crop = box])

-----------------------------------------------------------------------------
(* bates.py and stamps.py *)

Positions == {position \in [x : {"left", "center", "right"}, y : {"bottom", "center", "top"}] :
                position.y = "center" => position.x = "center"}
BatesPositions == {position \in Positions : position.y # "center"}

(* From the size of the media box alone; the overlay starts at the origin.   *)
(* Faulty: forgets the width of the text.                                    *)
PlaceX_Faulty(media, side) ==
  CASE side = "left"   -> Margin
    [] side = "right"  -> Width(media) - Margin
    [] side = "center" -> (Width(media) - TextWidth) \div 2

PlaceX(media, side) ==
  CASE side = "left"   -> Margin
    [] side = "right"  -> Width(media) - Margin - TextWidth
    [] side = "center" -> (Width(media) - TextWidth) \div 2

PlaceY(media, side) ==
  CASE side = "bottom" -> Margin
    [] side = "top"    -> Height(media) - Margin - FontSize
    [] side = "center" -> (Height(media) - FontSize) \div 2

(* A mark is remembered at the place where it was drawn. *)
Marked(page, number, position) ==
  [page EXCEPT !.marks = Append(@, [number |-> number, x |-> PlaceX(page.media, position.x),
                                    y |-> PlaceY(page.media, position.y)])]

MarkBox(mark) ==
  [left |-> mark.x, right |-> mark.x + TextWidth, bottom |-> mark.y, top |-> mark.y + FontSize]

(* add_bates_numbers, and one file of add_bates_to_batch. *)
Numbered(pages, start, position) ==
  [i \in DOMAIN pages |-> Marked(pages[i], start + i - 1, position)]

(* add_stamp and its relatives: a mark without a number, once per page. *)
Stamped(pages, nums, position) ==
  Altered(pages, nums, LAMBDA page : Marked(page, 0, position))
=============================================================================
