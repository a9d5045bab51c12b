----------------------------- MODULE MCLibrary -----------------------------
(* Library on a few files. *)
EXTENDS Library

MCStems == {"a", "a_bates", "a_bates_bates", "split_1", "split_2"}
MCBatesStem == [stem \in {"a", "a_bates"} |-> stem \o "_bates"]
MCSplitStems == <<"split_1", "split_2">>

Box(l, b, r, t) == [left |-> l, bottom |-> b, right |-> r, top |-> t]
Page(id, media) == [id |-> id, rotation |-> 0, media |-> media, crop |-> NoBox, marks |-> <<>>]

TwoPages == [pages |-> <<Page(1, Box(0, 0, 4, 4)), Page(2, Box(2, 0, 6, 4))>>,
             labels |-> <<>>, outline |-> <<[page |-> 2, parent |-> 0]>>]
OnePage == [pages |-> <<Page(3, Box(0, 0, 4, 4))>>, labels |-> <<>>, outline |-> <<>>]

(* Two files of one name in two directories, and a file beside one that has the *)
(* name of its numbered copy.                                                   *)
MCInitialFiles ==
  {[p \in {<<"d", "a">>, other} |-> IF p = other THEN OnePage ELSE TwoPages] :
     other \in {<<"e", "a">>, <<"d", "a_bates">>}}

MCOutputs == {<<"d", "a">>, <<"e", "split_1">>}

MCPageArgs == {<<>>, <<1>>, <<2, 1>>, <<2, 2>>, <<3>>}
MCRangeArgs == {<<>>, <<<<1, 1>>, <<2, 2>>>>, <<<<1, 2>>>>, <<<<1, 1>>, <<2, 1>>>>}
MCOffsetArgs == {Box(1, 0, 0, 1), Box(2, 0, 2, 0), Box(1, 1, 2, 1)}
MCSizeArgs == {<<8, 4>>, <<8, 8>>}
MCBoxArgs == {Box(0, 0, 4, 4), Box(1, 1, 3, 5)}
MCPositionArgs ==
  {[x |-> "left", y |-> "top"], [x |-> "right", y |-> "bottom"], [x |-> "center", y |-> "center"]}

Entry(page, level) == [page |-> page, level |-> level]
MCEntryArgs ==
  {<<>>, <<Entry(1, 0), Entry(2, 2), Entry(1, 1), Entry(2, 0)>>,
   <<Entry(1, 2), Entry(1, 1), Entry(1, 2), Entry(1, 2)>>, <<Entry(2, 1), Entry(3, 0)>>}

Label(start, style, prefix, first) ==
  [start_page |-> start, style |-> style, prefix |-> prefix, first_number |-> first]
MCLabelArgs ==
  {<<Label(0, "roman_lower", "absent", 1), Label(1, "decimal", "A-", 5)>>,
   <<Label(0, "none", "A-", 0)>>, <<Label(2, "decimal", "absent", 1)>>}
=============================================================================
