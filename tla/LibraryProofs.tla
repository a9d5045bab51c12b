---------------------------- MODULE LibraryProofs ----------------------------
(***************************************************************************)
(* What any sequence of calls of the library makes of a directory of files, *)
(* for all files, arguments and numbers of calls.                           *)
(***************************************************************************)
EXTENDS Library, SequenceTheorems, FiniteSetTheorems, WellFoundedInduction, TLAPS

(* A set of natural numbers that is not empty has a smallest one.               *)
LEMMA Smallest ==
  ASSUME NEW T, T \subseteq Nat, T # {}
  PROVE  \E x \in T : \A y \in T : ~ (y < x)
<1> DEFINE R == {ss \in Nat \X Nat : ss[1] < ss[2]}
<1>1. IsWellFoundedOn(R, Nat)
  BY NatLessThanWellFounded, Zenon DEF OpToRel
<1> HIDE DEF R
<1>2. PICK x \in T : \A y \in T : ~ (<<y, x>> \in R)
  BY <1>1, WFMin
<1>3. \A y \in T : ~ (y < x)
  BY <1>2 DEF R
<1> QED
  BY <1>3

(* Induction over the places of a sequence.                                     *)
LEMMA UpTo ==
  ASSUME NEW n \in Nat, NEW S, 0 \in S, \A k \in 0 .. n - 1 : k \in S => k + 1 \in S
  PROVE  0 .. n \subseteq S
<1> DEFINE T == (0 .. n) \ S
<1> SUFFICES ASSUME T # {} PROVE FALSE
  OBVIOUS
<1>1. T \subseteq Nat
  OBVIOUS
<1>2. PICK x \in T : \A y \in T : ~ (y < x)
  BY <1>1, Smallest
<1>3. x \in 1 .. n /\ x - 1 \in 0 .. n - 1 /\ x - 1 < x /\ (x - 1) + 1 = x
  OBVIOUS
<1>4. x - 1 \in S
  BY <1>2, <1>3
<1> QED
  BY <1>3, <1>4

(* A function that begins with base and goes from each value to the next by step *)
(* exists, and whoever satisfies its equation has its type: what a definition by  *)
(* recursion over the places of a sequence rests on.                             *)
Recurses(f, n, base, step) ==
  f = [k \in 0 .. n |-> IF k = 0 THEN base ELSE step[<<k, f[k - 1]>>]]

LEMMA Recursion ==
  ASSUME NEW n \in Nat, NEW T, NEW base \in T, NEW step \in [(1 .. n) \X T -> T]
  PROVE  \E f \in [0 .. n -> T] : Recurses(f, n, base, step)
<1> DEFINE Until(g, m) == /\ g[0] = base
                          /\ \A k \in 1 .. m : g[k] = step[<<k, g[k - 1]>>]
           S == {m \in 0 .. n : \E g \in [0 .. n -> T] : Until(g, m)}
<1>1. 0 \in S
  <2> DEFINE g == [k \in 0 .. n |-> base]
  <2>1. g \in [0 .. n -> T] /\ Until(g, 0)
    OBVIOUS
  <2> HIDE DEF g, Until
  <2> QED
    BY <2>1
<1>2. ASSUME NEW m \in 0 .. n - 1, m \in S PROVE m + 1 \in S
  <2>1. PICK g \in [0 .. n -> T] : Until(g, m)
    BY <1>2
  <2> DEFINE new == step[<<m + 1, g[m]>>]
             h == [g EXCEPT ![m + 1] = new]
  <2>2. m + 1 \in 1 .. n /\ m \in 0 .. n /\ g[m] \in T
    OBVIOUS
  <2>3. new \in T
    BY <2>2
  <2> HIDE DEF new
  <2>4. h \in [0 .. n -> T] /\ h[m + 1] = new /\ \A k \in 0 .. n : k # m + 1 => h[k] = g[k]
    BY <2>2, <2>3
  <2> HIDE DEF h
  <2>5. h[0] = base
    BY <2>1, <2>2, <2>4
  <2>6. ASSUME NEW k \in 1 .. m + 1 PROVE h[k] = step[<<k, h[k - 1]>>]
    <3>1. k - 1 \in 0 .. n /\ k - 1 # m + 1 /\ k \in 0 .. n
      BY <2>2
    <3>2. h[k - 1] = g[k - 1]
      BY <2>4, <3>1
    <3>3. CASE k = m + 1
      <4>1. k - 1 = m
        BY <3>3
      <4> QED
        BY <2>4, <3>2, <3>3, <4>1 DEF new
    <3>4. CASE k \in 1 .. m
      <4>1. h[k] = g[k] /\ g[k] = step[<<k, g[k - 1]>>]
        BY <2>1, <2>4, <3>1, <3>4
      <4> QED
        BY <3>2, <4>1
    <3> QED
      BY <2>2, <3>3, <3>4
  <2>7. Until(h, m + 1)
    BY <2>5, <2>6
  <2> QED
    BY <2>2, <2>4, <2>7
<1> HIDE DEF S
<1>3. 0 .. n \subseteq S
  BY <1>1, <1>2, UpTo
<1>4. n \in S
  BY <1>3
<1>5. PICK f \in [0 .. n -> T] : Until(f, n)
  BY <1>4 DEF S
<1>6. \A k \in 0 .. n : f[k] = IF k = 0 THEN base ELSE step[<<k, f[k - 1]>>]
  BY <1>5
<1>7. Recurses(f, n, base, step)
  BY <1>6 DEF Recurses
<1> QED
  BY <1>7
Function(f, n) == f = [k \in 0 .. n |-> f[k]]

LEMMA Unique ==
  ASSUME NEW n \in Nat, NEW f, Function(f, n), NEW g, Function(g, n),
         f[0] = g[0], \A k \in 1 .. n : f[k - 1] = g[k - 1] => f[k] = g[k]
  PROVE  f = g
<1> DEFINE S == {k \in 0 .. n : f[k] = g[k]}
<1>1. 0 \in S
  OBVIOUS
<1>2. ASSUME NEW k \in 0 .. n - 1, k \in S PROVE k + 1 \in S
  <2>1. k + 1 \in 1 .. n /\ (k + 1) - 1 = k /\ k + 1 \in 0 .. n
    OBVIOUS
  <2> QED
    BY <1>2, <2>1
<1> HIDE DEF S
<1>3. 0 .. n \subseteq S
  BY <1>1, <1>2, UpTo
<1> QED
  BY <1>3 DEF S, Function

-----------------------------------------------------------------------------
(* The functions that choose pages: what they return consists of pages of what   *)
(* they were given.                                                              *)
LEMMA ListOf ==
  ASSUME NEW T, NEW n \in Nat, NEW f \in [1 .. n -> T]
  PROVE  f \in Seq(T) /\ Len(f) = n
OBVIOUS

LEMMA FlattenTwo ==
  ASSUME NEW T, NEW s \in Seq(Seq(T)), Len(s) = 2
  PROVE  FlattenSeq(s) = s[1] \o s[2] /\ FlattenSeq(s) \in Seq(T)
<1> DEFINE Equation(f) == f = [i \in 1 .. Len(s) |-> IF i = 1 THEN s[i] ELSE f[i - 1] \o s[i]]
           w == [i \in 1 .. 2 |-> IF i = 1 THEN s[1] ELSE s[1] \o s[2]]
           f == CHOOSE f : Equation(f)
<1>1. s[1] \in Seq(T) /\ s[2] \in Seq(T) /\ Len(s) # 0
  <2> DEFINE U == Seq(T)
  <2>1. s \in Seq(U)
    OBVIOUS
  <2> HIDE DEF U
  <2>2. 1 \in 1 .. Len(s) /\ 2 \in 1 .. Len(s)
    OBVIOUS
  <2>3. s[1] \in U /\ s[2] \in U
    BY <2>1, <2>2, ElementOfSeq
  <2> QED
    BY <2>3 DEF U
<1>2. Equation(w)
  <2>1. w[1] = s[1] /\ w[2] = s[1] \o s[2]
    OBVIOUS
  <2> HIDE DEF w
  <2>2. \A i \in 1 .. 2 : w[i] = IF i = 1 THEN s[i] ELSE w[i - 1] \o s[i]
    <3>1. \A i \in 1 .. 2 : i = 1 \/ (i = 2 /\ i - 1 = 1)
      OBVIOUS
    <3> QED
      BY <2>1, <3>1
  <2> QED
    BY <2>2 DEF w
<1>3. Equation(f)
  BY <1>2
<1>4. FlattenSeq(s) = f[Len(s)]
  BY <1>1, Zenon DEF FlattenSeq
<1> HIDE DEF f
<1>5. f[1] = s[1]
  BY <1>3
<1>6. f[2] = f[1] \o s[2]
  BY <1>3
<1> QED
  BY <1>1, <1>4, <1>5, <1>6

LEMMA MergedTwo ==
  ASSUME NEW T, NEW a \in Seq(T), NEW b \in Seq(T)
  PROVE  Merged(<<a, b>>) = a \o b /\ a \o b \in Seq(T)
<1>1. <<a, b>> \in Seq(Seq(T)) /\ Len(<<a, b>>) = 2
  OBVIOUS
<1>2. FlattenSeq(<<a, b>>) = a \o b /\ FlattenSeq(<<a, b>>) \in Seq(T)
  <2>1. <<a, b>>[1] = a /\ <<a, b>>[2] = b
    OBVIOUS
  <2> QED
    BY <1>1, <2>1, FlattenTwo
<1> QED
  BY <1>2 DEF Merged

LEMMA PickedType ==
  ASSUME NEW T, NEW pages \in Seq(T), NEW nums \in Seq(Int), AllInRange(pages, nums)
  PROVE  Picked(pages, nums) \in Seq(T) /\ Len(Picked(pages, nums)) = Len(nums)
<1>1. \A i \in 1 .. Len(nums) : pages[nums[i]] \in T
  BY DEF AllInRange
<1>2. Picked(pages, nums) \in [1 .. Len(nums) -> T]
  BY <1>1 DEF Picked
<1> QED
  BY <1>2

LEMMA ReverseType ==
  ASSUME NEW T, NEW pages \in Seq(T)
  PROVE  Reverse(pages) \in Seq(T) /\ Len(Reverse(pages)) = Len(pages)
<1>1. Reverse(pages) \in [1 .. Len(pages) -> T]
  <2>1. \A i \in 1 .. Len(pages) : (Len(pages) - i) + 1 \in 1 .. Len(pages)
    OBVIOUS
  <2> QED
    BY <2>1 DEF Reverse
<1> QED
  BY <1>1

LEMMA PieceType ==
  ASSUME NEW T, NEW pages \in Seq(T), NEW range \in Int \X Int, RangeOK(pages, range)
  PROVE  /\ Piece(pages, range) \in Seq(T) \ {<<>>}
         /\ Len(Piece(pages, range)) = range[2] - range[1] + 1
         /\ \A j \in 1 .. range[2] - range[1] + 1 :
              Piece(pages, range)[j] = pages[range[1] + j - 1]
<1>1. range[1] \in 1 .. Len(pages) /\ range[2] \in range[1] .. Len(pages)
  BY DEF RangeOK
<1>2. /\ Piece(pages, range) \in Seq(T)
      /\ Len(Piece(pages, range)) = range[2] - range[1] + 1
      /\ \A j \in 1 .. range[2] - range[1] + 1 :
           Piece(pages, range)[j] = pages[range[1] + j - 1]
  <2> DEFINE m == range[1]  n == range[2]
  <2>1. m \in 1 .. Len(pages) + 1 /\ n \in m - 1 .. Len(pages)
    BY <1>1
  <2> HIDE DEF m, n
  <2>2. SubSeq(pages, m, n) = [i \in 1 .. n - m + 1 |-> pages[m + i - 1]]
    BY <2>1
  <2>3. \A i \in 1 .. n - m + 1 : pages[m + i - 1] \in T
    BY <2>1
  <2>4. SubSeq(pages, m, n) \in [1 .. n - m + 1 -> T] /\ n - m + 1 \in Nat
    BY <2>1, <2>2, <2>3
  <2> QED
    <3> DEFINE piece == SubSeq(pages, m, n)
    <3>0. piece \in [1 .. n - m + 1 -> T]
      BY <2>4
    <3> HIDE DEF piece
    <3>1. Len(piece) = n - m + 1 /\ piece \in Seq(T)
      BY <2>4, <3>0, ListOf
    <3>2. \A j \in 1 .. n - m + 1 : piece[j] = pages[m + j - 1]
      BY <2>2 DEF piece
    <3> QED
      BY <3>1, <3>2, Zenon DEF m, n, piece, Piece
<1>3. range[2] - range[1] + 1 # 0
  BY <1>1
<1> QED
  BY <1>2, <1>3

(* How many files split writes: all the ranges, or those before the first bad one. *)
LEMMA PiecesType ==
  ASSUME NEW T, NEW pages \in Seq(T), NEW ranges \in Seq(Int \X Int)
  PROVE  /\ Pieces(pages, ranges) \in Seq(Seq(T) \ {<<>>})
         /\ Len(Pieces(pages, ranges)) <= Len(ranges)
         /\ (\A i \in 1 .. Len(ranges) : RangeOK(pages, ranges[i])) =>
              Pieces(pages, ranges) = [i \in 1 .. Len(ranges) |-> Piece(pages, ranges[i])]
<1> DEFINE bads  == {i \in 1 .. Len(ranges) : ~ RangeOK(pages, ranges[i])}
           bad   == SelectInSeq(ranges, LAMBDA r : ~ RangeOK(pages, r))
           count == IF bad = 0 THEN Len(ranges) ELSE bad - 1
<1>1. bad = IF bads # {} THEN Min(bads) ELSE 0
  BY DEF SelectInSeq
<1>2. bads # {} => Min(bads) \in bads /\ \A i \in bads : Min(bads) <= i
  <2> SUFFICES ASSUME bads # {} PROVE Min(bads) \in bads /\ \A i \in bads : Min(bads) <= i
    OBVIOUS
  <2>1. PICK x \in bads : \A y \in bads : ~ (y < x)
    <3>1. bads \subseteq Nat
      OBVIOUS
    <3> HIDE DEF bads
    <3> QED
      BY <3>1, Smallest
  <2>2. \A y \in bads : x <= y
    BY <2>1
  <2> HIDE DEF bads
  <2> QED
    BY <2>1, <2>2 DEF Min
<1>3. Pieces(pages, ranges) = [i \in 1 .. count |-> Piece(pages, ranges[i])]
  BY DEF Pieces
<1> HIDE DEF bad
<1>4. count \in 0 .. Len(ranges) /\ \A i \in 1 .. count : i \in 1 .. Len(ranges) /\ RangeOK(pages, ranges[i])
  <2>1. CASE bads = {}
    BY <1>1, <2>1
  <2>2. CASE bads # {}
    <3>1. bad \in 1 .. Len(ranges) /\ \A i \in bads : bad <= i
      BY <1>1, <1>2, <2>2
    <3> QED
      BY <3>1
  <2> QED
    BY <2>1, <2>2
<1>5. (\A i \in 1 .. Len(ranges) : RangeOK(pages, ranges[i])) => count = Len(ranges)
  BY <1>1
<1> HIDE DEF count, bads
<1>6. \A i \in 1 .. count : Piece(pages, ranges[i]) \in Seq(T) \ {<<>>}
  <2>1. ASSUME NEW i \in 1 .. count PROVE Piece(pages, ranges[i]) \in Seq(T) \ {<<>>}
    <3>1. ranges[i] \in Int \X Int /\ RangeOK(pages, ranges[i])
      BY <1>4
    <3> QED
      BY <3>1, PieceType
  <2> QED
    BY <2>1
<1>7. [i \in 1 .. count |-> Piece(pages, ranges[i])] \in [1 .. count -> Seq(T) \ {<<>>}]
  BY <1>6
<1>8. count \in Nat /\ count <= Len(ranges)
  BY <1>4
<1>9. Pieces(pages, ranges) \in Seq(Seq(T) \ {<<>>}) /\ Len(Pieces(pages, ranges)) = count
  BY <1>3, <1>7, <1>8
<1> QED
  BY <1>3, <1>5, <1>8, <1>9

(* delete_pages and interleave go through the pages one by one.                  *)
Withouts(f, pages, nums) ==
  f = [i \in 0 .. Len(pages) |->
         IF i = 0 THEN <<>>
         ELSE IF i \in Range(nums) THEN f[i - 1] ELSE Append(f[i - 1], pages[i])]

LEMMA WithoutSteps ==
  ASSUME NEW T, NEW pages \in Seq(T), NEW nums
  PROVE  \E f \in [0 .. Len(pages) -> Seq(T)] :
           Withouts(f, pages, nums) /\ Without(pages, nums) = f[Len(pages)]
<1> DEFINE n == Len(pages)
           Body(i, x) == IF i \in Range(nums) THEN x ELSE Append(x, pages[i])
           step == [ix \in (1 .. n) \X Seq(T) |-> Body(ix[1], ix[2])]
           f == CHOOSE f : Withouts(f, pages, nums)
<1>1. \A i \in 1 .. n, x \in Seq(T) : Body(i, x) \in Seq(T)
  OBVIOUS
<1>2. step \in [(1 .. n) \X Seq(T) -> Seq(T)] /\ <<>> \in Seq(T) /\ n \in Nat
  BY <1>1
<1>3. \A i \in 1 .. n, x \in Seq(T) : step[<<i, x>>] = Body(i, x)
  OBVIOUS
<1> HIDE DEF step, n
<1>4. PICK g \in [0 .. n -> Seq(T)] : Recurses(g, n, <<>>, step)
  BY <1>2, Recursion
<1>5. \A i \in 1 .. n : i - 1 \in 0 .. n /\ i \in 0 .. n /\ i # 0 /\ g[i - 1] \in Seq(T)
  <2>1. \A i \in 1 .. n : i - 1 \in 0 .. n /\ i \in 0 .. n /\ i # 0
    BY <1>2
  <2> QED
    BY <2>1
<1>6. \A i \in 1 .. n : step[<<i, g[i - 1]>>] = Body(i, g[i - 1])
  BY <1>3, <1>5
<1>7. \A i \in 0 .. n : g[i] = IF i = 0 THEN <<>> ELSE Body(i, g[i - 1])
  <2> HIDE DEF Body
  <2>1. \A i \in 0 .. n : i # 0 => i \in 1 .. n
    BY <1>2
  <2> QED
    BY <1>4, <1>6, <2>1 DEF Recurses
<1>8. Withouts(g, pages, nums)
  BY <1>7 DEF Withouts, n
<1>9. Withouts(f, pages, nums)
  BY <1>8
<1>10. Without(pages, nums) = f[n]
  BY Zenon DEF Without, Withouts, n
<1> HIDE DEF f
<1>11. f = g
  <2>1. Function(f, n) /\ Function(g, n)
    BY <1>9 DEF Withouts, Function, n
  <2>2. \A i \in 0 .. n : f[i] = IF i = 0 THEN <<>> ELSE Body(i, f[i - 1])
    BY <1>9 DEF Withouts, n
  <2>3. 0 \in 0 .. n /\ f[0] = g[0]
    BY <1>2, <1>7, <2>2
  <2>4. \A i \in 1 .. n : g[i] = Body(i, g[i - 1]) /\ f[i] = Body(i, f[i - 1])
    BY <1>5, <1>7, <2>2
  <2>5. \A i \in 1 .. n : f[i - 1] = g[i - 1] => f[i] = g[i]
    BY <2>4, Zenon
  <2> HIDE DEF Body
  <2> QED
    BY <1>2, <2>1, <2>3, <2>5, Unique
<1> QED
  BY <1>8, <1>10, <1>11 DEF n

Longer(a, b) == IF Len(a) >= Len(b) THEN Len(a) ELSE Len(b)

Interleaves(f, a, b) ==
  f = [i \in 0 .. Longer(a, b) |-> IF i = 0 THEN <<>> ELSE f[i - 1] \o At(a, i) \o At(b, i)]

LEMMA InterleavedSteps ==
  ASSUME NEW T, NEW a \in Seq(T), NEW b \in Seq(T)
  PROVE  \E f \in [0 .. Longer(a, b) -> Seq(T)] :
           Interleaves(f, a, b) /\ Interleaved(a, b) = f[Longer(a, b)]
<1> DEFINE n == Longer(a, b)
           Body(i, x) == x \o At(a, i) \o At(b, i)
           step == [ix \in (1 .. n) \X Seq(T) |-> Body(ix[1], ix[2])]
           f == CHOOSE f : Interleaves(f, a, b)
<1>1. \A i \in 1 .. n, x \in Seq(T) : Body(i, x) \in Seq(T)
  <2>1. ASSUME NEW i \in 1 .. n, NEW x \in Seq(T) PROVE Body(i, x) \in Seq(T)
    <3>1. At(a, i) \in Seq(T) /\ At(b, i) \in Seq(T)
      BY DEF At
    <3> HIDE DEF n
    <3>2. x \o At(a, i) \in Seq(T)
      BY <3>1
    <3>3. (x \o At(a, i)) \o At(b, i) \in Seq(T)
      BY <3>1, <3>2
    <3> QED
      BY <3>3
  <2> QED
    BY <2>1
<1>2. step \in [(1 .. n) \X Seq(T) -> Seq(T)] /\ <<>> \in Seq(T) /\ n \in Nat
  <2>1. n \in Nat
    BY DEF Longer
  <2> HIDE DEF n
  <2> QED
    BY <1>1, <2>1
<1>3. \A i \in 1 .. n, x \in Seq(T) : step[<<i, x>>] = Body(i, x)
  OBVIOUS
<1> HIDE DEF step, n
<1>4. PICK g \in [0 .. n -> Seq(T)] : Recurses(g, n, <<>>, step)
  BY <1>2, Recursion
<1>5. \A i \in 1 .. n : i - 1 \in 0 .. n /\ i \in 0 .. n /\ i # 0 /\ g[i - 1] \in Seq(T)
  <2>1. \A i \in 1 .. n : i - 1 \in 0 .. n /\ i \in 0 .. n /\ i # 0
    BY <1>2
  <2> QED
    BY <2>1
<1>6. \A i \in 1 .. n : step[<<i, g[i - 1]>>] = Body(i, g[i - 1])
  BY <1>3, <1>5
<1>7. \A i \in 0 .. n : g[i] = IF i = 0 THEN <<>> ELSE Body(i, g[i - 1])
  <2> HIDE DEF Body
  <2>1. \A i \in 0 .. n : i # 0 => i \in 1 .. n
    BY <1>2
  <2> QED
    BY <1>4, <1>6, <2>1 DEF Recurses
<1>8. Interleaves(g, a, b)
  BY <1>7 DEF Interleaves, n
<1>9. Interleaves(f, a, b)
  BY <1>8
<1>10. Interleaved(a, b) = f[n]
  BY Zenon DEF Interleaved, Longer, Interleaves, n
<1> HIDE DEF f
<1>11. f = g
  <2>1. Function(f, n) /\ Function(g, n)
    BY <1>9 DEF Interleaves, Function, n
  <2>2. \A i \in 0 .. n : f[i] = IF i = 0 THEN <<>> ELSE Body(i, f[i - 1])
    BY <1>9 DEF Interleaves, n
  <2>3. 0 \in 0 .. n /\ f[0] = g[0]
    BY <1>2, <1>7, <2>2
  <2>4. \A i \in 1 .. n : g[i] = Body(i, g[i - 1]) /\ f[i] = Body(i, f[i - 1])
    BY <1>5, <1>7, <2>2
  <2>5. \A i \in 1 .. n : f[i - 1] = g[i - 1] => f[i] = g[i]
    BY <2>4, Zenon
  <2> HIDE DEF Body
  <2> QED
    BY <1>2, <2>1, <2>3, <2>5, Unique
<1> QED
  BY <1>8, <1>10, <1>11 DEF n

LEMMA WithoutType ==
  ASSUME NEW T, NEW pages \in Seq(T), NEW nums
  PROVE  Without(pages, nums) \in Seq(T)
<1>1. PICK f \in [0 .. Len(pages) -> Seq(T)] : Without(pages, nums) = f[Len(pages)]
  BY WithoutSteps
<1>2. Len(pages) \in 0 .. Len(pages)
  OBVIOUS
<1> QED
  BY <1>1, <1>2

(* How many of the numbers are below i.                                          *)
Below(nums, i) == {n \in Range(nums) : n < i}

LEMMA BelowSize ==
  ASSUME NEW n \in Nat, NEW nums, Range(nums) \subseteq 1 .. n
  PROVE  /\ \A i \in 1 .. n + 1 : Cardinality(Below(nums, i)) \in 0 .. i - 1
         /\ \A i \in 1 .. n : Cardinality(Below(nums, i + 1)) =
                              Cardinality(Below(nums, i)) + (IF i \in Range(nums) THEN 1 ELSE 0)
         /\ Below(nums, 1) = {} /\ Cardinality(Below(nums, 1)) = 0
         /\ Below(nums, n + 1) = Range(nums)
<1>1. \A i \in 1 .. n + 1 : /\ IsFiniteSet(Below(nums, i))
                            /\ Cardinality(Below(nums, i)) \in 0 .. i - 1
  <2>1. ASSUME NEW i \in 1 .. n + 1
        PROVE  IsFiniteSet(Below(nums, i)) /\ Cardinality(Below(nums, i)) \in 0 .. i - 1
    <3>1. Below(nums, i) \subseteq 1 .. i - 1
      BY DEF Below
    <3>2. IsFiniteSet(1 .. i - 1) /\ Cardinality(1 .. i - 1) = i - 1
      <4>1. i - 1 \in Nat
        OBVIOUS
      <4> QED
        BY <4>1, FS_Interval
    <3>3. /\ IsFiniteSet(Below(nums, i))
          /\ Cardinality(Below(nums, i)) <= i - 1
      BY <3>1, <3>2, FS_Subset
    <3>4. Cardinality(Below(nums, i)) \in Nat
      BY <3>3, FS_CardinalityType
    <3> QED
      BY <3>3, <3>4
  <2> QED
    BY <2>1
<1>2. ASSUME NEW i \in 1 .. n
      PROVE  Cardinality(Below(nums, i + 1)) =
               Cardinality(Below(nums, i)) + (IF i \in Range(nums) THEN 1 ELSE 0)
  <2>1. IsFiniteSet(Below(nums, i)) /\ Cardinality(Below(nums, i)) \in Nat
    BY <1>1
  <2>2. i \notin Below(nums, i)
    BY DEF Below
  <2>3. CASE i \in Range(nums)
    <3>1. Below(nums, i + 1) = Below(nums, i) \cup {i}
      BY <2>3 DEF Below
    <3>2. Cardinality(Below(nums, i) \cup {i}) = Cardinality(Below(nums, i)) + 1
      BY <2>1, <2>2, FS_AddElement
    <3> QED
      BY <2>3, <3>1, <3>2
  <2>4. CASE i \notin Range(nums)
    <3>1. Below(nums, i + 1) = Below(nums, i)
      BY <2>4 DEF Below
    <3> QED
      BY <2>1, <2>4, <3>1
  <2> QED
    BY <2>3, <2>4
<1>3. Below(nums, 1) = {} /\ Cardinality(Below(nums, 1)) = 0
  <2>1. Below(nums, 1) = {}
    BY DEF Below
  <2> QED
    BY <2>1, FS_EmptySet
<1>4. Below(nums, n + 1) = Range(nums)
  BY DEF Below
<1> QED
  BY <1>1, <1>2, <1>3, <1>4

LEMMA WithoutPlaces ==
  ASSUME NEW T, NEW pages \in Seq(T), NEW nums \in Seq(Int), AllInRange(pages, nums)
  PROVE  /\ Len(Without(pages, nums)) = Len(pages) - Cardinality(Range(nums))
         /\ Cardinality(Range(nums)) \in Nat
         /\ \A i \in DOMAIN pages \ Range(nums) :
              Without(pages, nums)[i - Cardinality(Below(nums, i))] = pages[i]
<1> DEFINE n == Len(pages)
           size(i) == Cardinality(Below(nums, i))
<1>1. Range(nums) \subseteq 1 .. n /\ n \in Nat /\ DOMAIN pages = 1 .. n
  BY DEF AllInRange, Range
<1>2. PICK f \in [0 .. n -> Seq(T)] :
        Withouts(f, pages, nums) /\ Without(pages, nums) = f[n]
  BY WithoutSteps
<1>3. \A i \in 0 .. n : f[i] = IF i = 0 THEN <<>>
                               ELSE IF i \in Range(nums) THEN f[i - 1] ELSE Append(f[i - 1], pages[i])
  BY <1>2 DEF Withouts
<1>4. /\ \A i \in 1 .. n + 1 : size(i) \in 0 .. i - 1
      /\ \A i \in 1 .. n : size(i + 1) = size(i) + (IF i \in Range(nums) THEN 1 ELSE 0)
      /\ size(1) = 0 /\ size(n + 1) = Cardinality(Range(nums))
  BY <1>1, BelowSize
<1> HIDE DEF size, n
<1> DEFINE Placed(k) ==
             /\ Len(f[k]) = k - size(k + 1)
             /\ \A i \in (1 .. k) \ Range(nums) :
                  i - size(i) \in 1 .. Len(f[k]) /\ f[k][i - size(i)] = pages[i]
           S == {k \in 0 .. n : Placed(k)}
<1>5. 0 \in S
  <2>1. f[0] = <<>> /\ 0 \in 0 .. n /\ Len(<<>>) = 0
    BY <1>1, <1>3
  <2>2. Placed(0)
    BY <1>4, <2>1
  <2> QED
    BY <2>1, <2>2
<1>6. ASSUME NEW k \in 0 .. n - 1, k \in S PROVE k + 1 \in S
  <2>1. /\ k + 1 \in 1 .. n /\ k + 1 \in 0 .. n /\ k + 1 # 0 /\ (k + 1) - 1 = k
        /\ k \in 0 .. n /\ k + 1 \in 1 .. n + 1
    BY <1>1
  <2>2. f[k + 1] = IF k + 1 \in Range(nums) THEN f[k] ELSE Append(f[k], pages[k + 1])
    BY <1>3, <2>1
  <2>3. f[k] \in Seq(T) /\ Len(f[k]) \in Nat
    BY <2>1
  <2>4. Placed(k)
    BY <1>6
  <2>5. size(k + 1) \in Nat
        /\ size((k + 1) + 1) = size(k + 1) + (IF k + 1 \in Range(nums) THEN 1 ELSE 0)
    BY <1>4, <2>1
  <2>6. \A i \in 1 .. k + 1 : i \in 1 .. k \/ i = k + 1
    BY <2>1
  <2>7. CASE k + 1 \in Range(nums)
    <3>1. f[k + 1] = f[k]
      BY <2>2, <2>7
    <3>2. Placed(k + 1)
      BY <2>1, <2>3, <2>4, <2>5, <2>6, <2>7, <3>1
    <3> QED
      BY <2>1, <3>2
  <2>8. CASE k + 1 \notin Range(nums)
    <3>1. f[k + 1] = Append(f[k], pages[k + 1])
      BY <2>2, <2>8
    <3>2. pages[k + 1] \in T
      BY <1>1, <2>1 DEF n
    <3>3. /\ Len(f[k + 1]) = Len(f[k]) + 1 /\ f[k + 1][Len(f[k]) + 1] = pages[k + 1]
          /\ \A j \in 1 .. Len(f[k]) : f[k + 1][j] = f[k][j]
      BY <2>3, <3>1, <3>2
    <3>4. Len(f[k + 1]) = (k + 1) - size((k + 1) + 1)
      BY <2>1, <2>4, <2>5, <2>8, <3>3
    <3>5. ASSUME NEW i \in (1 .. k + 1) \ Range(nums)
          PROVE  i - size(i) \in 1 .. Len(f[k + 1]) /\ f[k + 1][i - size(i)] = pages[i]
      <4>1. CASE i = k + 1
        <5>1. i - size(i) = Len(f[k]) + 1
          BY <2>1, <2>4, <2>5, <4>1
        <5> QED
          BY <2>3, <3>3, <4>1, <5>1
      <4>2. CASE i \in 1 .. k
        <5>1. i - size(i) \in 1 .. Len(f[k]) /\ f[k][i - size(i)] = pages[i]
          BY <2>4, <4>2
        <5> QED
          BY <2>3, <3>3, <5>1
      <4> QED
        BY <2>6, <4>1, <4>2
    <3>6. Placed(k + 1)
      BY <3>4, <3>5
    <3> QED
      BY <2>1, <3>6
  <2> QED
    BY <2>7, <2>8
<1> HIDE DEF S
<1>7. 0 .. n \subseteq S
  BY <1>1, <1>5, <1>6, UpTo
<1>8. n \in 0 .. n
  BY <1>1
<1>9. Placed(n)
  BY <1>7, <1>8 DEF S
<1>10. Cardinality(Range(nums)) \in Nat
  <2>1. n + 1 \in 1 .. n + 1
    BY <1>1
  <2> QED
    BY <1>4, <2>1
<1> QED
  BY <1>1, <1>2, <1>4, <1>9, <1>10 DEF n, size

LEMMA InterleavedType ==
  ASSUME NEW T, NEW a \in Seq(T), NEW b \in Seq(T)
  PROVE  Interleaved(a, b) \in Seq(T)
<1>1. PICK f \in [0 .. Longer(a, b) -> Seq(T)] : Interleaved(a, b) = f[Longer(a, b)]
  BY InterleavedSteps
<1>2. Longer(a, b) \in 0 .. Longer(a, b)
  BY DEF Longer
<1> QED
  BY <1>1, <1>2

Lesser(x, y) == IF x <= y THEN x ELSE y

LEMMA MinOfTwo ==
  ASSUME NEW x \in Int, NEW y \in Int
  PROVE  Min({x, y}) = Lesser(x, y)
<1>1. Lesser(x, y) \in {x, y} /\ \A z \in {x, y} : Lesser(x, y) <= z
  BY DEF Lesser
<1>2. \A u \in {x, y} : (\A z \in {x, y} : u <= z) => u = Lesser(x, y)
  BY DEF Lesser
<1> QED
  BY <1>1, <1>2 DEF Min

(* One page of the shorter file comes between any two of the longer, as long as   *)
(* there are any.                                                                *)
LEMMA InterleavedPlaces ==
  ASSUME NEW T, NEW a \in Seq(T), NEW b \in Seq(T)
  PROVE  /\ Len(Interleaved(a, b)) = Len(a) + Len(b)
         /\ \A i \in DOMAIN a : Interleaved(a, b)[i + Lesser(i - 1, Len(b))] = a[i]
         /\ \A i \in DOMAIN b : Interleaved(a, b)[i + Lesser(i, Len(a))] = b[i]
<1> DEFINE n == Longer(a, b)
           m == Len(a)
           l == Len(b)
<1>1. n \in Nat /\ m \in Nat /\ l \in Nat /\ m <= n /\ l <= n /\ DOMAIN a = 1 .. m /\ DOMAIN b = 1 .. l
  BY DEF Longer
<1>2. PICK f \in [0 .. n -> Seq(T)] : Interleaves(f, a, b) /\ Interleaved(a, b) = f[n]
  BY InterleavedSteps
<1>3. \A i \in 0 .. n : f[i] = IF i = 0 THEN <<>> ELSE f[i - 1] \o At(a, i) \o At(b, i)
  BY <1>2 DEF Interleaves
<1>4. \A i \in 1 .. n :
        /\ At(a, i) \in Seq(T) /\ Len(At(a, i)) = (IF i <= m THEN 1 ELSE 0)
        /\ i <= m => At(a, i)[1] = a[i]
        /\ At(b, i) \in Seq(T) /\ Len(At(b, i)) = (IF i <= l THEN 1 ELSE 0)
        /\ i <= l => At(b, i)[1] = b[i]
  BY <1>1 DEF At
<1> HIDE DEF n, m, l
<1> DEFINE Placed(k) ==
             /\ Len(f[k]) = Lesser(k, m) + Lesser(k, l)
             /\ \A i \in 1 .. m : i <= k =>
                  /\ i + Lesser(i - 1, l) \in 1 .. Len(f[k])
                  /\ f[k][i + Lesser(i - 1, l)] = a[i]
             /\ \A i \in 1 .. l : i <= k =>
                  i + Lesser(i, m) \in 1 .. Len(f[k]) /\ f[k][i + Lesser(i, m)] = b[i]
           S == {k \in 0 .. n : Placed(k)}
<1>5. 0 \in S
  <2>1. f[0] = <<>> /\ 0 \in 0 .. n /\ Len(<<>>) = 0
    BY <1>1, <1>3
  <2>2. Placed(0)
    BY <1>1, <2>1 DEF Lesser
  <2> QED
    BY <2>1, <2>2
<1>6. ASSUME NEW k \in 0 .. n - 1, k \in S PROVE k + 1 \in S
  <2> DEFINE A == At(a, k + 1)  B == At(b, k + 1)  before == f[k]  after == f[k + 1]
             size == Len(before)
  <2>1. k + 1 \in 1 .. n /\ k + 1 \in 0 .. n /\ k + 1 # 0 /\ (k + 1) - 1 = k /\ k \in 0 .. n
    BY <1>1
  <2>2. after = before \o A \o B
    BY <1>3, <2>1
  <2>3. before \in Seq(T) /\ size \in Nat
    BY <2>1
  <2>4. Placed(k)
    BY <1>6
  <2>5. /\ A \in Seq(T) /\ Len(A) = (IF k + 1 <= m THEN 1 ELSE 0) /\ (k + 1 <= m => A[1] = a[k + 1])
        /\ B \in Seq(T) /\ Len(B) = (IF k + 1 <= l THEN 1 ELSE 0) /\ (k + 1 <= l => B[1] = b[k + 1])
    BY <1>4, <2>1
  <2> HIDE DEF A, B
  <2>6. /\ Len(after) = size + Len(A) + Len(B)
        /\ \A j \in 1 .. size : after[j] = before[j]
        /\ k + 1 <= m => after[size + 1] = a[k + 1]
        /\ k + 1 <= l => after[size + Len(A) + 1] = b[k + 1]
    <3> DEFINE both == before \o A
    <3> HIDE DEF before, after
    <3>1. after = both \o B /\ before \in Seq(T)
      BY <2>2, <2>3
    <3>2. /\ both \in Seq(T) /\ Len(both) = size + Len(A)
          /\ \A j \in 1 .. size + Len(A) :
               both[j] = IF j <= size THEN before[j] ELSE A[j - size]
      BY <2>5, <3>1, ConcatProperties
    <3> HIDE DEF both
    <3>3. /\ Len(both \o B) = Len(both) + Len(B)
          /\ \A j \in 1 .. Len(both) + Len(B) :
               (both \o B)[j] = IF j <= Len(both) THEN both[j] ELSE B[j - Len(both)]
      <4>1. both \in Seq(T) /\ B \in Seq(T)
        BY <2>5, <3>2
      <4> QED
        BY <4>1, ConcatProperties, Zenon
    <3> HIDE DEF size
    <3>4. size \in Nat /\ Len(A) \in {0, 1} /\ Len(B) \in {0, 1}
      BY <2>3, <2>5
    <3>5. Len(after) = size + Len(A) + Len(B)
      BY <3>1, <3>2, <3>3, <3>4
    <3>6. ASSUME NEW j \in 1 .. size PROVE after[j] = before[j]
      <4>1. j \in 1 .. size + Len(A) /\ j \in 1 .. Len(both) + Len(B) /\ j <= Len(both)
        BY <3>2, <3>4
      <4>2. (both \o B)[j] = both[j]
        BY <3>3, <4>1
      <4> QED
        BY <3>1, <3>2, <4>1, <4>2
    <3>7. k + 1 <= m => after[size + 1] = a[k + 1]
      <4> SUFFICES ASSUME k + 1 <= m PROVE after[size + 1] = a[k + 1]
        OBVIOUS
      <4>1. Len(A) = 1 /\ A[1] = a[k + 1]
        BY <2>5
      <4>2. /\ size + 1 \in 1 .. size + Len(A) /\ ~ (size + 1 <= size) /\ (size + 1) - size = 1
            /\ size + 1 \in 1 .. Len(both) + Len(B) /\ size + 1 <= Len(both)
        BY <3>2, <3>4, <4>1
      <4>3. both[size + 1] = A[1]
        BY <3>2, <4>2
      <4>4. (both \o B)[size + 1] = both[size + 1]
        BY <3>3, <4>2
      <4> QED
        BY <3>1, <4>1, <4>3, <4>4
    <3>8. k + 1 <= l => after[size + Len(A) + 1] = b[k + 1]
      <4> SUFFICES ASSUME k + 1 <= l PROVE after[size + Len(A) + 1] = b[k + 1]
        OBVIOUS
      <4>1. Len(B) = 1 /\ B[1] = b[k + 1]
        BY <2>5
      <4>2. /\ Len(both) + 1 \in 1 .. Len(both) + Len(B) /\ ~ (Len(both) + 1 <= Len(both))
            /\ (Len(both) + 1) - Len(both) = 1 /\ Len(both) + 1 = size + Len(A) + 1
        BY <3>2, <3>4, <4>1
      <4>3. (both \o B)[Len(both) + 1] = B[1]
        BY <3>3, <4>2
      <4> QED
        BY <3>1, <4>1, <4>2, <4>3
    <3> QED
      BY <3>5, <3>6, <3>7, <3>8
  <2> HIDE DEF before, after, size
  <2>7. /\ size = Lesser(k, m) + Lesser(k, l)
        /\ \A i \in 1 .. m : i <= k =>
             i + Lesser(i - 1, l) \in 1 .. size /\ before[i + Lesser(i - 1, l)] = a[i]
        /\ \A i \in 1 .. l : i <= k => i + Lesser(i, m) \in 1 .. size /\ before[i + Lesser(i, m)] = b[i]
    BY <2>4 DEF before, size
  <2>12. /\ Lesser(k + 1, m) = Lesser(k, m) + Len(A) /\ Lesser(k + 1, l) = Lesser(k, l) + Len(B)
         /\ Lesser(k, m) \in Nat /\ Lesser(k, l) \in Nat
         /\ Len(A) \in {0, 1} /\ Len(B) \in {0, 1}
         /\ k + 1 <= m => Lesser(k, m) = k /\ Lesser(k + 1, m) = k + 1 /\ Len(A) = 1
         /\ k + 1 <= l => Lesser(k, l) = k /\ Lesser(k + 1, l) = k + 1 /\ Len(B) = 1
         /\ Lesser((k + 1) - 1, l) = Lesser(k, l)
    <3>1. Len(A) = (IF k + 1 <= m THEN 1 ELSE 0) /\ Len(B) = (IF k + 1 <= l THEN 1 ELSE 0)
      BY <2>5
    <3>2. k \in Nat
      BY <1>1
    <3> QED
      BY <1>1, <3>1, <3>2 DEF Lesser
  <2>8. Len(after) = Lesser(k + 1, m) + Lesser(k + 1, l)
    <3>1. Len(after) = size + Len(A) + Len(B)
      BY <2>6
    <3>2. size = Lesser(k, m) + Lesser(k, l)
      BY <2>7
    <3>3. /\ Lesser(k + 1, m) = Lesser(k, m) + Len(A) /\ Lesser(k + 1, l) = Lesser(k, l) + Len(B)
          /\ Lesser(k, m) \in Nat /\ Lesser(k, l) \in Nat /\ Len(A) \in Nat /\ Len(B) \in Nat
      BY <2>12
    <3> DEFINE p == Lesser(k, m)  q == Lesser(k, l)  u == Len(A)  v == Len(B)
    <3>4. (p + q) + u + v = (p + u) + (q + v)
      <4>1. p \in Nat /\ q \in Nat /\ u \in Nat /\ v \in Nat
        BY <3>3
      <4> HIDE DEF p, q, u, v
      <4> QED
        BY <4>1
    <3> QED
      BY <3>1, <3>2, <3>3, <3>4, Zenon
  <2>9. ASSUME NEW i \in 1 .. m, i <= k + 1
        PROVE  i + Lesser(i - 1, l) \in 1 .. Len(after) /\ after[i + Lesser(i - 1, l)] = a[i]
    <3>1. CASE i <= k
      <4> DEFINE x == i + Lesser(i - 1, l)
      <4>1. x \in 1 .. size /\ before[x] = a[i]
        BY <2>7, <3>1
      <4> HIDE DEF x
      <4>2. x \in 1 .. Len(after)
        <5>1. Len(after) = size + Len(A) + Len(B) /\ Len(A) \in Nat /\ Len(B) \in Nat
          BY <2>6, <2>12
        <5>2. size \in Nat /\ x \in 1 .. size
          BY <2>3, <4>1
        <5> QED
          BY <5>1, <5>2
      <4>3. after[x] = a[i]
        BY <2>6, <4>1
      <4> QED
        BY <4>2, <4>3 DEF x
    <3>2. CASE i = k + 1
      <4>1. i + Lesser(i - 1, l) = size + 1 /\ Len(A) = 1
        BY <2>7, <2>12, <3>2
      <4> QED
        BY <2>3, <2>6, <2>12, <3>2, <4>1
    <3> QED
      BY <1>1, <2>1, <2>9, <3>1, <3>2
  <2>10. ASSUME NEW i \in 1 .. l, i <= k + 1
         PROVE  i + Lesser(i, m) \in 1 .. Len(after) /\ after[i + Lesser(i, m)] = b[i]
    <3>1. CASE i <= k
      <4> DEFINE x == i + Lesser(i, m)
      <4>1. x \in 1 .. size /\ before[x] = b[i]
        BY <2>7, <3>1
      <4> HIDE DEF x
      <4>2. x \in 1 .. Len(after)
        <5>1. Len(after) = size + Len(A) + Len(B) /\ Len(A) \in Nat /\ Len(B) \in Nat
          BY <2>6, <2>12
        <5>2. size \in Nat /\ x \in 1 .. size
          BY <2>3, <4>1
        <5> QED
          BY <5>1, <5>2
      <4>3. after[x] = b[i]
        BY <2>6, <4>1
      <4> QED
        BY <4>2, <4>3 DEF x
    <3>2. CASE i = k + 1
      <4>1. i + Lesser(i, m) = size + Len(A) + 1 /\ Len(B) = 1
        BY <2>7, <2>12, <3>2
      <4> QED
        BY <2>3, <2>6, <2>12, <3>2, <4>1
    <3> QED
      BY <1>1, <2>1, <2>10, <3>1, <3>2
  <2>11. Placed(k + 1)
    BY <2>8, <2>9, <2>10 DEF after
  <2> QED
    BY <2>1, <2>11
<1> HIDE DEF S
<1>7. 0 .. n \subseteq S
  BY <1>1, <1>5, <1>6, UpTo
<1>8. n \in 0 .. n
  BY <1>1
<1>9. Placed(n)
  BY <1>7, <1>8 DEF S
<1>10. \A i \in 1 .. m : i <= n
  BY <1>1
<1>11. \A i \in 1 .. l : i <= n
  BY <1>1
<1>12. Lesser(n, m) = m /\ Lesser(n, l) = l
  BY <1>1 DEF Lesser
<1> QED
  BY <1>1, <1>2, <1>9, <1>10, <1>11, <1>12 DEF m, l

(* Two pieces that share no page merge back to the document.                      *)
LEMMA PiecesMerge ==
  ASSUME NEW T, NEW a \in Seq(T), NEW cut \in 1 .. Len(a) - 1
  PROVE  Merged(Pieces(a, <<<<1, cut>>, <<cut + 1, Len(a)>>>>)) = a
<1> DEFINE n == Len(a)
           ranges == <<<<1, cut>>, <<cut + 1, n>>>>
           x == Piece(a, <<1, cut>>)
           y == Piece(a, <<cut + 1, n>>)
           pieces == Pieces(a, ranges)
<1>1. n \in Nat /\ cut \in Nat /\ 1 <= cut /\ cut + 1 <= n
  OBVIOUS
<1>2. /\ ranges \in Seq(Int \X Int) /\ Len(ranges) = 2
      /\ ranges[1] = <<1, cut>> /\ ranges[2] = <<cut + 1, n>>
      /\ <<1, cut>> \in Int \X Int /\ <<cut + 1, n>> \in Int \X Int
  BY <1>1
<1>3. RangeOK(a, <<1, cut>>) /\ RangeOK(a, <<cut + 1, n>>)
  BY <1>1 DEF RangeOK
<1>4. \A i \in 1 .. Len(ranges) : RangeOK(a, ranges[i])
  <2>1. \A i \in 1 .. 2 : i = 1 \/ i = 2
    OBVIOUS
  <2> QED
    BY <1>2, <1>3, <2>1
<1>5. /\ x \in Seq(T) /\ Len(x) = cut /\ \A j \in 1 .. cut : x[j] = a[j]
  <2>1. /\ x \in Seq(T) /\ Len(x) = cut - 1 + 1
        /\ \A j \in 1 .. cut - 1 + 1 : x[j] = a[1 + j - 1]
    <3> DEFINE r == <<1, cut>>
    <3>1. r \in Int \X Int /\ RangeOK(a, r) /\ r[1] = 1 /\ r[2] = cut /\ x = Piece(a, r)
      BY <1>2, <1>3
    <3> HIDE DEF r, x
    <3>2. /\ Piece(a, r) \in Seq(T) /\ Len(Piece(a, r)) = r[2] - r[1] + 1
          /\ \A j \in 1 .. r[2] - r[1] + 1 : Piece(a, r)[j] = a[r[1] + j - 1]
      BY <3>1, PieceType
    <3> QED
      BY <3>1, <3>2
  <2>2. cut - 1 + 1 = cut /\ \A j \in 1 .. cut : 1 + j - 1 = j
    BY <1>1
  <2> HIDE DEF x
  <2> QED
    BY <2>1, <2>2
<1>6. /\ y \in Seq(T) /\ Len(y) = n - cut /\ \A j \in 1 .. n - cut : y[j] = a[cut + j]
  <2>1. /\ y \in Seq(T) /\ Len(y) = n - (cut + 1) + 1
        /\ \A j \in 1 .. n - (cut + 1) + 1 : y[j] = a[(cut + 1) + j - 1]
    <3> DEFINE range == <<cut + 1, n>>
    <3>1. range \in Int \X Int /\ RangeOK(a, range) /\ range[1] = cut + 1 /\ range[2] = n
      BY <1>2, <1>3
    <3> HIDE DEF range, n
    <3>2. /\ Piece(a, range) \in Seq(T) /\ Len(Piece(a, range)) = range[2] - range[1] + 1
          /\ \A j \in 1 .. range[2] - range[1] + 1 : Piece(a, range)[j] = a[range[1] + j - 1]
      BY <3>1, PieceType
    <3>3. y = Piece(a, range)
      BY DEF range
    <3> HIDE DEF y
    <3> QED
      BY <3>1, <3>2, <3>3
  <2>2. n - (cut + 1) + 1 = n - cut /\ \A j \in 1 .. n - cut : (cut + 1) + j - 1 = cut + j
    BY <1>1
  <2> HIDE DEF y, n
  <2> QED
    BY <2>1, <2>2
<1>7. pieces = [i \in 1 .. Len(ranges) |-> Piece(a, ranges[i])]
  <2> HIDE DEF ranges
  <2>1. ranges \in Seq(Int \X Int) /\ \A i \in 1 .. Len(ranges) : RangeOK(a, ranges[i])
    BY <1>2, <1>4, Zenon
  <2> QED
    BY <2>1, PiecesType, Zenon
<1> HIDE DEF ranges, pieces, x, y
<1>8. pieces[1] = x /\ pieces[2] = y /\ DOMAIN pieces = 1 .. 2
  <2>1. DOMAIN pieces = 1 .. 2 /\ pieces[1] = Piece(a, ranges[1]) /\ pieces[2] = Piece(a, ranges[2])
    <3>1. Len(ranges) = 2
      BY <1>2
    <3>2. pieces = [i \in 1 .. 2 |-> Piece(a, ranges[i])]
      BY <1>7, <3>1
    <3> QED
      BY <3>2
  <2> QED
    BY <1>2, <2>1, Zenon DEF x, y
<1>9. pieces \in Seq(Seq(T)) /\ Len(pieces) = 2
  <2>1. \A i \in 1 .. 2 : i = 1 \/ i = 2
    OBVIOUS
  <2>2. \A i \in 1 .. 2 : pieces[i] \in Seq(T)
    BY <1>5, <1>6, <1>8, <2>1
  <2>3. pieces = [i \in 1 .. 2 |-> pieces[i]]
    BY <1>7, <1>8
  <2>4. pieces \in [1 .. 2 -> Seq(T)] /\ 2 \in Nat
    BY <2>2, <2>3
  <2> QED
    BY <2>4, ListOf
<1>10. Merged(pieces) = x \o y
  BY <1>8, <1>9, FlattenTwo DEF Merged
<1>11. /\ x \o y \in Seq(T) /\ Len(x \o y) = Len(x) + Len(y)
       /\ \A j \in 1 .. Len(x) + Len(y) :
            (x \o y)[j] = IF j <= Len(x) THEN x[j] ELSE y[j - Len(x)]
  BY <1>5, <1>6, ConcatProperties
<1> DEFINE both == x \o y
<1> HIDE DEF both
<1>12. both \in Seq(T) /\ Len(both) = n
  BY <1>1, <1>5, <1>6, <1>11 DEF both
<1>13. ASSUME NEW j \in 1 .. n PROVE both[j] = a[j]
  <2>1. j \in 1 .. Len(x) + Len(y)
    BY <1>1, <1>5, <1>6
  <2>2. both[j] = IF j <= cut THEN x[j] ELSE y[j - cut]
    BY <1>5, <1>11, <2>1 DEF both
  <2>3. CASE j <= cut
    BY <1>1, <1>5, <2>2, <2>3
  <2>4. CASE ~ (j <= cut)
    <3>1. j - cut \in 1 .. n - cut /\ cut + (j - cut) = j
      BY <1>1, <2>4
    <3>2. y[j - cut] = a[cut + (j - cut)]
      BY <1>6, <3>1
    <3> QED
      BY <2>2, <2>4, <3>1, <3>2
  <2> QED
    BY <2>3, <2>4
<1>14. both = a
  BY <1>12, <1>13
<1> QED
  BY <1>10, <1>14, Zenon DEF both, pieces, ranges, n

-----------------------------------------------------------------------------
(* The state.                                                                     *)
PageLists == Seq(PageRecords) \ {<<>>}

LEMMA FileTyped ==
  ASSUME TypeOK, NEW p \in DOMAIN files
  PROVE  /\ p \in Paths /\ files[p] \in DocumentRecords
         /\ files[p].pages \in PageLists /\ files[p].pages \in Seq(PageRecords)
         /\ Len(files[p].pages) \in Nat \ {0} /\ DOMAIN files[p].pages = 1 .. Len(files[p].pages)
         /\ files[p].labels \in Seq(LabelDicts) /\ files[p].outline \in Seq(Items)
<1>1. p \in Paths /\ files[p] \in DocumentRecords
  BY DEF TypeOK
<1>2. /\ files[p].pages \in PageLists /\ files[p].pages \in Seq(PageRecords)
      /\ files[p].labels \in Seq(LabelDicts) /\ files[p].outline \in Seq(Items)
  BY <1>1 DEF DocumentRecords, PageLists
<1> DEFINE pages == files[p].pages
<1>3. pages \in Seq(PageRecords) /\ pages # <<>>
  BY <1>2 DEF PageLists
<1> HIDE DEF pages
<1>4. Len(pages) \in Nat \ {0} /\ DOMAIN pages = 1 .. Len(pages)
  BY <1>3
<1> QED
  BY <1>1, <1>2, <1>4 DEF pages

(* PageAlgebra in every state of the right types.                                 *)
LEMMA AlgebraHolds ==
  ASSUME TypeOK
  PROVE  PageAlgebra
<1> SUFFICES ASSUME NEW p \in DOMAIN files, NEW q \in DOMAIN files
             PROVE  LET a == files[p].pages  b == files[q].pages  mixed == Interleaved(a, b)
                        PlaceOfA(i) == i + Min({i - 1, Len(b)})
                        PlaceOfB(i) == i + Min({i, Len(a)})
                    IN /\ \A cut \in 1 .. Len(a) - 1 :
                            Merged(Pieces(a, <<<<1, cut>>, <<cut + 1, Len(a)>>>>)) = a
                       /\ Len(mixed) = Len(a) + Len(b)
                       /\ \A i \in DOMAIN a : mixed[PlaceOfA(i)] = a[i]
                       /\ \A i \in DOMAIN b : mixed[PlaceOfB(i)] = b[i]
                       /\ \A nums \in PageArgs : Deletable(a, nums) =>
                            LET rest == Without(a, nums) IN
                            /\ Len(rest) = Len(a) - Cardinality(Range(nums))
                            /\ \A i \in DOMAIN a \ Range(nums) :
                                 rest[i - Cardinality({n \in Range(nums) : n < i})] = a[i]
  BY DEF PageAlgebra
<1> DEFINE a == files[p].pages  b == files[q].pages
<1>1. a \in Seq(PageRecords) /\ b \in Seq(PageRecords)
      /\ Len(a) \in Nat /\ Len(b) \in Nat /\ DOMAIN a = 1 .. Len(a) /\ DOMAIN b = 1 .. Len(b)
  BY FileTyped
<1> HIDE DEF a, b
<1>2. \A cut \in 1 .. Len(a) - 1 : Merged(Pieces(a, <<<<1, cut>>, <<cut + 1, Len(a)>>>>)) = a
  BY <1>1, PiecesMerge
<1>3. /\ Len(Interleaved(a, b)) = Len(a) + Len(b)
      /\ \A i \in DOMAIN a : Interleaved(a, b)[i + Lesser(i - 1, Len(b))] = a[i]
      /\ \A i \in DOMAIN b : Interleaved(a, b)[i + Lesser(i, Len(a))] = b[i]
  BY <1>1, InterleavedPlaces
<1>4. ASSUME NEW i \in DOMAIN a PROVE Interleaved(a, b)[i + Min({i - 1, Len(b)})] = a[i]
  <2>1. i - 1 \in Int /\ Len(b) \in Int
    BY <1>1
  <2>2. Min({i - 1, Len(b)}) = Lesser(i - 1, Len(b))
    BY <2>1, MinOfTwo
  <2> QED
    BY <1>3, <2>2
<1>5. ASSUME NEW i \in DOMAIN b PROVE Interleaved(a, b)[i + Min({i, Len(a)})] = b[i]
  <2>1. i \in Int /\ Len(a) \in Int
    BY <1>1
  <2>2. Min({i, Len(a)}) = Lesser(i, Len(a))
    BY <2>1, MinOfTwo
  <2> QED
    BY <1>3, <2>2
<1>6. ASSUME NEW nums \in PageArgs, Deletable(a, nums)
      PROVE  /\ Len(Without(a, nums)) = Len(a) - Cardinality(Range(nums))
             /\ \A i \in DOMAIN a \ Range(nums) :
                  Without(a, nums)[i - Cardinality({n \in Range(nums) : n < i})] = a[i]
  <2>1. nums \in Seq(Int) /\ AllInRange(a, nums)
    BY <1>6, ArgsAssumption DEF Deletable
  <2>2. /\ Len(Without(a, nums)) = Len(a) - Cardinality(Range(nums))
        /\ \A i \in DOMAIN a \ Range(nums) :
             Without(a, nums)[i - Cardinality(Below(nums, i))] = a[i]
    BY <1>1, <2>1, WithoutPlaces
  <2> QED
    BY <2>2, Zenon DEF Below
<1> QED
  BY <1>2, <1>3, <1>4, <1>5, <1>6, Zenon DEF a, b

(* ComparisonsSound in every state of the right types.                            *)
LEMMA MaxOfTwo ==
  ASSUME NEW x \in Int, NEW y \in Int
  PROVE  Max({x, y}) = IF x >= y THEN x ELSE y
<1> DEFINE m == IF x >= y THEN x ELSE y
<1>1. m \in {x, y} /\ \A z \in {x, y} : m >= z
  OBVIOUS
<1>2. \A u \in {x, y} : (\A z \in {x, y} : u >= z) => u = m
  OBVIOUS
<1> QED
  BY <1>1, <1>2 DEF Max

TextKind(a, b, i) ==
  CASE i \notin DOMAIN b -> "removed"
    [] i \notin DOMAIN a -> "added"
    [] OTHER -> IF Text(a[i]) = Text(b[i]) THEN "same" ELSE "changed"

StructureKind(a, b, i) ==
  CASE i \notin DOMAIN b -> "removed"
    [] i \notin DOMAIN a -> "added"
    [] OTHER -> IF Structure(a[i]) = Structure(b[i]) THEN "same" ELSE "changed"

LEMMA DifferencesFound ==
  ASSUME NEW T, NEW a \in Seq(T), NEW b \in Seq(T)
  PROVE  /\ CompareText(a, b) = {<<i, TextKind(a, b, i)>> :
                                   i \in {j \in 1 .. Longer(a, b) : TextKind(a, b, j) # "same"}}
         /\ CompareStructure(a, b) =
              {<<i, StructureKind(a, b, i)>> :
                 i \in {j \in 1 .. Longer(a, b) : StructureKind(a, b, j) # "same"}}
<1>1. Len(a) \in Int /\ Len(b) \in Int
  OBVIOUS
<1>2. Compared(a, b) = 1 .. Longer(a, b)
  BY <1>1, MaxOfTwo DEF Compared, Longer
<1>3. CompareText(a, b) = {<<i, TextKind(a, b, i)>> :
                             i \in {j \in 1 .. Longer(a, b) : TextKind(a, b, j) # "same"}}
  BY <1>2, Zenon DEF CompareText, Differences, TextKind
<1>4. CompareStructure(a, b) =
        {<<i, StructureKind(a, b, i)>> :
           i \in {j \in 1 .. Longer(a, b) : StructureKind(a, b, j) # "same"}}
  BY <1>2, Zenon DEF CompareStructure, Differences, StructureKind
<1> QED
  BY <1>3, <1>4

LEMMA ComparisonsHold ==
  ASSUME TypeOK
  PROVE  ComparisonsSound
<1> DEFINE Mirror(kind) == CASE kind = "added" -> "removed" [] kind = "removed" -> "added"
                             [] OTHER -> kind
<1> SUFFICES ASSUME NEW p \in DOMAIN files, NEW q \in DOMAIN files
             PROVE  LET a == files[p].pages  b == files[q].pages IN
                    /\ CompareText(a, b) = {} /\ CompareStructure(a, b) = {} =>
                         /\ Len(a) = Len(b)
                         /\ \A i \in DOMAIN a : Text(a[i]) = Text(b[i]) /\ Structure(a[i]) = Structure(b[i])
                    /\ CompareText(b, a) = {<<d[1], Mirror(d[2])>> : d \in CompareText(a, b)}
  BY Zenon DEF ComparisonsSound
<1> DEFINE a == files[p].pages  b == files[q].pages  n == Longer(a, b)
<1>1. /\ a \in Seq(PageRecords) /\ b \in Seq(PageRecords)
      /\ Len(a) \in Nat \ {0} /\ Len(b) \in Nat \ {0}
      /\ DOMAIN a = 1 .. Len(a) /\ DOMAIN b = 1 .. Len(b)
  BY FileTyped
<1> HIDE DEF a, b
<1>2. /\ CompareText(a, b) = {<<i, TextKind(a, b, i)>> :
                                i \in {j \in 1 .. n : TextKind(a, b, j) # "same"}}
      /\ CompareStructure(a, b) = {<<i, StructureKind(a, b, i)>> :
                                     i \in {j \in 1 .. n : StructureKind(a, b, j) # "same"}}
  BY <1>1, DifferencesFound
<1>3. n \in Nat /\ Len(a) \in 1 .. n /\ Len(b) \in 1 .. n
      /\ DOMAIN a \subseteq 1 .. n /\ DOMAIN b \subseteq 1 .. n /\ n \in {Len(a), Len(b)}
  BY <1>1 DEF Longer
<1>4. Longer(b, a) = n
  BY <1>1 DEF Longer
<1>5. CompareText(b, a) = {<<i, TextKind(b, a, i)>> :
                             i \in {j \in 1 .. n : TextKind(b, a, j) # "same"}}
  BY <1>1, <1>4, DifferencesFound
<1>9. Len(a) \in Nat /\ Len(b) \in Nat /\ n \in Nat /\ Len(a) <= n /\ Len(b) <= n
  BY <1>1 DEF Longer
<1> HIDE DEF n
<1>6. ASSUME CompareText(a, b) = {}, CompareStructure(a, b) = {}
      PROVE  /\ Len(a) = Len(b)
             /\ \A i \in DOMAIN a : Text(a[i]) = Text(b[i]) /\ Structure(a[i]) = Structure(b[i])
  <2>1. \A i \in 1 .. n : TextKind(a, b, i) = "same"
    BY <1>2, <1>6
  <2>2. \A i \in 1 .. n : StructureKind(a, b, i) = "same"
    BY <1>2, <1>6
  <2>3. \A i \in 1 .. n : /\ i \in DOMAIN a /\ i \in DOMAIN b
                          /\ Text(a[i]) = Text(b[i])
    BY <2>1, Zenon DEF TextKind
  <2>4. \A i \in 1 .. n : Structure(a[i]) = Structure(b[i])
    BY <2>2, <2>3, Zenon DEF StructureKind
  <2>5. Len(a) = Len(b)
    <3>1. n \in 1 .. n
      BY <1>1, <1>3
    <3>2. n \in 1 .. Len(a) /\ n \in 1 .. Len(b)
      BY <1>1, <2>3, <3>1
    <3>3. Len(a) \in Nat /\ Len(b) \in Nat /\ n \in Nat /\ Len(a) <= n /\ Len(b) <= n
      BY <1>9
    <3>4. n <= Len(a) /\ n <= Len(b)
      BY <3>2, <3>3
    <3> QED
      BY <3>3, <3>4
  <2> QED
    BY <1>3, <2>3, <2>4, <2>5
<1>7. \A i \in 1 .. n : /\ TextKind(b, a, i) = Mirror(TextKind(a, b, i))
                        /\ TextKind(a, b, i) # "same" <=> TextKind(b, a, i) # "same"
  <2>1. ASSUME NEW i \in 1 .. n
        PROVE  /\ TextKind(b, a, i) = Mirror(TextKind(a, b, i))
               /\ TextKind(a, b, i) # "same" <=> TextKind(b, a, i) # "same"
    <3>1. i \in DOMAIN a \/ i \in DOMAIN b
      BY <1>1, <1>3
    <3>2. CASE i \notin DOMAIN b
      <4>1. TextKind(a, b, i) = "removed" /\ TextKind(b, a, i) = "added"
        BY <3>1, <3>2 DEF TextKind
      <4> QED
        BY <4>1
    <3>3. CASE i \notin DOMAIN a
      <4>1. TextKind(a, b, i) = "added" /\ TextKind(b, a, i) = "removed"
        BY <3>1, <3>3 DEF TextKind
      <4> QED
        BY <4>1
    <3>4. CASE i \in DOMAIN a /\ i \in DOMAIN b
      <4> DEFINE same == Text(a[i]) = Text(b[i])
      <4>1. /\ TextKind(a, b, i) = IF Text(a[i]) = Text(b[i]) THEN "same" ELSE "changed"
            /\ TextKind(b, a, i) = IF Text(b[i]) = Text(a[i]) THEN "same" ELSE "changed"
        BY <3>4 DEF TextKind
      <4> QED
        BY <4>1
    <3> QED
      BY <3>2, <3>3, <3>4
  <2> QED
    BY <2>1
<1>8. CompareText(b, a) = {<<d[1], Mirror(d[2])>> : d \in CompareText(a, b)}
  <2> HIDE DEF Mirror
  <2>1. ASSUME NEW e \in CompareText(b, a)
        PROVE  e \in {<<d[1], Mirror(d[2])>> : d \in CompareText(a, b)}
    <3>1. PICK i \in 1 .. n : TextKind(b, a, i) # "same" /\ e = <<i, TextKind(b, a, i)>>
      BY <1>5
    <3> DEFINE d == <<i, TextKind(a, b, i)>>
    <3>2. d \in CompareText(a, b)
      BY <1>2, <1>7, <3>1
    <3>3. e = <<d[1], Mirror(d[2])>>
      BY <1>7, <3>1
    <3> HIDE DEF d
    <3> QED
      BY <3>2, <3>3
  <2>2. ASSUME NEW d \in CompareText(a, b)
        PROVE  <<d[1], Mirror(d[2])>> \in CompareText(b, a)
    <3>1. PICK i \in 1 .. n : TextKind(a, b, i) # "same" /\ d = <<i, TextKind(a, b, i)>>
      BY <1>2
    <3>2. <<d[1], Mirror(d[2])>> = <<i, TextKind(b, a, i)>>
      BY <1>7, <3>1
    <3> QED
      BY <1>5, <1>7, <3>1, <3>2
  <2> QED
    BY <2>1, <2>2
<1> QED
  BY <1>6, <1>8, Zenon DEF a, b

-----------------------------------------------------------------------------
(* What the calls do to one page.                                                 *)
Inside == {page \in PageRecords : CropInside(page)}

LEMMA PageTyped ==
  ASSUME NEW page \in PageRecords
  PROVE  /\ page.id \in Nat /\ page.rotation \in Nat
         /\ page.media \in Boxes /\ Proper(page.media) /\ page.crop \in Boxes
         /\ page.marks \in Seq([number : Nat, x : Int, y : Int])
         /\ Width(page.media) \in Nat \ {0} /\ Height(page.media) \in Nat \ {0}
<1>1. /\ page.id \in Nat /\ page.rotation \in Nat
      /\ page.media \in Boxes /\ Proper(page.media) /\ page.crop \in Boxes
      /\ page.marks \in Seq([number : Nat, x : Int, y : Int])
  BY DEF PageRecords
<1>2. Width(page.media) \in Nat \ {0} /\ Height(page.media) \in Nat \ {0}
  <2> DEFINE media == page.media
  <2>1. media \in Boxes /\ Proper(media)
    BY <1>1
  <2> HIDE DEF media
  <2>2. Width(media) \in Nat \ {0} /\ Height(media) \in Nat \ {0}
    BY <2>1 DEF Boxes, Proper, Width, Height
  <2> QED
    BY <2>2 DEF media
<1> QED
  BY <1>1, <1>2

LEMMA RotatedPage ==
  ASSUME NEW page \in PageRecords, NEW angle \in Nat
  PROVE  LET new == [page EXCEPT !.rotation = @ + angle] IN
         new \in PageRecords /\ (page \in Inside => new \in Inside)
<1> DEFINE new == [page EXCEPT !.rotation = @ + angle]
<1>1. new \in PageRecords /\ new.crop = page.crop /\ new.media = page.media
  BY DEF PageRecords
<1> HIDE DEF new
<1>2. page \in Inside => new \in Inside
  BY <1>1 DEF Inside, CropInside
<1> QED
  BY <1>1, <1>2 DEF new

LEMMA CroppedPage ==
  ASSUME NEW page \in PageRecords, NEW offset \in Boxes,
         \A side \in DOMAIN offset : offset[side] >= 0, Proper(CroppedBox(page.media, offset))
  PROVE  [page EXCEPT !.crop = CroppedBox(page.media, offset)] \in Inside
<1> DEFINE media == page.media  box == CroppedBox(media, offset)
           new == [page EXCEPT !.crop = box]
<1>1. media \in Boxes
  BY PageTyped
<1> HIDE DEF media
<1>2. /\ box \in Boxes
      /\ box.left = media.left + offset.left /\ box.bottom = media.bottom + offset.bottom
      /\ box.right = media.right - offset.right /\ box.top = media.top - offset.top
  BY <1>1 DEF Boxes, CroppedBox
<1>3. Within(box, media)
  <2>1. /\ offset.left \in Nat /\ offset.bottom \in Nat /\ offset.right \in Nat /\ offset.top \in Nat
    <3>1. DOMAIN offset = {"left", "bottom", "right", "top"}
      BY DEF Boxes
    <3>2. /\ offset.left >= 0 /\ offset.bottom >= 0 /\ offset.right >= 0 /\ offset.top >= 0
      BY <3>1
    <3> QED
      BY <3>2 DEF Boxes
  <2>2. /\ media.left \in Int /\ media.bottom \in Int /\ media.right \in Int /\ media.top \in Int
    BY <1>1 DEF Boxes
  <2> HIDE DEF box
  <2> QED
    BY <1>2, <2>1, <2>2 DEF Within
<1>4. Proper(box)
  BY DEF media
<1> HIDE DEF box
<1>5. new \in PageRecords /\ new.crop = box /\ new.media = media
  BY <1>2 DEF PageRecords, media
<1> HIDE DEF new
<1>6. new \in Inside
  BY <1>3, <1>4, <1>5 DEF Inside, CropInside
<1> QED
  BY <1>6 DEF new, box, media

(* A box scaled to a multiple of the old size is the box times that factor.       *)
LEMMA Scaling ==
  ASSUME NEW d \in Nat \ {0}, NEW w \in Int, w > 0, w % d = 0
  PROVE  \E k \in Nat \ {0} : \A x \in Int : (x * w) \div d = x * k
<1> DEFINE k == w \div d
<1>1. k \in Int /\ w = d * k + (w % d)
  OBVIOUS
<1>2. k \in Int /\ w = d * k
  BY <1>1
<1> HIDE DEF k
<1>3. k > 0
  BY <1>2
<1>4. ASSUME NEW x \in Int PROVE (x * w) \div d = x * k
  <2>1. x * w = (x * k) * d
    BY <1>2
  <2>2. x * k \in Int
    BY <1>2
  <2>3. \A y \in Int : (y * d) \div d = y
    OBVIOUS
  <2> QED
    BY <2>1, <2>2, <2>3
<1> QED
  BY <1>2, <1>3, <1>4

Times(box, k, l) ==
  [left |-> box.left * k, bottom |-> box.bottom * l, right |-> box.right * k, top |-> box.top * l]

LEMMA Growing ==
  ASSUME NEW x \in Int, NEW y \in Int, NEW k \in Nat \ {0}
  PROVE  /\ x * k \in Int /\ y * k \in Int
         /\ x < y => x * k < y * k
         /\ x <= y => x * k <= y * k
<1>1. x * k \in Int /\ y * k \in Int
  OBVIOUS
<1>2. x < y => x * k < y * k
  <2> SUFFICES ASSUME x < y PROVE x * k < y * k
    OBVIOUS
  <2> DEFINE d == y - x
  <2>1. d \in Nat /\ d > 0 /\ y = x + d
    OBVIOUS
  <2> HIDE DEF d
  <2>2. y * k = x * k + d * k
    BY <2>1
  <2>3. d * k > 0
    BY <2>1
  <2>4. d * k \in Int
    BY <2>1
  <2> QED
    BY <1>1, <2>2, <2>3, <2>4
<1>3. x = y => x * k = y * k
  OBVIOUS
<1>4. x <= y => x < y \/ x = y
  OBVIOUS
<1> QED
  BY <1>1, <1>2, <1>3, <1>4

LEMMA TimesKeeps ==
  ASSUME NEW box \in Boxes, NEW k \in Nat \ {0}, NEW l \in Nat \ {0}
  PROVE  /\ Times(box, k, l) \in Boxes
         /\ Proper(box) => Proper(Times(box, k, l))
         /\ \A outer \in Boxes : Within(box, outer) => Within(Times(box, k, l), Times(outer, k, l))
<1>1. /\ box.left \in Int /\ box.bottom \in Int /\ box.right \in Int /\ box.top \in Int
  BY DEF Boxes
<1>2. Times(box, k, l) \in Boxes
  <2>1. box.left * k \in Int /\ box.bottom * l \in Int /\ box.right * k \in Int /\ box.top * l \in Int
    BY <1>1, Growing
  <2> QED
    BY <2>1 DEF Boxes, Times
<1>3. Proper(box) => Proper(Times(box, k, l))
  <2>1. /\ box.left < box.right => box.left * k < box.right * k
        /\ box.bottom < box.top => box.bottom * l < box.top * l
    BY <1>1, Growing
  <2> QED
    BY <2>1 DEF Proper, Times
<1>4. ASSUME NEW outer \in Boxes, Within(box, outer)
      PROVE  Within(Times(box, k, l), Times(outer, k, l))
  <2>1. /\ outer.left \in Int /\ outer.bottom \in Int /\ outer.right \in Int /\ outer.top \in Int
    BY DEF Boxes
  <2>2. /\ outer.left <= box.left => outer.left * k <= box.left * k
        /\ box.right <= outer.right => box.right * k <= outer.right * k
        /\ outer.bottom <= box.bottom => outer.bottom * l <= box.bottom * l
        /\ box.top <= outer.top => box.top * l <= outer.top * l
    BY <1>1, <2>1, Growing
  <2> QED
    BY <1>4, <2>2 DEF Within, Times
<1> QED
  BY <1>2, <1>3, <1>4

LEMMA ResizedPage ==
  ASSUME NEW page \in PageRecords, NEW width \in Int, NEW height \in Int, width > 0, height > 0,
         width % Width(page.media) = 0, height % Height(page.media) = 0
  PROVE  LET new == [page EXCEPT !.media = ScaledBox(@, page.media, width, height),
                                 !.crop = ScaledBox(Visible(page), page.media, width, height)]
         IN  new \in PageRecords /\ (page \in Inside => new \in Inside)
<1> DEFINE media == page.media  crop == page.crop  seen == Visible(page)
           newMedia == ScaledBox(media, media, width, height)
           newCrop  == ScaledBox(seen, media, width, height)
           new == [page EXCEPT !.media = newMedia, !.crop = newCrop]
<1>1. /\ media \in Boxes /\ Proper(media) /\ crop \in Boxes
      /\ Width(media) \in Nat \ {0} /\ Height(media) \in Nat \ {0}
  BY PageTyped
<1>2. seen \in Boxes
  BY <1>1 DEF Visible
<1>3. PICK k \in Nat \ {0} : \A x \in Int : (x * width) \div Width(media) = x * k
  BY <1>1, Scaling
<1>4. PICK l \in Nat \ {0} : \A x \in Int : (x * height) \div Height(media) = x * l
  BY <1>1, Scaling
<1> HIDE DEF media, seen
<1>5. \A box \in Boxes : ScaledBox(box, media, width, height) = Times(box, k, l)
  <2>1. ASSUME NEW box \in Boxes PROVE ScaledBox(box, media, width, height) = Times(box, k, l)
    <3>1. /\ box.left \in Int /\ box.bottom \in Int /\ box.right \in Int /\ box.top \in Int
      BY DEF Boxes
    <3>2. /\ (box.left * width) \div Width(media) = box.left * k
          /\ (box.right * width) \div Width(media) = box.right * k
          /\ (box.bottom * height) \div Height(media) = box.bottom * l
          /\ (box.top * height) \div Height(media) = box.top * l
      BY <1>3, <1>4, <3>1
    <3> QED
      BY <3>2, Zenon DEF ScaledBox, Times
  <2> QED
    BY <2>1
<1>6. newMedia = Times(media, k, l) /\ newCrop = Times(seen, k, l)
  BY <1>1, <1>2, <1>5
<1>7. newMedia \in Boxes /\ Proper(newMedia) /\ newCrop \in Boxes
  BY <1>1, <1>2, <1>6, TimesKeeps
<1> HIDE DEF newMedia, newCrop
<1>8. new \in PageRecords /\ new.media = newMedia /\ new.crop = newCrop
  BY <1>7 DEF PageRecords
<1> HIDE DEF new
<1>9. ASSUME page \in Inside PROVE new \in Inside
  <2>1. Proper(seen) /\ Within(seen, media)
    <3>1. CropInside(page)
      BY <1>9 DEF Inside
    <3>2. CASE crop = NoBox
      <4>1. seen = media
        BY <3>2 DEF seen, media, Visible
      <4>2. Within(media, media)
        BY <1>1 DEF Within, Boxes
      <4> QED
        BY <1>1, <4>1, <4>2
    <3>3. CASE crop # NoBox
      <4>1. seen = crop
        BY <3>3 DEF seen, Visible
      <4> QED
        BY <3>1, <3>3, <4>1 DEF CropInside, media
    <3> QED
      BY <3>2, <3>3
  <2>2. Proper(newCrop) /\ Within(newCrop, newMedia)
    BY <1>1, <1>2, <1>6, <2>1, TimesKeeps
  <2> QED
    BY <1>8, <2>2 DEF Inside, CropInside
<1> QED
  BY <1>8, <1>9 DEF new, newMedia, newCrop, media, seen

LEMMA BoxedPage ==
  ASSUME NEW page \in PageRecords, NEW box \in Boxes, Proper(box)
  PROVE  [page EXCEPT !.media = box] \in PageRecords /\ [page EXCEPT !.crop = box] \in PageRecords
BY DEF PageRecords

LEMMA Placing ==
  ASSUME NEW media \in Boxes, NEW position \in Positions
  PROVE  PlaceX(media, position.x) \in Int /\ PlaceY(media, position.y) \in Int
<1>1. position.x \in {"left", "center", "right"} /\ position.y \in {"bottom", "center", "top"}
  BY DEF Positions
<1>2. Width(media) \in Int /\ Height(media) \in Int
  BY DEF Boxes, Width, Height
<1>3. PlaceX(media, position.x) \in Int
  <2>1. CASE position.x = "left"
    BY <2>1, GeometryAssumption DEF PlaceX
  <2>2. CASE position.x = "right"
    BY <1>2, <2>2, GeometryAssumption DEF PlaceX
  <2>3. CASE position.x = "center"
    BY <1>2, <2>3, GeometryAssumption DEF PlaceX
  <2> QED
    BY <1>1, <2>1, <2>2, <2>3
<1>4. PlaceY(media, position.y) \in Int
  <2>1. CASE position.y = "bottom"
    BY <2>1, GeometryAssumption DEF PlaceY
  <2>2. CASE position.y = "top"
    BY <1>2, <2>2, GeometryAssumption DEF PlaceY
  <2>3. CASE position.y = "center"
    BY <1>2, <2>3, GeometryAssumption DEF PlaceY
  <2> QED
    BY <1>1, <2>1, <2>2, <2>3
<1> QED
  BY <1>3, <1>4

(* A mark on a page that begins at the origin and has room for it.                *)
Roomy(media) ==
  /\ media.left = 0 /\ media.bottom = 0
  /\ Width(media) >= TextWidth + 2 * Margin /\ Height(media) >= FontSize + 2 * Margin

Inner(media) == [left |-> Margin, bottom |-> Margin, right |-> media.right - Margin,
                 top |-> media.top - Margin]

LEMMA MarkedPage ==
  ASSUME NEW page \in PageRecords, NEW number \in Nat, NEW position \in Positions
  PROVE  LET new == Marked(page, number, position) IN
         /\ new \in PageRecords /\ (page \in Inside => new \in Inside)
         /\ new.media = page.media /\ new.crop = page.crop
         /\ Roomy(page.media) => Within(MarkBox(new.marks[Len(new.marks)]), Inner(page.media))
<1> DEFINE new == Marked(page, number, position)
           media == page.media
           x == PlaceX(media, position.x)
           y == PlaceY(media, position.y)
           mark == [number |-> number, x |-> x, y |-> y]
<1>1. media \in Boxes /\ page.marks \in Seq([number : Nat, x : Int, y : Int])
  BY PageTyped
<1>2. x \in Int /\ y \in Int
  BY <1>1, Placing
<1> HIDE DEF x, y
<1>3. mark \in [number : Nat, x : Int, y : Int] /\ mark.x = x /\ mark.y = y
  BY <1>2
<1>4. new = [page EXCEPT !.marks = Append(@, mark)]
  BY Zenon DEF Marked, x, y
<1> HIDE DEF mark, new
<1>5. LET marks == Append(page.marks, mark) IN
      /\ marks \in Seq([number : Nat, x : Int, y : Int]) /\ marks[Len(marks)] = mark
  BY <1>1, <1>3
<1>6. /\ new \in PageRecords /\ new.media = page.media /\ new.crop = page.crop
      /\ new.marks[Len(new.marks)] = mark
  BY <1>4, <1>5 DEF PageRecords
<1>7. page \in Inside => new \in Inside
  BY <1>6 DEF Inside, CropInside
<1>8. ASSUME Roomy(media) PROVE Within(MarkBox(mark), Inner(media))
  <2>1. /\ media.left = 0 /\ media.bottom = 0 /\ media.right \in Int /\ media.top \in Int
        /\ Width(media) = media.right /\ Height(media) = media.top
        /\ media.right >= TextWidth + 2 * Margin /\ media.top >= FontSize + 2 * Margin
    BY <1>1, <1>8 DEF Roomy, Boxes, Width, Height
  <2>2. position.x \in {"left", "center", "right"} /\ position.y \in {"bottom", "center", "top"}
    BY DEF Positions
  <2> HIDE DEF media
  <2>3. Margin <= x /\ x + TextWidth <= media.right - Margin
    <3>1. CASE position.x = "left"
      BY <2>1, <3>1, GeometryAssumption DEF x, PlaceX
    <3>2. CASE position.x = "right"
      BY <2>1, <3>2, GeometryAssumption DEF x, PlaceX
    <3>3. CASE position.x = "center"
      BY <2>1, <3>3, GeometryAssumption DEF x, PlaceX
    <3> QED
      BY <2>2, <3>1, <3>2, <3>3
  <2>4. Margin <= y /\ y + FontSize <= media.top - Margin
    <3>1. CASE position.y = "bottom"
      BY <2>1, <3>1, GeometryAssumption DEF y, PlaceY
    <3>2. CASE position.y = "top"
      BY <2>1, <3>2, GeometryAssumption DEF y, PlaceY
    <3>3. CASE position.y = "center"
      BY <2>1, <3>3, GeometryAssumption DEF y, PlaceY
    <3> QED
      BY <2>2, <3>1, <3>2, <3>3
  <2> QED
    BY <1>3, <2>3, <2>4 DEF Within, MarkBox, Inner
<1> QED
  BY <1>6, <1>7, <1>8 DEF new, media

-----------------------------------------------------------------------------
(* What the calls do to a list of pages: there is always one left, and crop boxes *)
(* that were inside their media boxes stay there.                                 *)
Keeps(old, new) ==
  new \in PageLists /\ (old \in Seq(Inside) => new \in Seq(Inside))

LEMMA ListTyped ==
  ASSUME NEW pages \in PageLists
  PROVE  /\ pages \in Seq(PageRecords) /\ pages # <<>>
         /\ Len(pages) \in Nat \ {0} /\ DOMAIN pages = 1 .. Len(pages)
         /\ \A i \in DOMAIN pages : pages[i] \in PageRecords
<1>1. pages \in Seq(PageRecords) /\ pages # <<>>
  BY DEF PageLists
<1>2. Len(pages) \in Nat \ {0} /\ DOMAIN pages = 1 .. Len(pages)
  BY <1>1
<1>3. \A i \in DOMAIN pages : pages[i] \in PageRecords
  BY <1>1
<1> QED
  BY <1>1, <1>2, <1>3

LEMMA NotEmpty ==
  ASSUME NEW pages \in Seq(PageRecords), Len(pages) # 0
  PROVE  pages \in PageLists
<1>1. pages # <<>>
  OBVIOUS
<1> QED
  BY <1>1 DEF PageLists

LEMMA PageByPage ==
  ASSUME NEW old \in PageLists, NEW new, new = [i \in DOMAIN old |-> new[i]],
         \A i \in DOMAIN old : new[i] \in PageRecords /\ (old[i] \in Inside => new[i] \in Inside)
  PROVE  Keeps(old, new) /\ Len(new) = Len(old) /\ DOMAIN new = DOMAIN old
<1>1. Len(old) \in Nat \ {0} /\ DOMAIN old = 1 .. Len(old)
  BY ListTyped
<1>2. new \in [1 .. Len(old) -> PageRecords]
  BY <1>1
<1>3. new \in Seq(PageRecords) /\ Len(new) = Len(old)
  BY <1>1, <1>2, ListOf
<1>4. new \in PageLists
  BY <1>1, <1>3, NotEmpty
<1>5. ASSUME old \in Seq(Inside) PROVE new \in Seq(Inside)
  <2>1. \A i \in DOMAIN old : old[i] \in Inside
    BY <1>5
  <2>2. new \in [1 .. Len(old) -> Inside]
    BY <1>1, <2>1
  <2> QED
    BY <1>1, <2>2, ListOf
<1>6. DOMAIN new = DOMAIN old
  OBVIOUS
<1> QED
  BY <1>3, <1>4, <1>5, <1>6 DEF Keeps

LEMMA RotatedKeeps ==
  ASSUME NEW pages \in PageLists, NEW nums, NEW angle \in Nat
  PROVE  Keeps(pages, Rotated(pages, nums, angle))
<1> DEFINE new == Rotated(pages, nums, angle)
<1>1. new = [i \in DOMAIN pages |-> IF i \in Range(nums)
                                    THEN [pages[i] EXCEPT !.rotation = @ + angle] ELSE pages[i]]
  BY DEF Rotated, Altered
<1>2. ASSUME NEW i \in DOMAIN pages
      PROVE  new[i] \in PageRecords /\ (pages[i] \in Inside => new[i] \in Inside)
  <2>1. pages[i] \in PageRecords
    BY ListTyped
  <2>2. new[i] = [pages[i] EXCEPT !.rotation = @ + angle] \/ new[i] = pages[i]
    BY <1>1
  <2> HIDE DEF new
  <2> QED
    BY <2>1, <2>2, RotatedPage
<1>3. new = [i \in DOMAIN pages |-> new[i]]
  BY <1>1
<1> HIDE DEF new
<1>4. Keeps(pages, new)
  BY <1>2, <1>3, PageByPage
<1> QED
  BY <1>4 DEF new

LEMMA CroppedKeeps ==
  ASSUME NEW pages \in PageLists, NEW nums, NEW offset \in Boxes, Croppable(pages, nums, offset)
  PROVE  Keeps(pages, Cropped(pages, nums, offset))
<1> DEFINE new == Cropped(pages, nums, offset)
<1>1. new = [i \in DOMAIN pages |->
               IF i \in Range(nums) THEN [pages[i] EXCEPT !.crop = CroppedBox(pages[i].media, offset)]
                                    ELSE pages[i]]
  BY DEF Cropped, Altered
<1>2. ASSUME NEW i \in DOMAIN pages
      PROVE  new[i] \in PageRecords /\ (pages[i] \in Inside => new[i] \in Inside)
  <2>1. pages[i] \in PageRecords
    BY ListTyped
  <2>2. CASE i \in Range(nums)
    <3>1. new[i] = [pages[i] EXCEPT !.crop = CroppedBox(pages[i].media, offset)]
      BY <1>1, <2>2
    <3>2. Proper(CroppedBox(pages[i].media, offset)) /\ \A side \in DOMAIN offset : offset[side] >= 0
      BY <2>2 DEF Croppable
    <3>3. new[i] \in Inside
      BY <2>1, <3>1, <3>2, CroppedPage
    <3> HIDE DEF new
    <3> QED
      BY <3>3 DEF Inside
  <2>3. CASE i \notin Range(nums)
    BY <1>1, <2>1, <2>3
  <2> QED
    BY <2>2, <2>3
<1>3. new = [i \in DOMAIN pages |-> new[i]]
  BY <1>1
<1> HIDE DEF new
<1>4. Keeps(pages, new)
  BY <1>2, <1>3, PageByPage
<1> QED
  BY <1>4 DEF new

LEMMA ResizedKeeps ==
  ASSUME NEW pages \in PageLists, NEW nums, NEW width \in Int, NEW height \in Int,
         width > 0, height > 0,
         \A i \in DOMAIN pages : /\ width % Width(pages[i].media) = 0
                                 /\ height % Height(pages[i].media) = 0
  PROVE  Keeps(pages, Resized(pages, nums, width, height))
<1> DEFINE new == Resized(pages, nums, width, height)
           Change(page) == [page EXCEPT !.media = ScaledBox(@, page.media, width, height),
                                        !.crop = ScaledBox(Visible(page), page.media, width, height)]
<1>1. new = [i \in DOMAIN pages |-> IF i \in Range(nums) THEN Change(pages[i]) ELSE pages[i]]
  BY DEF Resized, Altered
<1>2. ASSUME NEW i \in DOMAIN pages
      PROVE  new[i] \in PageRecords /\ (pages[i] \in Inside => new[i] \in Inside)
  <2>1. pages[i] \in PageRecords
    BY ListTyped
  <2>2. Change(pages[i]) \in PageRecords /\ (pages[i] \in Inside => Change(pages[i]) \in Inside)
    BY <2>1, ResizedPage
  <2> HIDE DEF Change
  <2>3. new[i] = Change(pages[i]) \/ new[i] = pages[i]
    BY <1>1
  <2> HIDE DEF new
  <2> QED
    BY <2>1, <2>2, <2>3
<1>3. new = [i \in DOMAIN pages |-> new[i]]
  BY <1>1
<1> HIDE DEF new
<1>4. Keeps(pages, new)
  BY <1>2, <1>3, PageByPage
<1> QED
  BY <1>4 DEF new

LEMMA BoxedTyped ==
  ASSUME NEW pages \in PageLists, NEW nums, NEW type, NEW box \in Boxes, Proper(box)
  PROVE  Boxed(pages, nums, type, box) \in PageLists
<1> DEFINE new == Boxed(pages, nums, type, box)
<1>1. new = [i \in DOMAIN pages |->
               IF i \in Range(nums) THEN IF type = "MediaBox" THEN [pages[i] EXCEPT !.media = box]
                                                              ELSE [pages[i] EXCEPT !.crop = box]
                                    ELSE pages[i]]
  BY DEF Boxed, Altered
<1>2. ASSUME NEW i \in DOMAIN pages PROVE new[i] \in PageRecords
  <2>1. pages[i] \in PageRecords
    BY ListTyped
  <2>2. \/ new[i] = [pages[i] EXCEPT !.media = box]
        \/ new[i] = [pages[i] EXCEPT !.crop = box]
        \/ new[i] = pages[i]
    BY <1>1
  <2> HIDE DEF new
  <2> QED
    BY <2>1, <2>2, BoxedPage
<1>3. Len(pages) \in Nat \ {0} /\ DOMAIN pages = 1 .. Len(pages)
  BY ListTyped
<1>4. new \in [1 .. Len(pages) -> PageRecords]
  BY <1>1, <1>2, <1>3
<1> HIDE DEF new
<1>5. new \in Seq(PageRecords) /\ Len(new) = Len(pages)
  BY <1>3, <1>4, ListOf
<1>6. new \in PageLists
  BY <1>3, <1>5, NotEmpty
<1> QED
  BY <1>6 DEF new

(* Every page that is numbered or stamped has a mark where there is room for it.   *)
MarkedRight(old, new) ==
  \A j \in DOMAIN old : new[j].media = old[j].media /\
    (new[j].marks # old[j].marks /\ Roomy(old[j].media) =>
       Within(MarkBox(new[j].marks[Len(new[j].marks)]), Inner(old[j].media)))

LEMMA StampedKeeps ==
  ASSUME NEW pages \in PageLists, NEW nums, NEW position \in Positions
  PROVE  /\ Keeps(pages, Stamped(pages, nums, position))
         /\ MarkedRight(pages, Stamped(pages, nums, position))
         /\ DOMAIN Stamped(pages, nums, position) = DOMAIN pages
<1> DEFINE new == Stamped(pages, nums, position)
<1>1. new = [i \in DOMAIN pages |-> IF i \in Range(nums) THEN Marked(pages[i], 0, position)
                                                         ELSE pages[i]]
  BY DEF Stamped, Altered
<1>2. ASSUME NEW i \in DOMAIN pages
      PROVE  /\ new[i] \in PageRecords /\ (pages[i] \in Inside => new[i] \in Inside)
             /\ new[i].media = pages[i].media
             /\ new[i].marks # pages[i].marks /\ Roomy(pages[i].media) =>
                  Within(MarkBox(new[i].marks[Len(new[i].marks)]), Inner(pages[i].media))
  <2>1. pages[i] \in PageRecords
    BY ListTyped
  <2>2. new[i] = Marked(pages[i], 0, position) \/ new[i] = pages[i]
    BY <1>1
  <2> HIDE DEF new
  <2>3. CASE new[i] = pages[i]
    BY <2>1, <2>3
  <2>4. CASE new[i] = Marked(pages[i], 0, position)
    BY <2>1, <2>4, MarkedPage
  <2> QED
    BY <2>2, <2>3, <2>4
<1>3. new = [i \in DOMAIN pages |-> new[i]]
  BY <1>1
<1> HIDE DEF new
<1>4. Keeps(pages, new) /\ DOMAIN new = DOMAIN pages
  BY <1>2, <1>3, PageByPage
<1>5. MarkedRight(pages, new)
  BY <1>2, Zenon DEF MarkedRight
<1> QED
  BY <1>4, <1>5 DEF new

LEMMA NumberedKeeps ==
  ASSUME NEW pages \in PageLists, NEW start \in Nat \ {0}, NEW position \in Positions
  PROVE  /\ Keeps(pages, Numbered(pages, start, position))
         /\ MarkedRight(pages, Numbered(pages, start, position))
         /\ DOMAIN Numbered(pages, start, position) = DOMAIN pages
         /\ Len(Numbered(pages, start, position)) = Len(pages)
<1> DEFINE new == Numbered(pages, start, position)
<1>1. new = [i \in DOMAIN pages |-> Marked(pages[i], start + i - 1, position)]
  BY DEF Numbered
<1>2. ASSUME NEW i \in DOMAIN pages
      PROVE  /\ new[i] \in PageRecords /\ (pages[i] \in Inside => new[i] \in Inside)
             /\ new[i].media = pages[i].media
             /\ new[i].marks # pages[i].marks /\ Roomy(pages[i].media) =>
                  Within(MarkBox(new[i].marks[Len(new[i].marks)]), Inner(pages[i].media))
  <2>1. pages[i] \in PageRecords
    BY ListTyped
  <2>2. start + i - 1 \in Nat
    <3>1. i \in 1 .. Len(pages) /\ Len(pages) \in Nat
      BY ListTyped
    <3> QED
      BY <3>1
  <2> DEFINE page == pages[i]  number == start + i - 1  marked == Marked(page, number, position)
  <2>3. new[i] = marked
    BY <1>1
  <2>4. page \in PageRecords /\ number \in Nat
    BY <2>1, <2>2
  <2> HIDE DEF new, number, page
  <2>5. /\ marked \in PageRecords /\ (page \in Inside => marked \in Inside)
        /\ marked.media = page.media
        /\ Roomy(page.media) => Within(MarkBox(marked.marks[Len(marked.marks)]), Inner(page.media))
    BY <2>4, MarkedPage, Zenon
  <2> QED
    BY <2>3, <2>5, Zenon DEF page
<1>3. new = [i \in DOMAIN pages |-> new[i]]
  BY <1>1
<1> HIDE DEF new
<1>4. Keeps(pages, new) /\ DOMAIN new = DOMAIN pages /\ Len(new) = Len(pages)
  BY <1>2, <1>3, PageByPage
<1>5. MarkedRight(pages, new)
  BY <1>2, Zenon DEF MarkedRight
<1> QED
  BY <1>4, <1>5 DEF new

LEMMA PickedKeeps ==
  ASSUME NEW pages \in PageLists, NEW nums \in Seq(Int), nums # <<>>, AllInRange(pages, nums)
  PROVE  Keeps(pages, Picked(pages, nums))
<1> DEFINE new == Picked(pages, nums)
<1>1. pages \in Seq(PageRecords)
  BY ListTyped
<1>2. new \in Seq(PageRecords) /\ Len(new) = Len(nums)
  BY <1>1, PickedType
<1>3. Len(nums) # 0
  OBVIOUS
<1>4. pages \in Seq(Inside) => new \in Seq(Inside)
  BY PickedType
<1> HIDE DEF new
<1>5. new \in PageLists
  BY <1>2, <1>3, NotEmpty
<1> QED
  BY <1>4, <1>5 DEF Keeps, new

LEMMA ReverseKeeps ==
  ASSUME NEW pages \in PageLists
  PROVE  Keeps(pages, Reverse(pages))
<1> DEFINE new == Reverse(pages)
<1>1. pages \in Seq(PageRecords) /\ Len(pages) # 0
  BY ListTyped
<1>2. new \in Seq(PageRecords) /\ Len(new) = Len(pages)
  BY <1>1, ReverseType
<1>3. pages \in Seq(Inside) => new \in Seq(Inside)
  BY ReverseType
<1> HIDE DEF new
<1>4. new \in PageLists
  BY <1>1, <1>2, NotEmpty
<1> QED
  BY <1>3, <1>4 DEF Keeps, new

LEMMA WithoutKeeps ==
  ASSUME NEW pages \in PageLists, NEW nums \in Seq(Int), Deletable(pages, nums)
  PROVE  Keeps(pages, Without(pages, nums))
<1> DEFINE new == Without(pages, nums)
<1>1. pages \in Seq(PageRecords) /\ Len(pages) \in Nat
  BY ListTyped
<1>2. AllInRange(pages, nums) /\ Cardinality(Range(nums)) < Len(pages)
  BY DEF Deletable
<1>3. Len(new) = Len(pages) - Cardinality(Range(nums)) /\ Cardinality(Range(nums)) \in Nat
  BY <1>1, <1>2, WithoutPlaces
<1>4. new \in Seq(PageRecords)
  BY <1>1, WithoutType
<1>5. pages \in Seq(Inside) => new \in Seq(Inside)
  BY WithoutType
<1> HIDE DEF new
<1>6. Len(new) # 0
  BY <1>1, <1>2, <1>3
<1>7. new \in PageLists
  BY <1>4, <1>6, NotEmpty
<1> QED
  BY <1>5, <1>7 DEF Keeps, new

(* Two documents in one.                                                          *)
KeepsBoth(a, b, new) ==
  new \in PageLists /\ (a \in Seq(Inside) /\ b \in Seq(Inside) => new \in Seq(Inside))

LEMMA InterleavedKeeps ==
  ASSUME NEW a \in PageLists, NEW b \in PageLists
  PROVE  KeepsBoth(a, b, Interleaved(a, b))
<1> DEFINE new == Interleaved(a, b)
<1>1. /\ a \in Seq(PageRecords) /\ Len(a) \in Nat \ {0}
      /\ b \in Seq(PageRecords) /\ Len(b) \in Nat \ {0}
  BY ListTyped
<1>2. new \in Seq(PageRecords) /\ Len(new) = Len(a) + Len(b)
  BY <1>1, InterleavedType, InterleavedPlaces
<1>3. a \in Seq(Inside) /\ b \in Seq(Inside) => new \in Seq(Inside)
  BY InterleavedType
<1> HIDE DEF new
<1>4. Len(new) # 0
  BY <1>1, <1>2
<1>5. new \in PageLists
  BY <1>2, <1>4, NotEmpty
<1> QED
  BY <1>3, <1>5 DEF KeepsBoth, new

LEMMA MergedKeeps ==
  ASSUME NEW a \in PageLists, NEW b \in PageLists
  PROVE  KeepsBoth(a, b, Merged(<<a, b>>)) /\ Merged(<<a, b>>) = a \o b
<1> DEFINE new == Merged(<<a, b>>)
<1>1. /\ a \in Seq(PageRecords) /\ Len(a) \in Nat \ {0}
      /\ b \in Seq(PageRecords) /\ Len(b) \in Nat \ {0}
  BY ListTyped
<1>2. new = a \o b /\ a \o b \in Seq(PageRecords)
  BY <1>1, MergedTwo
<1>3. Len(a \o b) = Len(a) + Len(b)
  BY <1>1, ConcatProperties
<1>4. a \in Seq(Inside) /\ b \in Seq(Inside) => new \in Seq(Inside)
  BY MergedTwo
<1> HIDE DEF new
<1>5. Len(new) # 0
  <2>1. Len(new) = Len(a) + Len(b)
    BY <1>2, <1>3, Zenon
  <2> QED
    BY <1>1, <2>1
<1>6. new \in PageLists
  BY <1>2, <1>5, NotEmpty
<1> QED
  BY <1>2, <1>4, <1>6 DEF KeepsBoth, new

LEMMA PiecesKeep ==
  ASSUME NEW pages \in PageLists, NEW ranges \in Seq(Int \X Int)
  PROVE  /\ Pieces(pages, ranges) \in Seq(PageLists)
         /\ Len(Pieces(pages, ranges)) <= Len(ranges)
         /\ \A i \in DOMAIN Pieces(pages, ranges) : Keeps(pages, Pieces(pages, ranges)[i])
<1> DEFINE new == Pieces(pages, ranges)
<1>1. pages \in Seq(PageRecords)
  BY ListTyped
<1>2. new \in Seq(PageLists) /\ Len(new) <= Len(ranges)
  BY <1>1, PiecesType DEF PageLists
<1>3. pages \in Seq(Inside) => new \in Seq(Seq(Inside) \ {<<>>})
  BY PiecesType
<1> HIDE DEF new
<1>4. ASSUME NEW i \in DOMAIN new PROVE Keeps(pages, new[i])
  <2>1. new[i] \in PageLists
    BY <1>2
  <2>2. pages \in Seq(Inside) => new[i] \in Seq(Inside)
    BY <1>3
  <2> QED
    BY <2>1, <2>2 DEF Keeps
<1> QED
  BY <1>2, <1>4 DEF new

LEMMA TocKeeps ==
  ASSUME NEW pages \in PageLists, NEW count \in Nat
  PROVE  Keeps(pages, [i \in 1 .. TocPages(count) |-> TocPage(pages[1].media)] \o pages)
<1> DEFINE page == TocPage(pages[1].media)
           toc == [i \in 1 .. TocPages(count) |-> page]
<1>1. /\ pages \in Seq(PageRecords) /\ Len(pages) \in Nat \ {0} /\ 1 \in DOMAIN pages
      /\ pages[1] \in PageRecords
  BY ListTyped
<1>2. page \in Inside
  <2> DEFINE media == pages[1].media
             box == [left |-> 0, bottom |-> 0, right |-> Width(media), top |-> Height(media)]
  <2>1. Width(media) \in Nat \ {0} /\ Height(media) \in Nat \ {0}
    BY <1>1, PageTyped
  <2> HIDE DEF media
  <2>2. box \in Boxes /\ Proper(box) /\ NoBox \in Boxes
    BY <2>1 DEF Boxes, Proper, NoBox
  <2>3. page = [id |-> 0, rotation |-> 0, media |-> box, crop |-> NoBox, marks |-> <<>>]
    BY Zenon DEF TocPage, media
  <2> HIDE DEF box, page
  <2>4. page \in PageRecords /\ page.crop = NoBox
    BY <2>2, <2>3 DEF PageRecords
  <2> QED
    BY <2>4 DEF Inside, CropInside
<1>3. TocPages(count) \in Nat
  <2>1. FitFirst \in Nat /\ FitNext \in Nat \ {0}
    BY ArgsAssumption
  <2>2. CASE count <= FitFirst
    BY <2>2 DEF TocPages
  <2>3. CASE ~ (count <= FitFirst)
    <3> DEFINE x == count - FitFirst + FitNext - 1
    <3>1. x \in Nat
      BY <2>1, <2>3
    <3> HIDE DEF x
    <3>2. x \div FitNext \in Nat
      BY <2>1, <3>1
    <3>3. TocPages(count) = 1 + x \div FitNext
      BY <2>3 DEF TocPages, x
    <3> QED
      BY <3>2, <3>3
  <2> QED
    BY <2>2, <2>3
<1> HIDE DEF page
<1>4. toc \in Seq(Inside)
  <2>1. toc \in [1 .. TocPages(count) -> Inside]
    BY <1>2
  <2> HIDE DEF toc
  <2> QED
    BY <1>3, <2>1, ListOf
<1>5. toc \in Seq(PageRecords)
  <2>1. Inside \subseteq PageRecords
    BY DEF Inside
  <2> HIDE DEF toc
  <2> QED
    BY <1>4, <2>1
<1> HIDE DEF toc
<1>6. toc \o pages \in Seq(PageRecords) /\ Len(toc \o pages) = Len(toc) + Len(pages)
  BY <1>1, <1>5, ConcatProperties
<1>7. pages \in Seq(Inside) => toc \o pages \in Seq(Inside)
  BY <1>4, ConcatProperties
<1>8. toc \o pages \in PageLists
  <2>1. Len(toc) \in Nat
    BY <1>5
  <2> DEFINE both == toc \o pages
  <2>2. both \in Seq(PageRecords) /\ Len(both) # 0
    BY <1>1, <1>6, <2>1
  <2> HIDE DEF both
  <2>3. both \in PageLists
    BY <2>2, NotEmpty
  <2> QED
    BY <2>3 DEF both
<1> QED
  BY <1>7, <1>8, Zenon DEF Keeps, toc, page

-----------------------------------------------------------------------------
(* The files.                                                                     *)
Documents == {document \in DocumentRecords : Linked(document)}

FileSystems == UNION {[D -> Documents] : D \in SUBSET Paths}

LEMMA FilesTyped ==
  ASSUME NEW fs
  PROVE  fs \in FileSystems <=> /\ DOMAIN fs \subseteq Paths /\ fs \in [DOMAIN fs -> DocumentRecords]
                                /\ \A p \in DOMAIN fs : Linked(fs[p])
<1>1. ASSUME fs \in FileSystems
      PROVE  /\ DOMAIN fs \subseteq Paths /\ fs \in [DOMAIN fs -> DocumentRecords]
             /\ \A p \in DOMAIN fs : Linked(fs[p])
  <2>1. PICK D \in SUBSET Paths : fs \in [D -> Documents]
    BY <1>1 DEF FileSystems
  <2>2. DOMAIN fs = D /\ \A p \in D : fs[p] \in DocumentRecords /\ Linked(fs[p])
    BY <2>1 DEF Documents
  <2>3. fs \in [D -> DocumentRecords]
    BY <2>1, <2>2
  <2> QED
    BY <2>2, <2>3
<1>2. ASSUME DOMAIN fs \subseteq Paths, fs \in [DOMAIN fs -> DocumentRecords],
             \A p \in DOMAIN fs : Linked(fs[p])
      PROVE  fs \in FileSystems
  <2>1. fs \in [DOMAIN fs -> Documents]
    BY <1>2 DEF Documents
  <2> QED
    BY <1>2, <2>1 DEF FileSystems
<1> QED
  BY <1>1, <1>2

LEMMA PutTyped ==
  ASSUME NEW fs \in FileSystems, NEW p \in Paths, NEW document \in Documents
  PROVE  /\ Put(fs, p, document) \in FileSystems /\ p \in DOMAIN Put(fs, p, document)
         /\ Put(fs, p, document)[p] = document
         /\ \A q \in DOMAIN fs : /\ q \in DOMAIN Put(fs, p, document)
                                 /\ q # p => Put(fs, p, document)[q] = fs[q]
         /\ \A q \in DOMAIN Put(fs, p, document) : q = p \/ q \in DOMAIN fs
<1>1. PICK D \in SUBSET Paths : fs \in [D -> Documents]
  BY DEF FileSystems
<1>2. DOMAIN fs = D /\ \A q \in D : fs[q] \in Documents
  BY <1>1
<1> DEFINE new == Put(fs, p, document)
<1>3. new \in [D \cup {p} -> Documents]
  BY <1>2 DEF Put
<1>4. new \in FileSystems
  BY <1>3 DEF FileSystems
<1> QED
  BY <1>2, <1>4 DEF Put

LEMMA RebuiltTyped ==
  ASSUME NEW document \in DocumentRecords, NEW pages \in PageLists
  PROVE  Rebuilt(document, pages) \in Documents /\ Rebuilt(document, pages).pages = pages
<1> DEFINE new == Rebuilt(document, pages)
<1>1. new \in DocumentRecords /\ new.pages = pages /\ new.labels = <<>> /\ new.outline = <<>>
  <2>1. pages \in Seq(PageRecords) \ {<<>>} /\ <<>> \in Seq(LabelDicts) /\ <<>> \in Seq(Items)
    BY DEF PageLists
  <2> DEFINE P == Seq(PageRecords) \ {<<>>}  L == Seq(LabelDicts)  O == Seq(Items)
  <2>2. document \in [pages : P, labels : L, outline : O] /\ pages \in P /\ <<>> \in L /\ <<>> \in O
    BY <2>1 DEF DocumentRecords
  <2> HIDE DEF P, L, O
  <2>3. /\ new \in [pages : P, labels : L, outline : O]
        /\ new.pages = pages /\ new.labels = <<>> /\ new.outline = <<>>
    BY <2>2 DEF Rebuilt
  <2> HIDE DEF new
  <2> QED
    BY <2>3 DEF DocumentRecords, P, L, O
<1> HIDE DEF new
<1>2. Linked(new)
  BY <1>1 DEF Linked
<1> QED
  BY <1>1, <1>2 DEF Documents, new

(* What every call has to make true.                                              *)
Sound ==
  /\ TypeOK' /\ TargetsExist' /\ BatchRunsOn' /\ CropsStayInside' /\ MarksOnPage'

InsideAll(reads) == \A i \in DOMAIN reads : reads[i].pages \in Seq(Inside)

LEMMA AllInside ==
  ASSUME NEW pages \in Seq(PageRecords), \A j \in DOMAIN pages : CropInside(pages[j])
  PROVE  pages \in Seq(Inside)
<1>1. pages \in [1 .. Len(pages) -> Inside]
  BY DEF Inside
<1> QED
  BY <1>1

LEMMA ReadsInside ==
  ASSUME NEW reads \in Seq(DocumentRecords),
         \A i \in DOMAIN reads : \A j \in DOMAIN reads[i].pages : CropInside(reads[i].pages[j])
  PROVE  InsideAll(reads)
<1>1. ASSUME NEW i \in DOMAIN reads PROVE reads[i].pages \in Seq(Inside)
  <2>1. reads[i] \in DocumentRecords
    BY ElementOfSeq
  <2>2. reads[i].pages \in Seq(PageRecords)
    BY <2>1 DEF DocumentRecords
  <2> QED
    BY <2>2, AllInside
<1> QED
  BY <1>1 DEF InsideAll

LEMMA RefusedStep ==
  ASSUME TypeOK, TargetsExist, files' = files, last'.ok = FALSE, last'.told = <<>>,
         last'.read \in Seq(DocumentRecords), calls' \in 0 .. MaxCalls
  PROVE  Sound
<1>1. TypeOK'
  <2>1. <<>> \in Seq(Paths) /\ FALSE \in BOOLEAN
    OBVIOUS
  <2> QED
    BY <2>1, Zenon DEF TypeOK
<1>2. TargetsExist'
  BY DEF TargetsExist
<1>3. CropsStayInside'
  BY DEF CropsStayInside
<1> QED
  BY <1>1, <1>2, <1>3 DEF Sound, BatchRunsOn, MarksOnPage

(* A call named op that read documents and wrote one.                             *)
Right(op, reads, document) ==
  /\ document \in Documents
  /\ op = "boxes" \/ (InsideAll(reads) => document.pages \in Seq(Inside))
  /\ op \in {"bates", "stamp"} =>
       MarkedRight(reads[1].pages, document.pages) /\ DOMAIN document.pages = DOMAIN reads[1].pages

LEMMA WroteStep ==
  ASSUME TypeOK, TargetsExist, NEW op, op # "batch", NEW reads \in Seq(DocumentRecords),
         NEW out \in Paths, NEW document, Right(op, reads, document),
         files' = Put(files, out, document), last'.op = op, last'.ok = TRUE,
         last'.read = reads, last'.told = <<out>>, calls' \in 0 .. MaxCalls
  PROVE  Sound
<1>1. document \in Documents
  BY DEF Right
<1>2. files \in FileSystems
  BY FilesTyped DEF TypeOK, TargetsExist
<1>3. files' \in FileSystems /\ out \in DOMAIN files' /\ files'[out] = document
  BY <1>1, <1>2, PutTyped
<1>4. /\ DOMAIN files' \subseteq Paths /\ files' \in [DOMAIN files' -> DocumentRecords]
      /\ \A p \in DOMAIN files' : Linked(files'[p])
  BY <1>3, FilesTyped
<1>5. TargetsExist'
  BY <1>4 DEF TargetsExist
<1>6. last'.told \in Seq(Paths) /\ DOMAIN last'.told = {1} /\ last'.told[1] = out
  OBVIOUS
<1>7. TypeOK'
  BY <1>4, <1>6 DEF TypeOK
<1>8. TellsPages(1)' = document.pages
  BY <1>3, <1>6 DEF TellsPages
<1>9. CropsStayInside'
  <2> SUFFICES ASSUME op # "boxes",
                      \A i \in DOMAIN reads : \A j \in DOMAIN reads[i].pages :
                        CropInside(reads[i].pages[j])
               PROVE  \A i \in DOMAIN last'.told : \A j \in DOMAIN TellsPages(i)' :
                        CropInside(TellsPages(i)'[j])
    BY DEF CropsStayInside
  <2>1. document.pages \in Seq(Inside)
    BY ReadsInside DEF Right
  <2>2. \A j \in DOMAIN document.pages : document.pages[j] \in Inside
    BY <2>1
  <2>3. \A j \in DOMAIN document.pages : CropInside(document.pages[j])
    BY <2>2 DEF Inside
  <2> QED
    BY <1>6, <1>8, <2>3
<1>10. MarksOnPage'
  <2> SUFFICES ASSUME op \in {"bates", "stamp"}, NEW j \in DOMAIN document.pages
               PROVE  LET page == document.pages[j]
                          old  == reads[1].pages[j]
                          inner == [left |-> Margin, bottom |-> Margin,
                                    right |-> page.media.right - Margin,
                                    top |-> page.media.top - Margin]
                      IN /\ page.marks # old.marks
                         /\ page.media.left = 0 /\ page.media.bottom = 0
                         /\ Width(page.media) >= TextWidth + 2 * Margin
                         /\ Height(page.media) >= FontSize + 2 * Margin
                         => Within(MarkBox(page.marks[Len(page.marks)]), inner)
    BY <1>8, Zenon DEF MarksOnPage
  <2>1. MarkedRight(reads[1].pages, document.pages) /\ j \in DOMAIN reads[1].pages
    BY DEF Right
  <2> QED
    BY <2>1, Zenon DEF MarkedRight, Roomy, Inner
<1>11. BatchRunsOn'
  BY DEF BatchRunsOn
<1> QED
  BY <1>5, <1>7, <1>9, <1>10, <1>11 DEF Sound

-----------------------------------------------------------------------------
(* Call with what it reads, decides and writes as values.                         *)
ReadAll(paths) ==
  IF Range(paths) \subseteq DOMAIN files THEN [i \in DOMAIN paths |-> files[paths[i]]] ELSE <<>>

CallIs(op, given, paths, accepted, document, out) ==
  LET ok == Range(paths) \subseteq DOMAIN files /\ accepted IN
  /\ calls < MaxCalls /\ calls' = calls + 1
  /\ last' = [op |-> op, ok |-> ok, read |-> ReadAll(paths), given |-> given,
              told |-> IF ok THEN <<out>> ELSE <<>>]
  /\ files' = IF ok THEN Put(files, out, document) ELSE files

LEMMA CallStep ==
  ASSUME TypeOK, TargetsExist, NEW op, op # "batch", NEW given, NEW paths, NEW accepted,
         NEW document, NEW out \in Outputs, ReadAll(paths) \in Seq(DocumentRecords),
         Range(paths) \subseteq DOMAIN files /\ accepted => Right(op, ReadAll(paths), document),
         CallIs(op, given, paths, accepted, document, out)
  PROVE  Sound
<1> DEFINE ok == Range(paths) \subseteq DOMAIN files /\ accepted
<1>1. /\ calls < MaxCalls /\ calls' = calls + 1
      /\ last' = [op |-> op, ok |-> ok, read |-> ReadAll(paths), given |-> given,
                  told |-> IF ok THEN <<out>> ELSE <<>>]
      /\ files' = IF ok THEN Put(files, out, document) ELSE files
  BY Zenon DEF CallIs
<1>2. calls' \in 0 .. MaxCalls
  BY <1>1, ArgsAssumption DEF TypeOK
<1>3. out \in Paths
  BY PathsAssumption
<1>4. CASE ok
  <2>1. Right(op, ReadAll(paths), document)
    BY <1>4
  <2>2. ok = TRUE
    BY <1>4
  <2> HIDE DEF ok
  <2>3. /\ last'.op = op /\ last'.ok = TRUE /\ last'.read = ReadAll(paths) /\ last'.told = <<out>>
        /\ files' = Put(files, out, document)
    BY <1>1, <2>2
  <2> QED
    BY <1>2, <1>3, <2>1, <2>3, WroteStep
<1>5. CASE ~ ok
  <2>1. ok = FALSE
    BY <1>5
  <2> HIDE DEF ok
  <2>2. last'.ok = FALSE /\ last'.read = ReadAll(paths) /\ last'.told = <<>> /\ files' = files
    BY <1>1, <2>1
  <2> QED
    BY <1>2, <2>2, RefusedStep
<1> QED
  BY <1>4, <1>5

LEMMA ReadOne ==
  ASSUME TypeOK, NEW path
  PROVE  /\ Range(<<path>>) \subseteq DOMAIN files <=> path \in DOMAIN files
         /\ ReadAll(<<path>>) \in Seq(DocumentRecords)
         /\ path \in DOMAIN files =>
              /\ ReadAll(<<path>>) = <<files[path]>> /\ ReadAll(<<path>>)[1] = files[path]
              /\ files[path] \in DocumentRecords /\ files[path].pages \in PageLists
<1>1. Range(<<path>>) = {path}
  BY DEF Range
<1>2. path \in DOMAIN files => files[path] \in DocumentRecords /\ files[path].pages \in PageLists
  BY FileTyped
<1>3. path \in DOMAIN files => ReadAll(<<path>>) = <<files[path]>>
  BY <1>1 DEF ReadAll
<1>4. ~ (path \in DOMAIN files) => ReadAll(<<path>>) = <<>>
  BY <1>1 DEF ReadAll
<1>5. ReadAll(<<path>>) \in Seq(DocumentRecords)
  <2>1. CASE path \in DOMAIN files
    <3>1. <<files[path]>> \in Seq(DocumentRecords)
      BY <1>2, <2>1
    <3> QED
      BY <1>3, <2>1, <3>1
  <2>2. CASE ~ (path \in DOMAIN files)
    BY <1>4, <2>2
  <2> QED
    BY <2>1, <2>2
<1>6. path \in DOMAIN files => ReadAll(<<path>>)[1] = files[path]
  <2>1. <<files[path]>>[1] = files[path]
    OBVIOUS
  <2> QED
    BY <1>3, <2>1
<1> QED
  BY <1>1, <1>2, <1>3, <1>5, <1>6

LEMMA ReadTwo ==
  ASSUME TypeOK, NEW a, NEW b
  PROVE  /\ Range(<<a, b>>) \subseteq DOMAIN files <=> a \in DOMAIN files /\ b \in DOMAIN files
         /\ ReadAll(<<a, b>>) \in Seq(DocumentRecords)
         /\ a \in DOMAIN files /\ b \in DOMAIN files =>
              /\ ReadAll(<<a, b>>) = <<files[a], files[b]>>
              /\ files[a] \in DocumentRecords /\ files[a].pages \in PageLists
              /\ files[b] \in DocumentRecords /\ files[b].pages \in PageLists
<1>1. Range(<<a, b>>) = {a, b}
  BY DEF Range
<1>2. /\ a \in DOMAIN files => files[a] \in DocumentRecords /\ files[a].pages \in PageLists
      /\ b \in DOMAIN files => files[b] \in DocumentRecords /\ files[b].pages \in PageLists
  BY FileTyped
<1> DEFINE both == a \in DOMAIN files /\ b \in DOMAIN files
<1>3. both => ReadAll(<<a, b>>) = <<files[a], files[b]>>
  <2> SUFFICES ASSUME both PROVE ReadAll(<<a, b>>) = <<files[a], files[b]>>
    OBVIOUS
  <2>1. ReadAll(<<a, b>>) = [i \in DOMAIN <<a, b>> |-> files[<<a, b>>[i]]]
    BY <1>1 DEF ReadAll
  <2>2. [i \in DOMAIN <<a, b>> |-> files[<<a, b>>[i]]] = <<files[a], files[b]>>
    OBVIOUS
  <2> QED
    BY <2>1, <2>2
<1>4. ~ both => ReadAll(<<a, b>>) = <<>>
  BY <1>1 DEF ReadAll
<1>5. ReadAll(<<a, b>>) \in Seq(DocumentRecords)
  <2>1. CASE both
    <3>1. <<files[a], files[b]>> \in Seq(DocumentRecords)
      BY <1>2, <2>1
    <3> QED
      BY <1>3, <2>1, <3>1
  <2>2. CASE ~ both
    BY <1>4, <2>2
  <2> QED
    BY <2>1, <2>2
<1> QED
  BY <1>1, <1>2, <1>3, <1>5

(* PageCall: what it has to be right about are the pages.                         *)
PagesRight(op, old, new) ==
  /\ new \in PageLists /\ (op = "boxes" \/ Keeps(old, new))
  /\ op \in {"bates", "stamp"} => MarkedRight(old, new) /\ DOMAIN new = DOMAIN old

LEMMA PagesStep ==
  ASSUME TypeOK, TargetsExist, NEW op, op # "batch", NEW given, NEW path, NEW accepted,
         NEW new, NEW out \in Outputs,
         path \in DOMAIN files /\ accepted => PagesRight(op, ReadAll(<<path>>)[1].pages, new),
         CallIs(op, given, <<path>>, accepted, Rebuilt(ReadAll(<<path>>)[1], new), out)
  PROVE  Sound
<1> DEFINE read == ReadAll(<<path>>)
<1>1. read \in Seq(DocumentRecords)
  BY ReadOne
<1>2. ASSUME path \in DOMAIN files, accepted PROVE Right(op, read, Rebuilt(read[1], new))
  <2>1. read = <<files[path]>> /\ read[1] = files[path] /\ files[path] \in DocumentRecords
    BY <1>2, ReadOne
  <2>2. PagesRight(op, read[1].pages, new)
    BY <1>2
  <2>3. 1 \in DOMAIN read
    BY <2>1
  <2> HIDE DEF read
  <2>4. new \in PageLists
    BY <2>2 DEF PagesRight
  <2>5. Rebuilt(read[1], new) \in Documents /\ Rebuilt(read[1], new).pages = new
    BY <2>1, <2>4, RebuiltTyped
  <2>6. InsideAll(read) => read[1].pages \in Seq(Inside)
    BY <2>3, Zenon DEF InsideAll
  <2> QED
    BY <2>2, <2>5, <2>6 DEF Right, PagesRight, Keeps
<1>3. Range(<<path>>) \subseteq DOMAIN files <=> path \in DOMAIN files
  BY ReadOne
<1> HIDE DEF read
<1>4. Range(<<path>>) \subseteq DOMAIN files /\ accepted => Right(op, read, Rebuilt(read[1], new))
  BY <1>2, <1>3
<1> QED
  BY <1>1, <1>4, CallStep DEF read

-----------------------------------------------------------------------------
(* The calls, one by one.                                                         *)
LEMMA ExtractStep ==
  ASSUME TypeOK, TargetsExist, NEW path, NEW nums \in PageArgs, NEW out \in Outputs,
         ExtractPages(path, nums, out)
  PROVE  Sound
<1> DEFINE pages == ReadAll(<<path>>)[1].pages
           accepted == nums # <<>> /\ AllInRange(pages, nums)
           new == Picked(pages, nums)
<1>1. CallIs("extract", nums, <<path>>, accepted, Rebuilt(ReadAll(<<path>>)[1], new), out)
  BY Zenon DEF ExtractPages, PageCall, Call, CallIs, ReadAll
<1>2. ASSUME path \in DOMAIN files, accepted PROVE PagesRight("extract", pages, new)
  <2>1. pages \in PageLists
    BY <1>2, ReadOne
  <2>2. accepted
    BY <1>2
  <2> HIDE DEF pages
  <2>3. Keeps(pages, new)
    BY <2>1, <2>2, ArgsAssumption, PickedKeeps
  <2> HIDE DEF new
  <2> QED
    BY <2>3 DEF PagesRight, Keeps
<1> HIDE DEF accepted, new
<1> QED
  BY <1>1, <1>2, PagesStep DEF pages

LEMMA ReorderStep ==
  ASSUME TypeOK, TargetsExist, NEW path, NEW nums \in PageArgs, NEW out \in Outputs,
         ReorderPages(path, nums, out)
  PROVE  Sound
<1> DEFINE pages == ReadAll(<<path>>)[1].pages
           accepted == nums # <<>> /\ AllInRange(pages, nums)
           new == Picked(pages, nums)
<1>1. CallIs("reorder", nums, <<path>>, accepted, Rebuilt(ReadAll(<<path>>)[1], new), out)
  BY Zenon DEF ReorderPages, PageCall, Call, CallIs, ReadAll
<1>2. ASSUME path \in DOMAIN files, accepted PROVE PagesRight("reorder", pages, new)
  <2>1. pages \in PageLists
    BY <1>2, ReadOne
  <2>2. accepted
    BY <1>2
  <2> HIDE DEF pages
  <2>3. Keeps(pages, new)
    BY <2>1, <2>2, ArgsAssumption, PickedKeeps
  <2> HIDE DEF new
  <2> QED
    BY <2>3 DEF PagesRight, Keeps
<1> HIDE DEF accepted, new
<1> QED
  BY <1>1, <1>2, PagesStep DEF pages

LEMMA RotateStep ==
  ASSUME TypeOK, TargetsExist, NEW path, NEW nums \in PageArgs, NEW out \in Outputs,
         RotatePages(path, nums, 90, out)
  PROVE  Sound
<1> DEFINE pages == ReadAll(<<path>>)[1].pages
           accepted == 90 \in {90, 180, 270} /\ AllInRange(pages, nums)
           new == Rotated(pages, nums, 90)
<1>1. CallIs("rotate", nums, <<path>>, accepted, Rebuilt(ReadAll(<<path>>)[1], new), out)
  BY Zenon DEF RotatePages, PageCall, Call, CallIs, ReadAll
<1>2. ASSUME path \in DOMAIN files, accepted PROVE PagesRight("rotate", pages, new)
  <2>1. pages \in PageLists
    BY <1>2, ReadOne
  <2>2. accepted
    BY <1>2
  <2> HIDE DEF pages
  <2>3. Keeps(pages, new)
    BY <2>1, RotatedKeeps
  <2> HIDE DEF new
  <2> QED
    BY <2>3 DEF PagesRight, Keeps
<1> HIDE DEF accepted, new
<1> QED
  BY <1>1, <1>2, PagesStep DEF pages

LEMMA ReverseStep ==
  ASSUME TypeOK, TargetsExist, NEW path, NEW out \in Outputs,
         ReverseFile(path, out)
  PROVE  Sound
<1> DEFINE pages == ReadAll(<<path>>)[1].pages
           accepted == TRUE
           new == Reverse(pages)
<1>1. CallIs("reverse", <<>>, <<path>>, accepted, Rebuilt(ReadAll(<<path>>)[1], new), out)
  BY Zenon DEF ReverseFile, PageCall, Call, CallIs, ReadAll
<1>2. ASSUME path \in DOMAIN files, accepted PROVE PagesRight("reverse", pages, new)
  <2>1. pages \in PageLists
    BY <1>2, ReadOne
  <2>2. accepted
    BY <1>2
  <2> HIDE DEF pages
  <2>3. Keeps(pages, new)
    BY <2>1, ReverseKeeps
  <2> HIDE DEF new
  <2> QED
    BY <2>3 DEF PagesRight, Keeps
<1> HIDE DEF accepted, new
<1> QED
  BY <1>1, <1>2, PagesStep DEF pages

LEMMA DeleteStep ==
  ASSUME TypeOK, TargetsExist, NEW path, NEW nums \in PageArgs, NEW out \in Outputs,
         DeletePages(path, nums, out)
  PROVE  Sound
<1> DEFINE pages == ReadAll(<<path>>)[1].pages
           accepted == Deletable(pages, nums)
           new == Without(pages, nums)
<1>1. CallIs("delete", nums, <<path>>, accepted, Rebuilt(ReadAll(<<path>>)[1], new), out)
  BY Zenon DEF DeletePages, PageCall, Call, CallIs, ReadAll
<1>2. ASSUME path \in DOMAIN files, accepted PROVE PagesRight("delete", pages, new)
  <2>1. pages \in PageLists
    BY <1>2, ReadOne
  <2>2. accepted
    BY <1>2
  <2> HIDE DEF pages
  <2>3. Keeps(pages, new)
    BY <2>1, <2>2, ArgsAssumption, WithoutKeeps
  <2> HIDE DEF new
  <2> QED
    BY <2>3 DEF PagesRight, Keeps
<1> HIDE DEF accepted, new
<1> QED
  BY <1>1, <1>2, PagesStep DEF pages

LEMMA CropStep ==
  ASSUME TypeOK, TargetsExist, NEW path, NEW nums \in PageArgs, NEW offset \in OffsetArgs, NEW out \in Outputs,
         CropPages(path, nums, offset, out)
  PROVE  Sound
<1> DEFINE pages == ReadAll(<<path>>)[1].pages
           accepted == Croppable(pages, nums, offset)
           new == Cropped(pages, nums, offset)
<1>1. CallIs("crop", nums, <<path>>, accepted, Rebuilt(ReadAll(<<path>>)[1], new), out)
  BY Zenon DEF CropPages, PageCall, Call, CallIs, ReadAll
<1>2. ASSUME path \in DOMAIN files, accepted PROVE PagesRight("crop", pages, new)
  <2>1. pages \in PageLists
    BY <1>2, ReadOne
  <2>2. accepted
    BY <1>2
  <2> HIDE DEF pages
  <2>3. Keeps(pages, new)
    BY <2>1, <2>2, ArgsAssumption, CroppedKeeps
  <2> HIDE DEF new
  <2> QED
    BY <2>3 DEF PagesRight, Keeps
<1> HIDE DEF accepted, new
<1> QED
  BY <1>1, <1>2, PagesStep DEF pages

LEMMA TocStep ==
  ASSUME TypeOK, TargetsExist, NEW path, NEW entries \in EntryArgs, NEW out \in Outputs,
         GenerateToc(path, entries, out)
  PROVE  Sound
<1> DEFINE pages == ReadAll(<<path>>)[1].pages
           accepted == TRUE
           new == [i \in 1 .. TocPages(Len(entries)) |-> TocPage(pages[1].media)] \o pages
<1>1. CallIs("toc", entries, <<path>>, accepted, Rebuilt(ReadAll(<<path>>)[1], new), out)
  BY Zenon DEF GenerateToc, PageCall, Call, CallIs, ReadAll
<1>2. ASSUME path \in DOMAIN files, accepted PROVE PagesRight("toc", pages, new)
  <2>1. pages \in PageLists
    BY <1>2, ReadOne
  <2>2. accepted
    BY <1>2
  <2> HIDE DEF pages
  <2>3. Keeps(pages, new)
    <3>1. Len(entries) \in Nat
      BY ArgsAssumption
    <3> QED
      BY <2>1, <3>1, TocKeeps
  <2> HIDE DEF new
  <2> QED
    BY <2>3 DEF PagesRight, Keeps
<1> HIDE DEF accepted, new
<1> QED
  BY <1>1, <1>2, PagesStep DEF pages

LEMMA ResizeStep ==
  ASSUME TypeOK, TargetsExist, NEW path, NEW nums \in PageArgs, NEW size \in SizeArgs,
         NEW out \in Outputs, ResizePages(path, nums, size, out)
  PROVE  Sound
<1> DEFINE pages == ReadAll(<<path>>)[1].pages
           accepted == size[1] > 0 /\ size[2] > 0 /\ AllInRange(pages, nums)
           new == Resized(pages, nums, size[1], size[2])
<1>1. CallIs("resize", nums, <<path>>, accepted, Rebuilt(ReadAll(<<path>>)[1], new), out)
  BY Zenon DEF ResizePages, PageCall, Call, CallIs, ReadAll
<1>2. ASSUME path \in DOMAIN files, accepted PROVE PagesRight("resize", pages, new)
  <2>1. pages \in PageLists /\ pages = files[path].pages
    BY <1>2, ReadOne
  <2>2. \A i \in DOMAIN pages : /\ size[1] % Width(pages[i].media) = 0
                                /\ size[2] % Height(pages[i].media) = 0
    BY <2>1, Zenon DEF ResizePages
  <2>3. size[1] \in Int /\ size[2] \in Int /\ size[1] > 0 /\ size[2] > 0
    BY <1>2, ArgsAssumption
  <2> HIDE DEF pages
  <2>4. Keeps(pages, new)
    BY <2>1, <2>2, <2>3, ResizedKeeps
  <2> HIDE DEF new
  <2> QED
    BY <2>4 DEF PagesRight, Keeps
<1> HIDE DEF accepted, new
<1> QED
  BY <1>1, <1>2, PagesStep DEF pages

LEMMA BoxesStep ==
  ASSUME TypeOK, TargetsExist, NEW path, NEW nums \in PageArgs, NEW type, NEW box \in BoxArgs,
         NEW out \in Outputs, SetPageBoxes(path, nums, type, box, out)
  PROVE  Sound
<1> DEFINE pages == ReadAll(<<path>>)[1].pages
           accepted == type \in {"MediaBox", "CropBox"} /\ Proper(box) /\ AllInRange(pages, nums)
           new == Boxed(pages, nums, type, box)
<1>1. CallIs("boxes", nums, <<path>>, accepted, Rebuilt(ReadAll(<<path>>)[1], new), out)
  BY Zenon DEF SetPageBoxes, PageCall, Call, CallIs, ReadAll
<1>2. ASSUME path \in DOMAIN files, accepted PROVE PagesRight("boxes", pages, new)
  <2>1. pages \in PageLists
    BY <1>2, ReadOne
  <2>2. Proper(box) /\ box \in Boxes
    BY <1>2, ArgsAssumption
  <2> HIDE DEF pages
  <2>3. new \in PageLists
    BY <2>1, <2>2, BoxedTyped
  <2> HIDE DEF new
  <2> QED
    BY <2>3 DEF PagesRight
<1> HIDE DEF accepted, new
<1> QED
  BY <1>1, <1>2, PagesStep DEF pages

LEMMA BatesStep ==
  ASSUME TypeOK, TargetsExist, NEW path, NEW position, NEW out \in Outputs,
         AddBatesNumbers(path, 1, position, out)
  PROVE  Sound
<1> DEFINE pages == ReadAll(<<path>>)[1].pages
           accepted == position \in BatesPositions
           new == Numbered(pages, 1, position)
<1>1. CallIs("bates", <<1, position>>, <<path>>, accepted, Rebuilt(ReadAll(<<path>>)[1], new), out)
  BY Zenon DEF AddBatesNumbers, PageCall, Call, CallIs, ReadAll
<1>2. ASSUME path \in DOMAIN files, accepted PROVE PagesRight("bates", pages, new)
  <2>1. pages \in PageLists
    BY <1>2, ReadOne
  <2>2. position \in Positions
    BY <1>2 DEF BatesPositions
  <2> HIDE DEF pages
  <2>3. Keeps(pages, new) /\ MarkedRight(pages, new) /\ DOMAIN new = DOMAIN pages
    BY <2>1, <2>2, NumberedKeeps
  <2> HIDE DEF new
  <2> QED
    BY <2>3 DEF PagesRight, Keeps
<1> HIDE DEF accepted, new
<1> QED
  BY <1>1, <1>2, PagesStep DEF pages

LEMMA StampStep ==
  ASSUME TypeOK, TargetsExist, NEW path, NEW nums \in PageArgs, NEW position, NEW out \in Outputs,
         AddStamp(path, nums, position, out)
  PROVE  Sound
<1> DEFINE pages == ReadAll(<<path>>)[1].pages
           accepted == position \in Positions /\ AllInRange(pages, nums)
           new == Stamped(pages, nums, position)
<1>1. CallIs("stamp", <<nums, position>>, <<path>>, accepted, Rebuilt(ReadAll(<<path>>)[1], new),
             out)
  BY Zenon DEF AddStamp, PageCall, Call, CallIs, ReadAll
<1>2. ASSUME path \in DOMAIN files, accepted PROVE PagesRight("stamp", pages, new)
  <2>1. pages \in PageLists
    BY <1>2, ReadOne
  <2>2. position \in Positions
    BY <1>2
  <2> HIDE DEF pages
  <2>3. Keeps(pages, new) /\ MarkedRight(pages, new) /\ DOMAIN new = DOMAIN pages
    BY <2>1, <2>2, StampedKeeps
  <2> HIDE DEF new
  <2> QED
    BY <2>3 DEF PagesRight, Keeps
<1> HIDE DEF accepted, new
<1> QED
  BY <1>1, <1>2, PagesStep DEF pages

LEMMA TwoStep ==
  ASSUME TypeOK, TargetsExist, NEW op, op \notin {"batch", "boxes", "bates", "stamp"}, NEW given,
         NEW a, NEW b, NEW new, NEW out \in Outputs,
         a \in DOMAIN files /\ b \in DOMAIN files => KeepsBoth(files[a].pages, files[b].pages, new),
         CallIs(op, given, <<a, b>>, TRUE, Rebuilt(ReadAll(<<a, b>>)[1], new), out)
  PROVE  Sound
<1> DEFINE read == ReadAll(<<a, b>>)
<1>1. read \in Seq(DocumentRecords)
  BY ReadTwo
<1>2. ASSUME a \in DOMAIN files, b \in DOMAIN files PROVE Right(op, read, Rebuilt(read[1], new))
  <2>1. read = <<files[a], files[b]>> /\ files[a] \in DocumentRecords
    BY <1>2, ReadTwo
  <2>2. read[1] = files[a] /\ read[2] = files[b] /\ 1 \in DOMAIN read /\ 2 \in DOMAIN read
    BY <2>1
  <2>3. KeepsBoth(read[1].pages, read[2].pages, new)
    BY <1>2, <2>2
  <2> HIDE DEF read
  <2>4. Rebuilt(read[1], new) \in Documents /\ Rebuilt(read[1], new).pages = new
    BY <2>1, <2>2, <2>3, RebuiltTyped DEF KeepsBoth
  <2>5. InsideAll(read) => read[1].pages \in Seq(Inside) /\ read[2].pages \in Seq(Inside)
    BY <2>2, Zenon DEF InsideAll
  <2> QED
    BY <2>3, <2>4, <2>5 DEF Right, KeepsBoth
<1>3. Range(<<a, b>>) \subseteq DOMAIN files <=> a \in DOMAIN files /\ b \in DOMAIN files
  BY ReadTwo
<1> HIDE DEF read
<1>4. Range(<<a, b>>) \subseteq DOMAIN files /\ TRUE => Right(op, read, Rebuilt(read[1], new))
  BY <1>2, <1>3
<1> QED
  BY <1>1, <1>4, CallStep DEF read

LEMMA MergeStep ==
  ASSUME TypeOK, TargetsExist, NEW a, NEW b, NEW out \in Outputs, Merge(<<a, b>>, out)
  PROVE  Sound
<1> DEFINE read == ReadAll(<<a, b>>)
           new == Merged([i \in DOMAIN read |-> read[i].pages])
<1>1. CallIs("merge", <<>>, <<a, b>>, <<a, b>> # <<>>, Rebuilt(read[1], new), out)
  BY Zenon DEF Merge, Call, CallIs, ReadAll
<1>2. (<<a, b>> # <<>>) = TRUE
  OBVIOUS
<1>3. CallIs("merge", <<>>, <<a, b>>, TRUE, Rebuilt(read[1], new), out)
  <2> HIDE DEF read, new
  <2> QED
    BY <1>1, <1>2
<1>4. ASSUME a \in DOMAIN files, b \in DOMAIN files
      PROVE  KeepsBoth(files[a].pages, files[b].pages, new)
  <2>1. /\ read = <<files[a], files[b]>>
        /\ files[a].pages \in PageLists /\ files[b].pages \in PageLists
    BY <1>4, ReadTwo
  <2>2. [i \in DOMAIN read |-> read[i].pages] = <<files[a].pages, files[b].pages>>
    BY <2>1
  <2>3. new = Merged(<<files[a].pages, files[b].pages>>)
    BY <2>2
  <2> HIDE DEF new
  <2> QED
    BY <2>1, <2>3, MergedKeeps
<1> HIDE DEF new
<1> QED
  BY <1>3, <1>4, TwoStep DEF read

LEMMA InterleaveStep ==
  ASSUME TypeOK, TargetsExist, NEW a, NEW b, NEW out \in Outputs, InterleaveFiles(a, b, out)
  PROVE  Sound
<1> DEFINE read == ReadAll(<<a, b>>)
           new == Interleaved(read[1].pages, read[2].pages)
<1>1. CallIs("interleave", <<>>, <<a, b>>, TRUE, Rebuilt(read[1], new), out)
  BY Zenon DEF InterleaveFiles, Call, CallIs, ReadAll
<1>2. ASSUME a \in DOMAIN files, b \in DOMAIN files
      PROVE  KeepsBoth(files[a].pages, files[b].pages, new)
  <2>1. /\ read = <<files[a], files[b]>>
        /\ files[a].pages \in PageLists /\ files[b].pages \in PageLists
    BY <1>2, ReadTwo
  <2>2. read[1] = files[a] /\ read[2] = files[b]
    BY <2>1
  <2>3. new = Interleaved(files[a].pages, files[b].pages)
    BY <2>2
  <2> HIDE DEF new
  <2> QED
    BY <2>1, <2>3, InterleavedKeeps
<1> HIDE DEF new
<1> QED
  BY <1>1, <1>2, TwoStep DEF read

(* What leaves the pages of a file as they are.                                   *)
LEMMA SamePagesStep ==
  ASSUME TypeOK, TargetsExist, NEW op, op \notin {"batch", "boxes", "bates", "stamp"}, NEW given,
         NEW path, NEW accepted, NEW document, NEW out \in Outputs,
         path \in DOMAIN files /\ accepted =>
           document \in Documents /\ document.pages = files[path].pages,
         CallIs(op, given, <<path>>, accepted, document, out)
  PROVE  Sound
<1> DEFINE read == ReadAll(<<path>>)
<1>1. read \in Seq(DocumentRecords)
  BY ReadOne
<1>2. ASSUME path \in DOMAIN files, accepted PROVE Right(op, read, document)
  <2>1. read = <<files[path]>> /\ read[1] = files[path]
    BY <1>2, ReadOne
  <2>2. 1 \in DOMAIN read /\ document \in Documents /\ document.pages = read[1].pages
    BY <1>2, <2>1
  <2> HIDE DEF read
  <2>3. InsideAll(read) => read[1].pages \in Seq(Inside)
    BY <2>2, Zenon DEF InsideAll
  <2> QED
    BY <2>2, <2>3 DEF Right
<1>3. Range(<<path>>) \subseteq DOMAIN files <=> path \in DOMAIN files
  BY ReadOne
<1> HIDE DEF read
<1>4. Range(<<path>>) \subseteq DOMAIN files /\ accepted => Right(op, read, document)
  BY <1>2, <1>3
<1> QED
  BY <1>1, <1>4, CallStep DEF read

(* A document whose labels or bookmarks are replaced.                              *)
LEMMA LabelsReplaced ==
  ASSUME NEW document \in DocumentRecords, NEW labels \in Seq(LabelDicts)
  PROVE  LET new == [document EXCEPT !.labels = labels] IN
         /\ new \in DocumentRecords /\ new.pages = document.pages
         /\ new.labels = labels /\ new.outline = document.outline
<1> DEFINE P == Seq(PageRecords) \ {<<>>}  L == Seq(LabelDicts)  O == Seq(Items)
<1>1. document \in [pages : P, labels : L, outline : O] /\ labels \in L
  BY DEF DocumentRecords
<1> HIDE DEF P, L, O
<1> DEFINE new == [document EXCEPT !.labels = labels]
<1>2. /\ new \in [pages : P, labels : L, outline : O] /\ new.pages = document.pages
      /\ new.labels = labels /\ new.outline = document.outline
  BY <1>1
<1> QED
  BY <1>2 DEF DocumentRecords, P, L, O

LEMMA OutlineReplaced ==
  ASSUME NEW document \in DocumentRecords, NEW outline \in Seq(Items)
  PROVE  LET new == [document EXCEPT !.outline = outline] IN
         /\ new \in DocumentRecords /\ new.pages = document.pages
         /\ new.labels = document.labels /\ new.outline = outline
<1> DEFINE P == Seq(PageRecords) \ {<<>>}  L == Seq(LabelDicts)  O == Seq(Items)
<1>1. document \in [pages : P, labels : L, outline : O] /\ outline \in O
  BY DEF DocumentRecords
<1> HIDE DEF P, L, O
<1> DEFINE new == [document EXCEPT !.outline = outline]
<1>2. /\ new \in [pages : P, labels : L, outline : O] /\ new.pages = document.pages
      /\ new.labels = document.labels /\ new.outline = outline
  BY <1>1
<1> QED
  BY <1>2 DEF DocumentRecords, P, L, O

LEMMA LabelsTyped ==
  ASSUME NEW count \in Nat, NEW entries \in LabelArgs, LabelsAccepted(count, entries)
  PROVE  /\ Labelled(entries) \in Seq(LabelDicts)
         /\ \A i \in DOMAIN Labelled(entries) : Labelled(entries)[i].start < count
<1> DEFINE Entry == [start_page : Int, style : DOMAIN PdfStyle \cup {"none"},
                     prefix : STRING, first_number : Int]
<1>1. entries \in Seq(Entry)
  BY ArgsAssumption
<1>2. ASSUME NEW i \in DOMAIN entries
      PROVE  LabelDict(entries[i]) \in LabelDicts /\ LabelDict(entries[i]).start < count
  <2> DEFINE entry == entries[i]
             style == IF entry.style = "none" THEN "absent" ELSE PdfStyle[entry.style]
             first == IF entry.first_number = 1 THEN Unset ELSE entry.first_number
  <2>1. entry \in Entry
    <3> HIDE DEF Entry
    <3>1. entries[i] \in Entry
      BY <1>1
    <3> QED
      BY <3>1
  <2>2. entry.start_page \in 0 .. count - 1
    BY DEF LabelsAccepted
  <2>3. style \in Range(PdfStyle) \cup {"absent"}
    <3>1. entry.style \in DOMAIN PdfStyle \cup {"none"}
      BY <2>1
    <3>2. \A name \in DOMAIN PdfStyle : PdfStyle[name] \in Range(PdfStyle)
      BY Zenon DEF Range
    <3> HIDE DEF entry
    <3> QED
      BY <3>1, <3>2
  <2>4. first \in Int
    BY <2>1 DEF Unset
  <2>5. entry.prefix \in STRING
    BY <2>1
  <2>6. LabelDict(entries[i])
          = [start |-> entry.start_page, S |-> style, P |-> entry.prefix, St |-> first]
    BY Zenon DEF LabelDict
  <2> HIDE DEF entry, style, first
  <2> QED
    BY <2>2, <2>3, <2>4, <2>5, <2>6 DEF LabelDicts
<1> DEFINE new == Labelled(entries)
<1>3. new = [i \in DOMAIN entries |-> LabelDict(entries[i])]
  BY DEF Labelled
<1>4. DOMAIN entries = 1 .. Len(entries) /\ Len(entries) \in Nat
  BY <1>1
<1> HIDE DEF new
<1>5. new \in [1 .. Len(entries) -> LabelDicts]
  BY <1>2, <1>3, <1>4
<1>6. new \in Seq(LabelDicts)
  BY <1>4, <1>5, ListOf
<1>7. \A i \in DOMAIN new : new[i].start < count
  BY <1>2, <1>3
<1> QED
  BY <1>6, <1>7 DEF new

LEMMA LabelsStep ==
  ASSUME TypeOK, TargetsExist, NEW path, NEW entries \in LabelArgs, NEW out \in Outputs,
         SetPageLabels(path, entries, out)
  PROVE  Sound
<1> DEFINE read == ReadAll(<<path>>)
           accepted == LabelsAccepted(Len(read[1].pages), entries)
           document == [Rebuilt(read[1], read[1].pages) EXCEPT !.labels = Labelled(entries)]
<1>1. CallIs("labels", entries, <<path>>, accepted, document, out)
  BY Zenon DEF SetPageLabels, Call, CallIs, ReadAll
<1>2. ASSUME path \in DOMAIN files, accepted
      PROVE  document \in Documents /\ document.pages = files[path].pages
  <2> DEFINE pages == files[path].pages  old == Rebuilt(files[path], pages)
             labels == Labelled(entries)
  <2>1. read[1] = files[path] /\ files[path] \in DocumentRecords /\ pages \in PageLists
    BY <1>2, ReadOne
  <2>2. Len(pages) \in Nat
    BY <2>1, ListTyped
  <2>3. labels \in Seq(LabelDicts) /\ \A i \in DOMAIN labels : labels[i].start < Len(pages)
    BY <1>2, <2>1, <2>2, LabelsTyped
  <2>4. old \in DocumentRecords /\ Linked(old) /\ old.pages = pages
    BY <2>1, RebuiltTyped DEF Documents
  <2>5. document = [old EXCEPT !.labels = labels]
    BY <2>1
  <2> HIDE DEF document, old, labels, pages, read
  <2>6. /\ document \in DocumentRecords /\ document.pages = pages
        /\ document.labels = labels /\ document.outline = old.outline
    BY <2>3, <2>4, <2>5, LabelsReplaced
  <2>7. Linked(document)
    BY <2>3, <2>4, <2>6 DEF Linked
  <2> QED
    BY <2>6, <2>7 DEF Documents, pages
<1> HIDE DEF accepted, document
<1> QED
  BY <1>1, <1>2, SamePagesStep DEF read

(* The stack and the outline while bookmarks are added.                            *)
LEMMA Largest ==
  ASSUME NEW n \in Nat, NEW T, T \subseteq 1 .. n, T # {}
  PROVE  Max(T) \in T /\ \A y \in T : Max(T) >= y
<1> DEFINE S == {n - x : x \in T}
<1>1. S \subseteq Nat /\ S # {}
  <2>1. \A x \in T : n - x \in Nat
    OBVIOUS
  <2>2. PICK x \in T : TRUE
    OBVIOUS
  <2>3. n - x \in S
    OBVIOUS
  <2> QED
    BY <2>1, <2>3
<1>2. PICK s \in S : \A r \in S : ~ (r < s)
  <2> HIDE DEF S
  <2> QED
    BY <1>1, Smallest
<1>3. PICK x \in T : s = n - x
  BY <1>2
<1>4. \A y \in T : x >= y
  <2>1. ASSUME NEW y \in T PROVE x >= y
    <3>1. n - y \in S
      OBVIOUS
    <3>2. ~ (n - y < n - x)
      BY <1>2, <1>3, <3>1
    <3>3. x \in Int /\ y \in Int
      OBVIOUS
    <3> QED
      BY <3>2, <3>3
  <2> QED
    BY <2>1
<1> HIDE DEF S
<1> QED
  BY <1>3, <1>4 DEF Max

Goal(count) == {item \in Items : item.page \in 1 .. count}

Adding(count) == [outline : Seq(Goal(count)), stack : Seq([level : Int, item : Nat])]

Tops == [level : Int, item : Nat]

(* The part of the stack that stays: what is below the level of the new entry.     *)
LEMMA OpenIs ==
  ASSUME NEW stack \in Seq(Tops), NEW level
  PROVE  LET open == Open(stack, level) IN
         /\ open \in 0 .. Len(stack) /\ (open # 0 => stack[open].level < level)
         /\ \A k \in open + 1 .. Len(stack) : ~ (stack[k].level < level)
<1> DEFINE I == {i \in 1 .. Len(stack) : stack[i].level < level}
           n == Len(stack)
<1>1. Open(stack, level) = IF I # {} THEN Max(I) ELSE 0
  BY DEF Open, SelectLastInSeq
<1>2. I \subseteq 1 .. n /\ n \in Nat
  OBVIOUS
<1>3. \A i \in 1 .. n : i \in I <=> stack[i].level < level
  OBVIOUS
<1> HIDE DEF I, n
<1>4. I # {} => Max(I) \in I /\ \A y \in I : Max(I) >= y
  BY <1>2, Largest
<1> DEFINE open == Open(stack, level)
<1>5. CASE I # {}
  <2>1. open \in I /\ \A y \in I : open >= y
    BY <1>1, <1>4, <1>5
  <2> HIDE DEF open
  <2>2. open \in 1 .. n /\ stack[open].level < level
    BY <1>2, <1>3, <2>1
  <2>3. \A k \in open + 1 .. n : k \in 1 .. n /\ ~ (open >= k)
    BY <1>2, <2>2
  <2>4. \A k \in open + 1 .. n : ~ (stack[k].level < level)
    BY <1>3, <2>1, <2>3
  <2>5. open \in 0 .. n
    BY <2>2
  <2> QED
    BY <2>2, <2>4, <2>5 DEF open, n
<1>6. CASE I = {}
  <2>1. open = 0
    BY <1>1, <1>6
  <2> HIDE DEF open
  <2>2. \A k \in open + 1 .. n : ~ (stack[k].level < level)
    BY <1>3, <1>6, <2>1
  <2>3. open \in 0 .. n
    BY <1>2, <2>1
  <2> QED
    BY <2>1, <2>2, <2>3 DEF open, n
<1> QED
  BY <1>5, <1>6

LEMMA AddTyped ==
  ASSUME NEW count \in Nat, NEW added \in Adding(count), NEW entry \in [page : Int, level : Int],
         entry.page \in 1 .. count
  PROVE  AddEntry(added, entry) \in Adding(count)
<1> DEFINE open   == Open(added.stack, entry.level)
           parent == IF open = 0 THEN 0 ELSE added.stack[open].item
           item   == [page |-> entry.page, parent |-> parent]
           top    == [level |-> entry.level, item |-> Len(added.outline) + 1]
           rest   == SubSeq(added.stack, 1, open)
<1>1. added.outline \in Seq(Goal(count)) /\ added.stack \in Seq([level : Int, item : Nat])
  BY DEF Adding
<1>2. open \in 0 .. Len(added.stack)
  BY <1>1, OpenIs DEF Tops
<1>3. AddEntry(added, entry)
        = [outline |-> Append(added.outline, item), stack |-> Append(rest, top)]
  BY Zenon DEF AddEntry
<1> HIDE DEF open
<1>4. parent \in Nat
  <2>1. CASE open # 0
    <3>1. open \in 1 .. Len(added.stack)
      BY <1>2, <2>1
    <3>2. added.stack[open] \in [level : Int, item : Nat]
      <4> DEFINE Top == [level : Int, item : Nat]  stack == added.stack
      <4>1. stack \in Seq(Top) /\ open \in 1 .. Len(stack)
        BY <1>1, <3>1
      <4> HIDE DEF Top, stack
      <4>2. stack[open] \in Top
        BY <4>1
      <4> QED
        BY <4>2 DEF Top, stack
    <3>3. added.stack[open].item \in Nat
      BY <3>2
    <3> QED
      BY <2>1, <3>3
  <2>2. CASE open = 0
    BY <2>2
  <2> QED
    BY <2>1, <2>2
<1> HIDE DEF parent
<1>5. item \in Goal(count)
  BY <1>4 DEF Goal, Items
<1>6. top \in [level : Int, item : Nat]
  <2>1. Len(added.outline) \in Nat
    BY <1>1
  <2> QED
    BY <2>1
<1>7. rest \in Seq([level : Int, item : Nat])
  <2> DEFINE T == [level : Int, item : Nat]  stack == added.stack
  <2>1. stack \in Seq(T) /\ open \in 0 .. Len(stack)
    BY <1>1, <1>2
  <2> HIDE DEF T, stack
  <2>2. SubSeq(stack, 1, open) \in Seq(T)
    BY <2>1, SubSeqProperties
  <2> QED
    BY <2>2 DEF T, stack
<1> HIDE DEF item, top, rest
<1>8. Append(added.outline, item) \in Seq(Goal(count))
  BY <1>1, <1>5, AppendProperties
<1>9. Append(rest, top) \in Seq([level : Int, item : Nat])
  BY <1>6, <1>7, AppendProperties
<1> QED
  BY <1>3, <1>8, <1>9 DEF Adding

Adds(f, outline, entries) ==
  f = [i \in 0 .. Len(entries) |->
         IF i = 0 THEN [outline |-> outline, stack |-> <<>>]
         ELSE AddEntry(f[i - 1], entries[i])]

LEMMA AddSteps ==
  ASSUME NEW count \in Nat, NEW outline \in Seq(Goal(count)),
         NEW entries \in Seq([page : Int, level : Int]),
         \A i \in DOMAIN entries : entries[i].page \in 1 .. count
  PROVE  \E f \in [0 .. Len(entries) -> Adding(count)] :
           Adds(f, outline, entries) /\ Bookmarked(outline, entries) = f[Len(entries)].outline
<1> DEFINE n == Len(entries)
           Body(i, x) == AddEntry(x, entries[i])
           step == [ix \in (1 .. n) \X Adding(count) |-> Body(ix[1], ix[2])]
           f == CHOOSE f : Adds(f, outline, entries)
<1>1. \A i \in 1 .. n, x \in Adding(count) : Body(i, x) \in Adding(count)
  <2>1. ASSUME NEW i \in 1 .. n, NEW x \in Adding(count) PROVE Body(i, x) \in Adding(count)
    <3>1. i \in DOMAIN entries /\ entries[i] \in [page : Int, level : Int]
      <4> DEFINE Entry == [page : Int, level : Int]
      <4>1. entries \in Seq(Entry) /\ i \in 1 .. Len(entries)
        OBVIOUS
      <4> HIDE DEF Entry, n
      <4>2. i \in DOMAIN entries /\ entries[i] \in Entry
        BY <4>1
      <4> QED
        BY <4>2 DEF Entry
    <3> HIDE DEF n
    <3> QED
      BY <3>1, AddTyped
  <2> QED
    BY <2>1
<1>2. step \in [(1 .. n) \X Adding(count) -> Adding(count)] /\ [outline |-> outline, stack |-> <<>>] \in Adding(count) /\ n \in Nat
  <2>1. n \in Nat
    OBVIOUS
  <2>2. [outline |-> outline, stack |-> <<>>] \in Adding(count)
    BY DEF Adding
  <2> HIDE DEF n, Body
  <2> QED
    BY <1>1, <2>1, <2>2
<1>3. \A i \in 1 .. n, x \in Adding(count) : step[<<i, x>>] = Body(i, x)
  OBVIOUS
<1> HIDE DEF step, n
<1>4. PICK g \in [0 .. n -> Adding(count)] : Recurses(g, n, [outline |-> outline, stack |-> <<>>], step)
  BY <1>2, Recursion
<1>5. \A i \in 1 .. n : i - 1 \in 0 .. n /\ i \in 0 .. n /\ i # 0 /\ g[i - 1] \in Adding(count)
  <2>1. \A i \in 1 .. n : i - 1 \in 0 .. n /\ i \in 0 .. n /\ i # 0
    BY <1>2
  <2> QED
    BY <2>1
<1>6. \A i \in 1 .. n : step[<<i, g[i - 1]>>] = Body(i, g[i - 1])
  BY <1>3, <1>5
<1>7. \A i \in 0 .. n : g[i] = IF i = 0 THEN [outline |-> outline, stack |-> <<>>] ELSE Body(i, g[i - 1])
  <2> HIDE DEF Body
  <2>1. \A i \in 0 .. n : i # 0 => i \in 1 .. n
    BY <1>2
  <2> QED
    BY <1>4, <1>6, <2>1 DEF Recurses
<1>8. Adds(g, outline, entries)
  BY <1>7 DEF Adds, n
<1>9. Adds(f, outline, entries)
  BY <1>8
<1>10. Bookmarked(outline, entries) = f[n].outline
  BY Zenon DEF Bookmarked, Adds, n
<1> HIDE DEF f
<1>11. f = g
  <2>1. Function(f, n) /\ Function(g, n)
    BY <1>9 DEF Adds, Function, n
  <2>2. \A i \in 0 .. n : f[i] = IF i = 0 THEN [outline |-> outline, stack |-> <<>>] ELSE Body(i, f[i - 1])
    BY <1>9 DEF Adds, n
  <2>3. 0 \in 0 .. n /\ f[0] = g[0]
    BY <1>2, <1>7, <2>2
  <2>4. \A i \in 1 .. n : g[i] = Body(i, g[i - 1]) /\ f[i] = Body(i, f[i - 1])
    BY <1>5, <1>7, <2>2
  <2>5. \A i \in 1 .. n : f[i - 1] = g[i - 1] => f[i] = g[i]
    BY <2>4, Zenon
  <2> HIDE DEF Body
  <2> QED
    BY <1>2, <2>1, <2>3, <2>5, Unique
<1> QED
  BY <1>8, <1>10, <1>11 DEF n

-----------------------------------------------------------------------------
(* How an outline is read back.                                                     *)

(* Induction from the last place of a sequence to the first.                      *)
LEMMA DownTo ==
  ASSUME NEW n \in Nat, NEW S, 0 \in S,
         \A k \in 1 .. n : (\A later \in k + 1 .. n : later \in S) => k \in S
  PROVE  0 .. n \subseteq S
<1> DEFINE T == {m \in 0 .. n : n - m \notin S}
<1> SUFFICES ASSUME NEW k \in 0 .. n, k \notin S PROVE FALSE
  OBVIOUS
<1>1. n - k \in 0 .. n /\ n - (n - k) = k
  OBVIOUS
<1>2. n - k \in T
  BY <1>1
<1>3. T \subseteq Nat
  OBVIOUS
<1>4. PICK m \in T : \A y \in T : ~ (y < m)
  <2> HIDE DEF T
  <2> QED
    BY <1>2, <1>3, Smallest
<1>5. m \in 0 .. n /\ n - m \notin S /\ n - m \in 1 .. n
  BY <1>4
<1>6. ASSUME NEW later \in n - m + 1 .. n PROVE later \in S
  <2>1. n - later \in 0 .. n /\ n - (n - later) = later /\ n - later < m
    BY <1>5
  <2>2. n - later \notin T
    BY <1>4, <2>1
  <2> QED
    BY <2>1, <2>2
<1> QED
  BY <1>5, <1>6

(* The lines of a table of contents.                                              *)
Lines == [page : Nat, level : Nat]

(* The item that follows another in a list of children.                           *)
LEMMA FollowingIs ==
  ASSUME NEW outline, Len(outline) \in Nat, NEW parent, NEW item \in Nat
  PROVE  LET next == Following(outline, parent, item) IN
         \/ next = 0 /\ \A c \in item + 1 .. Len(outline) : outline[c].parent # parent
         \/ /\ next \in item + 1 .. Len(outline) /\ outline[next].parent = parent
            /\ \A c \in item + 1 .. Len(outline) : outline[c].parent = parent => next <= c
<1> DEFINE later == {c \in item + 1 .. Len(outline) : outline[c].parent = parent}
<1>1. Following(outline, parent, item) = IF later = {} THEN 0 ELSE Min(later)
  BY DEF Following
<1>2. later \subseteq Nat
  OBVIOUS
<1>3. later # {} => Min(later) \in later /\ \A y \in later : Min(later) <= y
  <2> SUFFICES ASSUME later # {} PROVE Min(later) \in later /\ \A y \in later : Min(later) <= y
    OBVIOUS
  <2> HIDE DEF later
  <2>1. PICK x \in later : \A y \in later : ~ (y < x)
    BY <1>2, Smallest
  <2>2. \A y \in later : x <= y
    BY <1>2, <2>1
  <2> QED
    BY <2>1, <2>2 DEF Min
<1>4. CASE later = {}
  <2>1. \A c \in item + 1 .. Len(outline) : outline[c].parent # parent
    BY <1>4
  <2> QED
    BY <1>1, <1>4, <2>1
<1>5. CASE later # {}
  <2> DEFINE next == Min(later)
  <2>1. next \in later /\ \A y \in later : next <= y
    BY <1>3, <1>5
  <2> HIDE DEF next
  <2>2. next \in item + 1 .. Len(outline) /\ outline[next].parent = parent
    BY <2>1
  <2>3. \A c \in item + 1 .. Len(outline) : outline[c].parent = parent => next <= c
    BY <2>1
  <2> QED
    BY <1>1, <1>5, <2>2, <2>3 DEF next
<1> QED
  BY <1>4, <1>5

(* What _walk_outlines tells from an item to the end of its list.                 *)
Told(f, outline, item, level) ==
  <<[page |-> outline[item].page, level |-> level]>>
    \o f[Following(outline, item, item)][level + 1]
    \o f[Following(outline, outline[item].parent, item)][level]

Walks(f, outline) ==
  f = [item \in 0 .. Len(outline) |->
         [level \in Nat |-> IF item = 0 THEN <<>> ELSE Told(f, outline, item, level)]]

LEMMA ToldTyped ==
  ASSUME NEW outline \in Seq(Items), NEW f, NEW item \in 1 .. Len(outline), NEW level \in Nat,
         \A later \in {0} \cup (item + 1 .. Len(outline)) : f[later] \in [Nat -> Seq(Lines)]
  PROVE  /\ [page |-> outline[item].page, level |-> level] \in Lines
         /\ f[Following(outline, item, item)][level + 1] \in Seq(Lines)
         /\ f[Following(outline, outline[item].parent, item)][level] \in Seq(Lines)
         /\ Told(f, outline, item, level) \in Seq(Lines)
<1> DEFINE child == Following(outline, item, item)
           next == Following(outline, outline[item].parent, item)
           line == [page |-> outline[item].page, level |-> level]
<1>1. Len(outline) \in Nat /\ item \in Nat /\ level + 1 \in Nat
  OBVIOUS
<1>2. outline[item] \in Items
  OBVIOUS
<1>3. line \in Lines
  BY <1>2 DEF Items, Lines
<1>4. child \in {0} \cup (item + 1 .. Len(outline)) /\ next \in {0} \cup (item + 1 .. Len(outline))
  BY <1>1, FollowingIs
<1> HIDE DEF child, next, line
<1>5. f[child][level + 1] \in Seq(Lines) /\ f[next][level] \in Seq(Lines)
  BY <1>1, <1>4
<1>6. <<line>> \in Seq(Lines)
  BY <1>3
<1>7. <<line>> \o f[child][level + 1] \in Seq(Lines)
  BY <1>5, <1>6, ConcatProperties
<1>8. <<line>> \o f[child][level + 1] \o f[next][level] \in Seq(Lines)
  BY <1>5, <1>7, ConcatProperties
<1>9. Told(f, outline, item, level) = <<line>> \o f[child][level + 1] \o f[next][level]
  BY Zenon DEF Told, child, next, line
<1> QED
  BY <1>3, <1>5, <1>8, <1>9 DEF child, next, line

LEMMA WalkExists ==
  ASSUME NEW outline \in Seq(Items)
  PROVE  \E f : Walks(f, outline)
<1> DEFINE n == Len(outline)
           T == [Nat -> Seq(Lines)]
           Until(f, m) == /\ \A level \in Nat : f[0][level] = <<>>
                          /\ \A item \in n - m + 1 .. n : \A level \in Nat :
                               f[item][level] = Told(f, outline, item, level)
           S == {m \in 0 .. n : \E f \in [0 .. n -> T] : Until(f, m)}
<1>0. n \in Nat
  OBVIOUS
<1>1. 0 \in S
  <2> DEFINE f == [item \in 0 .. n |-> [level \in Nat |-> <<>>]]
  <2>1. [level \in Nat |-> <<>>] \in T
    OBVIOUS
  <2>2. f \in [0 .. n -> T]
    BY <2>1
  <2>3. 0 \in 0 .. n /\ \A level \in Nat : f[0][level] = <<>>
    BY <1>0
  <2>4. \A item \in n - 0 + 1 .. n : FALSE
    BY <1>0
  <2> HIDE DEF f, n, T
  <2>5. Until(f, 0)
    BY <2>3, <2>4
  <2> HIDE DEF Until
  <2> QED
    BY <2>2, <2>3, <2>5
<1>2. ASSUME NEW m \in 0 .. n - 1, m \in S PROVE m + 1 \in S
  <2>1. PICK f \in [0 .. n -> T] : Until(f, m)
    BY <1>2
  <2> DEFINE at == n - m
             new == [level \in Nat |-> Told(f, outline, at, level)]
             g == [f EXCEPT ![at] = new]
  <2>2. at \in 1 .. n /\ at \in 0 .. n /\ at # 0 /\ m + 1 \in 0 .. n /\ at \in Nat
    BY <1>0
  <2>3. \A item \in n - (m + 1) + 1 .. n : item \in n - m + 1 .. n \/ item = at
    BY <1>0
  <2>4. \A item \in n - m + 1 .. n : item \in at + 1 .. n /\ item # at
    BY <1>0
  <2> HIDE DEF at
  <2>5. \A later \in {0} \cup (at + 1 .. n) : later \in 0 .. n /\ later # at
    BY <1>0, <2>2
  <2>6. new \in T
    <3>1. \A later \in {0} \cup (at + 1 .. n) : f[later] \in T
      BY <2>1, <2>5
    <3> HIDE DEF new
    <3>2. \A level \in Nat : Told(f, outline, at, level) \in Seq(Lines)
      BY <2>2, <3>1, ToldTyped
    <3> HIDE DEF T
    <3> QED
      BY <3>2 DEF T, new
  <2> HIDE DEF new
  <2>7. g \in [0 .. n -> T] /\ g[at] = new /\ \A i \in 0 .. n : i # at => g[i] = f[i]
    <3> HIDE DEF T, n
    <3> QED
      BY <2>1, <2>2, <2>6
  <2> HIDE DEF g
  <2>8. ASSUME NEW item \in at .. n, NEW level
        PROVE  Told(g, outline, item, level) = Told(f, outline, item, level)
    <3> DEFINE child == Following(outline, item, item)
               next == Following(outline, outline[item].parent, item)
    <3>1. item \in Nat
      BY <2>2
    <3>2. child \in {0} \cup (item + 1 .. n) /\ next \in {0} \cup (item + 1 .. n)
      BY <1>0, <3>1, FollowingIs
    <3> HIDE DEF child, next
    <3>3. child \in {0} \cup (at + 1 .. n) /\ next \in {0} \cup (at + 1 .. n)
      BY <1>0, <2>2, <3>2
    <3>4. g[child] = f[child] /\ g[next] = f[next]
      BY <2>5, <2>7, <3>3
    <3> QED
      BY <3>4, Zenon DEF Told, child, next
  <2>9. \A level \in Nat : g[0][level] = <<>>
    <3>1. g[0] = f[0]
      BY <2>5, <2>7
    <3> QED
      BY <2>1, <3>1
  <2>10. ASSUME NEW item \in n - (m + 1) + 1 .. n, NEW level \in Nat
         PROVE  g[item][level] = Told(g, outline, item, level)
    <3>1. item \in at .. n
      BY <1>0, <2>2, <2>3, <2>4
    <3>2. Told(g, outline, item, level) = Told(f, outline, item, level)
      BY <2>8, <3>1
    <3>3. CASE item = at
      BY <2>7, <3>2, <3>3 DEF new
    <3>4. CASE item \in n - m + 1 .. n
      <4>1. g[item] = f[item]
        BY <2>4, <2>5, <2>7, <3>4
      <4>2. f[item][level] = Told(f, outline, item, level)
        BY <2>1, <3>4
      <4> QED
        BY <3>2, <4>1, <4>2
    <3> QED
      BY <2>3, <3>3, <3>4
  <2>11. Until(g, m + 1)
    BY <2>9, <2>10
  <2> HIDE DEF Until, n, T
  <2> QED
    BY <2>2, <2>7, <2>11
<1>3. n \in S
  <2> HIDE DEF S, n
  <2>1. 0 .. n \subseteq S
    BY <1>0, <1>1, <1>2, UpTo
  <2> QED
    BY <1>0, <2>1
<1>4. PICK f \in [0 .. n -> T] : Until(f, n)
  BY <1>3
<1>5. ASSUME NEW item \in 0 .. n
      PROVE  f[item] = [level \in Nat |-> IF item = 0 THEN <<>> ELSE Told(f, outline, item, level)]
  <2>1. f[item] \in T
    BY <1>4
  <2>2. item # 0 => item \in n - n + 1 .. n
    BY <1>0
  <2>3. \A level \in Nat : f[item][level] = IF item = 0 THEN <<>> ELSE Told(f, outline, item, level)
    <3> HIDE DEF T, n
    <3> QED
      BY <1>4, <2>2
  <2> HIDE DEF n, Until
  <2> QED
    BY <2>1, <2>3
<1>6. Walks(f, outline)
  <2>1. f = [item \in 0 .. n |-> f[item]]
    BY <1>4
  <2> HIDE DEF T, Until
  <2> QED
    BY <1>5, <2>1 DEF Walks
<1> QED
  BY <1>6

(* The walk, and what is known of it.                                             *)
LEMMA WalkIs ==
  ASSUME NEW outline \in Seq(Items)
  PROVE  \E f : Walks(f, outline) /\ Walk(outline) = f[Following(outline, 0, 0)][0]
<1> DEFINE f == CHOOSE f : Walks(f, outline)
<1>1. Walks(f, outline)
  BY WalkExists
<1>2. Walk(outline) = f[Following(outline, 0, 0)][0]
  BY Zenon DEF Walk, Walks, Told
<1> HIDE DEF f
<1> QED
  BY <1>1, <1>2

LEMMA WalkTyped ==
  ASSUME NEW outline \in Seq(Items), NEW f, Walks(f, outline)
  PROVE  /\ \A level \in Nat : f[0][level] = <<>>
         /\ \A item \in 1 .. Len(outline) : \A level \in Nat :
              f[item][level] = Told(f, outline, item, level)
         /\ \A item \in 0 .. Len(outline) : f[item] \in [Nat -> Seq(Lines)]
<1> DEFINE n == Len(outline)
           T == [Nat -> Seq(Lines)]
           S == {item \in 0 .. n : f[item] \in T}
<1>0. n \in Nat /\ 0 \in 0 .. n
  OBVIOUS
<1>1. \A item \in 0 .. n : f[item] = [level \in Nat |-> IF item = 0 THEN <<>> ELSE Told(f, outline, item, level)]
  BY DEF Walks
<1>2. f[0] = [level \in Nat |-> <<>>]
  BY <1>0, <1>1
<1>3. \A item \in 1 .. n : item \in 0 .. n /\ f[item] = [level \in Nat |-> Told(f, outline, item, level)]
  <2> SUFFICES ASSUME NEW item \in 1 .. n
               PROVE  item \in 0 .. n /\ f[item] = [level \in Nat |-> Told(f, outline, item, level)]
    OBVIOUS
  <2>1. item \in 0 .. n /\ item # 0
    BY <1>0
  <2> HIDE DEF n
  <2>2. f[item] = [level \in Nat |-> IF item = 0 THEN <<>> ELSE Told(f, outline, item, level)]
    BY <1>1, <2>1
  <2> QED
    BY <2>1, <2>2
<1>4. 0 \in S
  <2>1. f[0] \in T
    BY <1>2
  <2> HIDE DEF n, T
  <2> QED
    BY <1>0, <2>1
<1>5. ASSUME NEW item \in 1 .. n, \A later \in item + 1 .. n : later \in S PROVE item \in S
  <2>1. \A later \in {0} \cup (item + 1 .. n) : f[later] \in T
    BY <1>4, <1>5
  <2>2. \A level \in Nat : Told(f, outline, item, level) \in Seq(Lines)
    BY <2>1, ToldTyped
  <2>3. f[item] \in T
    BY <1>3, <2>2
  <2> HIDE DEF T, n
  <2> QED
    BY <1>3, <2>3
<1>6. 0 .. n \subseteq S
  <2> HIDE DEF S, n
  <2> QED
    BY <1>0, <1>4, <1>5, DownTo
<1>7. \A item \in 0 .. n : f[item] \in T
  BY <1>6
<1> HIDE DEF S, T
<1>8. \A level \in Nat : f[0][level] = <<>>
  BY <1>2
<1>9. \A item \in 1 .. n : \A level \in Nat : f[item][level] = Told(f, outline, item, level)
  BY <1>3
<1> QED
  BY <1>7, <1>8, <1>9 DEF n, T

(* An item is added to the last of its list, and the lists above it end there.    *)
LEMMA FollowingAdded ==
  ASSUME NEW outline \in Seq(Items), NEW added \in Items, NEW parent, NEW item \in 0 .. Len(outline)
  PROVE  LET new  == Append(outline, added)
             next == Following(outline, parent, item)
         IN Following(new, parent, item) = IF next # 0 THEN next
                                           ELSE IF added.parent = parent THEN Len(outline) + 1 ELSE 0
<1> DEFINE new == Append(outline, added)
           n == Len(outline)
           next == Following(outline, parent, item)
           after == Following(new, parent, item)
<1>1. n \in Nat /\ Len(new) = n + 1 /\ item \in 0 .. n
  BY AppendProperties
<1>2. (\A c \in 1 .. n : new[c] = outline[c]) /\ new[n + 1] = added
  BY AppendProperties
<1>3. \/ next = 0 /\ \A c \in item + 1 .. n : outline[c].parent # parent
      \/ /\ next \in item + 1 .. n /\ outline[next].parent = parent
         /\ \A c \in item + 1 .. n : outline[c].parent = parent => next <= c
  BY <1>1, FollowingIs
<1>4. \/ after = 0 /\ \A c \in item + 1 .. n + 1 : new[c].parent # parent
      \/ /\ after \in item + 1 .. n + 1 /\ new[after].parent = parent
         /\ \A c \in item + 1 .. n + 1 : new[c].parent = parent => after <= c
  <2> HIDE DEF new
  <2> QED
    BY <1>1, FollowingIs
<1> HIDE DEF new, n, next, after
<1>5. /\ \A c \in item + 1 .. n : c \in 1 .. n /\ c \in item + 1 .. n + 1 /\ c # n + 1
      /\ \A c \in item + 1 .. n + 1 : c = n + 1 \/ c \in item + 1 .. n
      /\ n + 1 \in item + 1 .. n + 1
  BY <1>1
<1>6. CASE next # 0
  <2>1. next \in item + 1 .. n /\ new[next].parent = parent
    BY <1>2, <1>3, <1>5, <1>6
  <2>2. after \in item + 1 .. n + 1 /\ new[after].parent = parent /\ after <= next
    BY <1>1, <1>4, <1>5, <2>1
  <2>3. after \in item + 1 .. n
    BY <1>1, <2>1, <2>2
  <2>4. outline[after].parent = parent
    BY <1>2, <1>5, <2>2, <2>3
  <2>5. next <= after
    BY <1>3, <2>1, <2>3, <2>4
  <2>6. after = next
    BY <1>1, <2>1, <2>2, <2>3, <2>5
  <2> QED
    BY <1>6, <2>6 DEF after, next, new
<1>7. CASE next = 0
  <2>1. \A c \in item + 1 .. n : new[c].parent # parent
    BY <1>1, <1>2, <1>3, <1>5, <1>7
  <2>2. added.parent = parent => after = n + 1
    BY <1>1, <1>2, <1>4, <1>5, <2>1
  <2>3. added.parent # parent => after = 0
    BY <1>1, <1>2, <1>4, <1>5, <2>1
  <2> QED
    BY <1>7, <2>2, <2>3 DEF after, next, new, n
<1> QED
  BY <1>6, <1>7

(* P are the items whose list ends with one that is open or with the new item:    *)
(* 0, the parent of the new item and those above it, D levels deep.               *)
Spine(outline, P, D, parent) ==
  /\ P \subseteq 0 .. Len(outline) /\ D \in [P -> Nat]
  /\ 0 \in P /\ D[0] = 0 /\ parent \in P /\ \A i \in P : D[i] <= D[parent]
  /\ \A c \in P \ {0} :
       /\ outline[c].parent \in P /\ outline[c].parent # parent /\ outline[c].parent < c
       /\ D[c] = D[outline[c].parent] + 1
       /\ \A e \in c + 1 .. Len(outline) : outline[e].parent # outline[c].parent
  /\ \A i \in P \ {parent} : \E c \in P \ {0} : outline[c].parent = i

LEMMA EndGathered ==
  ASSUME NEW S, NEW y \in Seq(S), NEW s \in Seq(S), NEW u \in Seq(S)
  PROVE  y \o (s \o u) \o <<>> = y \o s \o <<>> \o u
<1>1. y \o s \in Seq(S) /\ s \o u \in Seq(S)
  BY ConcatProperties
<1>2. y \o (s \o u) = y \o s \o u
  BY ConcatAssociative
<1>3. y \o (s \o u) \in Seq(S)
  BY <1>1, ConcatProperties
<1>4. y \o (s \o u) \o <<>> = y \o (s \o u) /\ y \o s \o <<>> = y \o s
  BY <1>1, <1>3, ConcatEmptySeq
<1> QED
  BY <1>2, <1>4

LEMMA ItemAdded ==
  ASSUME NEW outline \in Seq(Items), NEW added \in Items, NEW P, NEW D,
         Spine(outline, P, D, added.parent)
  PROVE  Walk(Append(outline, added))
           = Walk(outline) \o <<[page |-> added.page, level |-> D[added.parent]]>>
<1> DEFINE n == Len(outline)
           new == Append(outline, added)
           p == added.parent
           Line(i, level) == [page |-> added.page, level |-> level + (D[p] - D[i])]
<1>1. n \in Nat /\ Len(new) = n + 1 /\ new \in Seq(Items)
  BY AppendProperties
<1>2. (\A c \in 1 .. n : new[c] = outline[c]) /\ new[n + 1] = added
  BY AppendProperties
<1>3. PICK f : Walks(f, outline) /\ Walk(outline) = f[Following(outline, 0, 0)][0]
  BY WalkIs
<1>4. PICK h : Walks(h, new) /\ Walk(new) = h[Following(new, 0, 0)][0]
  <2> HIDE DEF new
  <2> QED
    BY <1>1, WalkIs
<1>5. /\ \A level \in Nat : f[0][level] = <<>>
      /\ \A item \in 1 .. n : \A level \in Nat : f[item][level] = Told(f, outline, item, level)
      /\ \A item \in 0 .. n : f[item] \in [Nat -> Seq(Lines)]
  BY <1>3, WalkTyped
<1>6. /\ \A level \in Nat : h[0][level] = <<>>
      /\ \A item \in 1 .. n + 1 : \A level \in Nat : h[item][level] = Told(h, new, item, level)
      /\ \A item \in 0 .. n + 1 : h[item] \in [Nat -> Seq(Lines)]
  <2> HIDE DEF new, n
  <2>1. /\ \A level \in Nat : h[0][level] = <<>>
        /\ \A item \in 1 .. Len(new) : \A level \in Nat : h[item][level] = Told(h, new, item, level)
        /\ \A item \in 0 .. Len(new) : h[item] \in [Nat -> Seq(Lines)]
    BY <1>1, <1>4, WalkTyped
  <2> QED
    BY <1>1, <2>1, Zenon
<1>7. /\ P \subseteq 0 .. n /\ D \in [P -> Nat]
      /\ 0 \in P /\ D[0] = 0 /\ p \in P /\ \A i \in P : D[i] <= D[p]
      /\ \A c \in P \ {0} :
           /\ outline[c].parent \in P /\ outline[c].parent # p /\ outline[c].parent < c
           /\ D[c] = D[outline[c].parent] + 1
           /\ \A e \in c + 1 .. n : outline[e].parent # outline[c].parent
      /\ \A i \in P \ {p} : \E c \in P \ {0} : outline[c].parent = i
  BY Zenon DEF Spine
<1>8. \A parent \in Nat, item \in 0 .. n :
        Following(new, parent, item)
          = IF Following(outline, parent, item) # 0 THEN Following(outline, parent, item)
            ELSE IF p = parent THEN n + 1 ELSE 0
  BY FollowingAdded
<1>9. \A parent \in Nat, item \in 0 .. n :
        LET next == Following(outline, parent, item) IN
        \/ next = 0 /\ \A c \in item + 1 .. n : outline[c].parent # parent
        \/ /\ next \in item + 1 .. n /\ outline[next].parent = parent
  <2> SUFFICES ASSUME NEW parent \in Nat, NEW item \in 0 .. n
               PROVE  LET next == Following(outline, parent, item) IN
                      \/ next = 0 /\ \A c \in item + 1 .. n : outline[c].parent # parent
                      \/ /\ next \in item + 1 .. n /\ outline[next].parent = parent
    OBVIOUS
  <2>1. item \in Nat
    BY <1>1
  <2> QED
    BY <1>1, <2>1, FollowingIs
<1>10. \A item \in 1 .. n : outline[item].parent \in Nat /\ new[item] = outline[item] /\ item \in 0 .. n
  <2> SUFFICES ASSUME NEW item \in 1 .. n PROVE outline[item].parent \in Nat
    BY <1>1, <1>2
  <2>1. outline[item] \in Items
    OBVIOUS
  <2> QED
    BY <2>1 DEF Items
<1>11. added.page \in Nat /\ p \in Nat
  BY DEF Items
<1>12. \A i \in P, level \in Nat : Line(i, level) \in Lines
  <2> SUFFICES ASSUME NEW i \in P, NEW level \in Nat PROVE Line(i, level) \in Lines
    OBVIOUS
  <2>1. D[i] \in Nat /\ D[p] \in Nat /\ D[i] <= D[p]
    BY <1>7
  <2>2. level + (D[p] - D[i]) \in Nat
    BY <2>1
  <2> QED
    BY <1>11, <2>2 DEF Lines
<1>13. \A level \in Nat : h[n + 1][level] = <<Line(p, level)>>
  <2> SUFFICES ASSUME NEW level \in Nat PROVE h[n + 1][level] = <<Line(p, level)>>
    OBVIOUS
  <2>1. Following(new, n + 1, n + 1) = 0 /\ Following(new, p, n + 1) = 0
    <3> HIDE DEF new
    <3>1. n + 1 \in Nat /\ Len(new) \in Nat /\ \A next : ~ (next \in (n + 1) + 1 .. Len(new))
      BY <1>1
    <3> QED
      BY <3>1, FollowingIs
  <2>2. h[n + 1][level] = Told(h, new, n + 1, level)
    <3>1. n + 1 \in 1 .. n + 1
      BY <1>1
    <3> QED
      BY <1>6, <3>1
  <2>3. Told(h, new, n + 1, level) = <<[page |-> added.page, level |-> level]>> \o h[0][level + 1] \o h[0][level]
    BY <1>2, <2>1, Zenon DEF Told
  <2>4. h[0][level + 1] = <<>> /\ h[0][level] = <<>>
    BY <1>6
  <2> DEFINE line == [page |-> added.page, level |-> level]
  <2>5. line \in Lines
    BY <1>11 DEF Lines
  <2>6. Line(p, level) = line
    <3>1. D[p] \in Nat
      BY <1>7
    <3>2. level + (D[p] - D[p]) = level
      BY <3>1
    <3> QED
      BY <3>2
  <2> HIDE DEF line
  <2>7. <<line>> \in Seq(Lines)
    BY <2>5
  <2>8. <<line>> \o <<>> \o <<>> = <<line>>
    BY <2>7, ConcatEmptySeq
  <2> QED
    BY <2>2, <2>3, <2>4, <2>6, <2>8 DEF line
<1> HIDE DEF Line, new, n, p
<1> DEFINE Grown(item, level) ==
             h[item][level] = IF outline[item].parent \in P
                              THEN f[item][level] \o <<Line(outline[item].parent, level)>>
                              ELSE f[item][level]
           S == {item \in 0 .. n : item # 0 => \A level \in Nat : Grown(item, level)}
<1> DEFINE Grows(next, after, q, item, level) ==
             /\ next \in {0} \cup (item + 1 .. n)
             /\ next = 0 => \A c \in item + 1 .. n : outline[c].parent # q
             /\ q \notin P => h[after][level] = f[next][level]
             /\ q \in P /\ (next # 0 \/ q = p) => h[after][level] = f[next][level] \o <<Line(q, level)>>
             /\ next = 0 /\ q # p => h[after][level] = <<>> /\ f[next][level] = <<>>
<1>14. ASSUME NEW item \in 0 .. n, \A later \in item + 1 .. n : later \in S, NEW q \in Nat, NEW level \in Nat
       PROVE  Grows(Following(outline, q, item), Following(new, q, item), q, item, level)
  <2> DEFINE next  == Following(outline, q, item)
             after == Following(new, q, item)
  <2>1. \/ next = 0 /\ \A c \in item + 1 .. n : outline[c].parent # q
        \/ /\ next \in item + 1 .. n /\ outline[next].parent = q
    BY <1>9
  <2>2. after = IF next # 0 THEN next ELSE IF p = q THEN n + 1 ELSE 0
    BY <1>8
  <2> HIDE DEF next, after
  <2>3. CASE next # 0
    <3>1. next \in S /\ outline[next].parent = q /\ next \in item + 1 .. n /\ after = next
      BY <1>14, <2>1, <2>2, <2>3
    <3>2. Grown(next, level)
      BY <2>3, <3>1
    <3> QED
      BY <2>3, <3>1, <3>2 DEF next, after
  <2>4. CASE next = 0
    <3>1. f[next][level] = <<>>
      BY <1>5, <2>4
    <3>2. q # p => h[after][level] = <<>>
      BY <1>6, <2>2, <2>4
    <3>3. q = p => h[after][level] = f[next][level] \o <<Line(q, level)>>
      <4> SUFFICES ASSUME q = p PROVE h[after][level] = f[next][level] \o <<Line(q, level)>>
        OBVIOUS
      <4>1. h[after][level] = <<Line(q, level)>>
        BY <1>13, <2>2, <2>4
      <4>2. Line(q, level) \in Lines
        BY <1>7, <1>12
      <4> DEFINE line == Line(q, level)
      <4> HIDE DEF line
      <4>3. <<line>> \in Seq(Lines)
        BY <4>2 DEF line
      <4>4. <<>> \o <<line>> = <<line>>
        BY <4>3, ConcatEmptySeq
      <4> QED
        BY <3>1, <4>1, <4>4 DEF line
    <3>4. next = 0 => \A c \in item + 1 .. n : outline[c].parent # q
      BY <1>1, <2>1
    <3>5. q \in P => q = p \/ q # p
      OBVIOUS
    <3>6. q \notin P => q # p
      BY <1>7
    <3> QED
      BY <2>4, <3>1, <3>2, <3>3, <3>4, <3>6 DEF next, after
  <2> QED
    BY <2>3, <2>4
<1>15. 0 \in S
  BY <1>1
<1>16. ASSUME NEW item \in 1 .. n, \A later \in item + 1 .. n : later \in S PROVE item \in S
  <2> SUFFICES ASSUME NEW level \in Nat PROVE Grown(item, level)
    BY <1>10
  <2> DEFINE q == outline[item].parent
             line == [page |-> outline[item].page, level |-> level]
             child == Following(outline, item, item)
             grown == Following(new, item, item)
             next == Following(outline, q, item)
             after == Following(new, q, item)
  <2>1. q \in Nat /\ new[item] = outline[item] /\ item \in 0 .. n /\ item \in Nat /\ level + 1 \in Nat /\ item # 0
    <3>1. q \in Nat /\ new[item] = outline[item] /\ item \in 0 .. n
      BY <1>10
    <3>2. item \in Nat /\ level + 1 \in Nat /\ item # 0
      BY <1>1
    <3> QED
      BY <3>1, <3>2
  <2>2. f[item][level] = <<line>> \o f[child][level + 1] \o f[next][level]
    <3>1. f[item][level] = Told(f, outline, item, level)
      BY <1>5
    <3> QED
      BY <3>1, Zenon DEF Told
  <2>3. h[item][level] = <<line>> \o h[grown][level + 1] \o h[after][level]
    <3>1. item \in 1 .. n + 1
      BY <1>1
    <3>2. h[item][level] = Told(h, new, item, level)
      BY <1>6, <3>1
    <3> QED
      BY <2>1, <3>2, Zenon DEF Told
  <2>4. /\ next \in {0} \cup (item + 1 .. n)
        /\ next = 0 => \A c \in item + 1 .. n : outline[c].parent # q
        /\ q \notin P => h[after][level] = f[next][level]
        /\ q \in P /\ (next # 0 \/ q = p) => h[after][level] = f[next][level] \o <<Line(q, level)>>
        /\ next = 0 /\ q # p => h[after][level] = <<>> /\ f[next][level] = <<>>
    <3> HIDE DEF S, Grows, q
    <3>1. Grows(next, after, q, item, level)
      BY <1>14, <1>16, <2>1
    <3> QED
      BY <3>1, Zenon DEF Grows
  <2>5. /\ child \in {0} \cup (item + 1 .. n)
        /\ child = 0 => \A c \in item + 1 .. n : outline[c].parent # item
        /\ item \notin P => h[grown][level + 1] = f[child][level + 1]
        /\ item \in P /\ (child # 0 \/ item = p) =>
             h[grown][level + 1] = f[child][level + 1] \o <<Line(item, level + 1)>>
    <3> HIDE DEF S, Grows
    <3>1. Grows(child, grown, item, item, level + 1)
      BY <1>14, <1>16, <2>1
    <3> QED
      BY <3>1, Zenon DEF Grows
  <2>6. line \in Lines
    <3>1. outline[item] \in Items
      BY DEF n
    <3> QED
      BY <3>1 DEF Items, Lines
  <2>7. f[child][level + 1] \in Seq(Lines) /\ f[next][level] \in Seq(Lines)
    <3> HIDE DEF child, next
    <3>1. child \in 0 .. n /\ next \in 0 .. n
      BY <1>1, <2>1, <2>4, <2>5
    <3> QED
      BY <1>5, <2>1, <3>1
  <2>8. item \in P => q \in P /\ q # p /\ D[item] = D[q] + 1 /\ \A e \in item + 1 .. n : outline[e].parent # q
    BY <1>7, <2>1
  <2> HIDE DEF q, line, child, grown, next, after
  <2>9. CASE q \notin P
    <3>1. item \notin P
      BY <2>8, <2>9
    <3>2. h[item][level] = f[item][level]
      BY <2>2, <2>3, <2>4, <2>5, <2>9, <3>1
    <3> QED
      BY <2>9, <3>2 DEF q
  <2>10. CASE q \in P /\ (next # 0 \/ q = p)
    <3>1. item \notin P
      <4> SUFFICES ASSUME item \in P PROVE FALSE
        OBVIOUS
      <4>1. next \in item + 1 .. n
        BY <2>4, <2>8, <2>10
      <4>2. outline[next].parent = q
        BY <1>9, <2>1, <2>8, <2>10 DEF next
      <4> QED
        BY <2>8, <4>1, <4>2
    <3>2. h[after][level] = f[next][level] \o <<Line(q, level)>> /\ h[grown][level + 1] = f[child][level + 1]
      BY <2>4, <2>5, <2>10, <3>1
    <3> DEFINE end == Line(q, level)
    <3>3. end \in Lines
      BY <1>12, <2>10
    <3> HIDE DEF end
    <3>4. <<end>> \in Seq(Lines)
      BY <3>3
    <3> DEFINE y == <<line>>  s == f[child][level + 1]  t == f[next][level]  u == <<end>>
    <3>5. <<line>> \o f[child][level + 1] \o (f[next][level] \o <<end>>)
            = <<line>> \o f[child][level + 1] \o f[next][level] \o <<end>>
      <4>1. y \in Seq(Lines) /\ s \in Seq(Lines) /\ t \in Seq(Lines) /\ u \in Seq(Lines)
        BY <2>6, <2>7, <3>4
      <4> HIDE DEF y, s, t, u
      <4> DEFINE Join(a, b) == a \o b
      <4>2. \A a, b \in Seq(Lines) : Join(a, b) \in Seq(Lines)
        BY ConcatProperties
      <4>3. \A a, b, c \in Seq(Lines) : Join(a, Join(b, c)) = Join(Join(a, b), c)
        BY ConcatAssociative, SMTT(30)
      <4> HIDE DEF Join
      <4>4. Join(Join(y, s), Join(t, u)) = Join(Join(Join(y, s), t), u)
        BY <4>1, <4>2, <4>3
      <4> QED
        BY <4>4, Zenon DEF Join, y, s, t, u
    <3>6. h[item][level] = f[item][level] \o <<end>>
      BY <2>2, <2>3, <3>2, <3>5 DEF end
    <3> QED
      BY <2>10, <3>6 DEF q, end
  <2>11. CASE q \in P /\ next = 0 /\ q # p
    <3>1. PICK c \in P \ {0} : outline[c].parent = q
      BY <1>7, <2>11
    <3>2. c \in 1 .. n /\ \A e \in c + 1 .. n : outline[e].parent # q
      <4>1. c \in 1 .. n
        BY <1>1, <1>7
      <4>2. \A e \in c + 1 .. n : outline[e].parent # outline[c].parent
        BY <1>7
      <4> QED
        BY <3>1, <4>1, <4>2
    <3>3. ~ (item \in c + 1 .. n) /\ ~ (c \in item + 1 .. n)
      BY <2>4, <2>11, <3>1, <3>2 DEF q
    <3>4. c = item
      BY <1>1, <3>2, <3>3
    <3>5. item \in P /\ D[item] = D[q] + 1
      BY <2>8, <3>1, <3>4
    <3>6. child # 0 \/ item = p
      <4> SUFFICES ASSUME child = 0, item # p PROVE FALSE
        OBVIOUS
      <4>1. PICK d \in P \ {0} : outline[d].parent = item
        BY <1>7, <3>5
      <4>2. d \in 1 .. n /\ item < d
        <5>1. d \in 1 .. n
          BY <1>1, <1>7
        <5>2. outline[d].parent < d
          BY <1>7
        <5> QED
          BY <4>1, <5>1, <5>2
      <4>3. d \in item + 1 .. n
        BY <1>1, <4>2
      <4> QED
        BY <2>5, <4>1, <4>3
    <3>7. Line(item, level + 1) = Line(q, level)
      <4>1. D[item] \in Nat /\ D[q] \in Nat /\ D[p] \in Nat
        BY <1>7, <2>11, <3>5
      <4>2. (level + 1) + (D[p] - D[item]) = level + (D[p] - D[q])
        <5> DEFINE x == D[p]  y == D[item]  z == D[q]
        <5>1. x \in Nat /\ y \in Nat /\ z \in Nat /\ y = z + 1 /\ level \in Nat
          BY <3>5, <4>1
        <5> HIDE DEF x, y, z
        <5>2. (level + 1) + (x - y) = level + (x - z)
          BY <5>1
        <5> QED
          BY <5>2 DEF x, y, z
      <4> QED
        BY <4>2 DEF Line
    <3> DEFINE end == Line(q, level)
    <3>8. end \in Lines
      BY <1>12, <2>11
    <3>9. h[grown][level + 1] = f[child][level + 1] \o <<end>> /\ h[after][level] = <<>> /\ f[next][level] = <<>>
      BY <2>4, <2>5, <2>11, <3>5, <3>6, <3>7
    <3> HIDE DEF end
    <3>10. <<end>> \in Seq(Lines)
      BY <3>8
    <3> DEFINE y == <<line>>  s == f[child][level + 1]  u == <<end>>
    <3>11. <<line>> \o (f[child][level + 1] \o <<end>>) \o <<>>
             = <<line>> \o f[child][level + 1] \o <<>> \o <<end>>
      <4>1. y \in Seq(Lines) /\ s \in Seq(Lines) /\ u \in Seq(Lines)
        BY <2>6, <2>7, <3>10
      <4> HIDE DEF y, s, u
      <4>2. y \o (s \o u) \o <<>> = y \o s \o <<>> \o u
        BY <4>1, EndGathered
      <4> QED
        BY <4>2 DEF y, s, u
    <3>12. h[item][level] = f[item][level] \o <<end>>
      BY <2>2, <2>3, <3>9, <3>11
    <3> QED
      BY <2>11, <3>12 DEF q, end
  <2> QED
    BY <2>9, <2>10, <2>11
<1>17. 0 .. n \subseteq S
  <2> HIDE DEF S
  <2> QED
    BY <1>1, <1>15, <1>16, DownTo
<1>18. 0 \in 0 .. n /\ 0 \in Nat /\ \A later \in 0 + 1 .. n : later \in S
  BY <1>1, <1>17
<1> DEFINE first == Following(outline, 0, 0)
           after == Following(new, 0, 0)
<1>19. /\ first = 0 => \A c \in 0 + 1 .. n : outline[c].parent # 0
       /\ 0 \in P /\ (first # 0 \/ 0 = p) => h[after][0] = f[first][0] \o <<Line(0, 0)>>
  <2> HIDE DEF S, Grows
  <2>1. Grows(first, after, 0, 0, 0)
    BY <1>14, <1>18
  <2> QED
    BY <2>1, Zenon DEF Grows
<1>20. first # 0 \/ 0 = p
  <2> SUFFICES ASSUME first = 0, 0 # p PROVE FALSE
    OBVIOUS
  <2>1. PICK c \in P \ {0} : outline[c].parent = 0
    BY <1>7
  <2>2. c \in 0 + 1 .. n
    BY <1>1, <1>7, <2>1
  <2> QED
    BY <1>19, <2>1, <2>2
<1>21. Line(0, 0) = [page |-> added.page, level |-> D[added.parent]]
  <2>1. D[p] \in Nat /\ D[0] = 0
    BY <1>7
  <2>2. 0 + (D[p] - D[0]) = D[p]
    BY <2>1
  <2> QED
    BY <2>2 DEF Line, p
<1> HIDE DEF S
<1>22. h[after][0] = f[first][0] \o <<Line(0, 0)>>
  BY <1>7, <1>19, <1>20
<1> QED
  BY <1>3, <1>4, <1>21, <1>22 DEF new

(* After n entries behind m items: the stack holds the entries that may still get  *)
(* children, each the child of the one before it and the last of its list.         *)
Stacked(added, m, entries, n) ==
  LET outline == added.outline  stack == added.stack IN
  /\ outline \in Seq(Items) /\ Len(outline) = m + n /\ stack \in Seq(Tops)
  /\ \A k \in 1 .. Len(stack) :
       /\ stack[k].item \in m + 1 .. m + n
       /\ stack[k].level = entries[stack[k].item - m].level
       /\ outline[stack[k].item].parent = IF k = 1 THEN 0 ELSE stack[k - 1].item
       /\ \A e \in stack[k].item + 1 .. m + n : outline[e].parent # outline[stack[k].item].parent
  /\ \A k \in 1 .. Len(stack) : \A j \in 1 .. k - 1 :
       stack[j].item < stack[k].item /\ stack[j].level < stack[k].level
  /\ \A j \in 1 .. n :
       (\A k \in j + 1 .. n : entries[k].level > entries[j].level)
         <=> \E k \in 1 .. Len(stack) : stack[k].item = m + j

(* What is open is a spine, and the new item is as deep as much of it is open.     *)
OpenItems(stack, open) == {0} \cup {stack[k].item : k \in 1 .. open}

ParentOf(stack, open) == IF open = 0 THEN 0 ELSE stack[open].item

LEMMA OpenSpine ==
  ASSUME NEW m \in Nat, NEW n \in Nat, NEW entries, NEW added, Stacked(added, m, entries, n),
         NEW open \in 0 .. Len(added.stack)
  PROVE  \E D : /\ Spine(added.outline, OpenItems(added.stack, open), D, ParentOf(added.stack, open))
                /\ D[ParentOf(added.stack, open)] = open
<1> DEFINE outline == added.outline
           stack == added.stack
           P == OpenItems(stack, open)
           p == ParentOf(stack, open)
           D == [i \in P |-> IF i = 0 THEN 0 ELSE CHOOSE k \in 1 .. open : stack[k].item = i]
<1>1. /\ outline \in Seq(Items) /\ Len(outline) = m + n /\ stack \in Seq(Tops)
      /\ \A k \in 1 .. Len(stack) :
           /\ stack[k].item \in m + 1 .. m + n
           /\ outline[stack[k].item].parent = IF k = 1 THEN 0 ELSE stack[k - 1].item
           /\ \A e \in stack[k].item + 1 .. m + n : outline[e].parent # outline[stack[k].item].parent
      /\ \A k \in 1 .. Len(stack) : \A j \in 1 .. k - 1 : stack[j].item < stack[k].item
  BY Zenon DEF Stacked
<1>2. Len(stack) \in Nat /\ open \in 0 .. Len(stack)
  BY <1>1
<1> HIDE DEF outline, stack
<1>3. \A k \in 1 .. open : k \in 1 .. Len(stack) /\ stack[k].item \in m + 1 .. m + n /\ stack[k].item # 0 /\ stack[k].item \in P
  <2>1. \A k \in 1 .. open : k \in 1 .. Len(stack)
    BY <1>2
  <2>2. \A k \in 1 .. open : stack[k].item \in m + 1 .. m + n
    BY <1>1, <2>1
  <2>3. \A x \in m + 1 .. m + n : x # 0
    OBVIOUS
  <2>4. \A k \in 1 .. open : stack[k].item \in P
    BY DEF OpenItems
  <2> QED
    BY <2>1, <2>2, <2>3, <2>4
<1>4. \A i \in P : i = 0 \/ \E k \in 1 .. open : i = stack[k].item
  BY DEF OpenItems
<1>5. 0 \in P /\ p \in P
  <2>1. 0 \in P
    BY DEF OpenItems
  <2>2. open # 0 => open \in 1 .. open
    BY <1>2
  <2> HIDE DEF P
  <2> QED
    BY <1>3, <2>1, <2>2 DEF ParentOf
<1>6. \A j, k \in 1 .. open : stack[j].item = stack[k].item => j = k
  <2> SUFFICES ASSUME NEW j \in 1 .. open, NEW k \in 1 .. open, stack[j].item = stack[k].item, j # k
               PROVE  FALSE
    OBVIOUS
  <2>1. j \in 1 .. k - 1 \/ k \in 1 .. j - 1
    BY <1>2
  <2>2. stack[j].item < stack[k].item \/ stack[k].item < stack[j].item
    BY <1>1, <1>3, <2>1
  <2>3. stack[j].item \in Nat /\ stack[k].item \in Nat
    BY <1>3
  <2> QED
    BY <2>2, <2>3
<1>7. D[0] = 0 /\ \A k \in 1 .. open : D[stack[k].item] = k
  <2>1. D[0] = 0
    BY <1>5
  <2>2. ASSUME NEW k \in 1 .. open PROVE D[stack[k].item] = k
    <3> DEFINE i == stack[k].item  c == CHOOSE j \in 1 .. open : stack[j].item = i
    <3>1. i \in P /\ i # 0
      BY <1>3
    <3>2. D[i] = c
      BY <3>1
    <3>3. c \in 1 .. open /\ stack[c].item = i
      OBVIOUS
    <3> HIDE DEF c, D
    <3>4. c = k
      BY <1>6, <3>3
    <3> QED
      BY <3>2, <3>4
  <2> QED
    BY <2>1, <2>2
<1>8. DOMAIN D = P /\ D = [i \in P |-> D[i]]
  OBVIOUS
<1> HIDE DEF P, D, p
<1>9. \A i \in P : D[i] \in 0 .. open
  <2>1. \A k \in 1 .. open : D[stack[k].item] \in 0 .. open
    BY <1>2, <1>7
  <2> QED
    BY <1>2, <1>4, <1>7, <2>1
<1>10. D[p] = open
  <2>1. CASE open = 0
    BY <1>7, <2>1 DEF p, ParentOf
  <2>2. CASE open # 0
    <3>1. open \in 1 .. open /\ p = stack[open].item
      BY <1>2, <2>2 DEF p, ParentOf
    <3> QED
      BY <1>7, <3>1
  <2> QED
    BY <2>1, <2>2
<1>11. P \subseteq 0 .. Len(outline)
  <2> SUFFICES ASSUME NEW i \in P PROVE i \in 0 .. m + n
    BY <1>1
  <2>1. CASE i = 0
    BY <2>1
  <2>2. ASSUME NEW k \in 1 .. open, i = stack[k].item PROVE i \in 0 .. m + n
    <3>1. i \in m + 1 .. m + n
      BY <1>3, <2>2
    <3> QED
      BY <3>1
  <2> QED
    BY <1>4, <2>1, <2>2
<1>12. D \in [P -> Nat] /\ \A i \in P : D[i] <= D[p]
  <2>1. \A x \in 0 .. open : x \in Nat /\ x <= open
    BY <1>2
  <2> QED
    BY <1>8, <1>9, <1>10, <2>1
<1>13. ASSUME NEW c \in P \ {0}
       PROVE  /\ outline[c].parent \in P /\ outline[c].parent # p /\ outline[c].parent < c
              /\ D[c] = D[outline[c].parent] + 1
              /\ \A e \in c + 1 .. Len(outline) : outline[e].parent # outline[c].parent
  <2>1. PICK k \in 1 .. open : c = stack[k].item
    BY <1>4
  <2>2. open # 0 /\ open \in 1 .. open /\ p = stack[open].item
    BY <1>2 DEF p, ParentOf
  <2>3. /\ outline[c].parent = IF k = 1 THEN 0 ELSE stack[k - 1].item
        /\ \A e \in c + 1 .. m + n : outline[e].parent # outline[c].parent
    BY <1>1, <1>3, <2>1
  <2>4. c \in m + 1 .. m + n /\ p \in m + 1 .. m + n
    BY <1>3, <2>1, <2>2
  <2>5. CASE k = 1
    <3>1. outline[c].parent = 0 /\ 0 # p /\ 0 < c
      BY <2>3, <2>4, <2>5
    <3> QED
      BY <1>1, <1>5, <1>7, <2>1, <2>3, <2>5, <3>1
  <2>6. CASE k # 1
    <3>1. k - 1 \in 1 .. open /\ k - 1 \in 1 .. k - 1 /\ k - 1 \in 1 .. open - 1 /\ (k - 1) + 1 = k
      BY <1>2, <2>6
    <3>2. outline[c].parent = stack[k - 1].item
      BY <2>3, <2>6
    <3>3. stack[k - 1].item < c /\ stack[k - 1].item < p
      BY <1>1, <1>3, <2>1, <2>2, <3>1
    <3>4. stack[k - 1].item \in P /\ stack[k - 1].item \in Nat
      BY <1>3, <3>1
    <3>5. stack[k - 1].item # p
      BY <2>4, <3>3, <3>4
    <3>6. D[stack[k - 1].item] = k - 1 /\ D[c] = k
      BY <1>7, <2>1, <3>1
    <3> QED
      BY <1>1, <2>3, <3>1, <3>2, <3>3, <3>4, <3>5, <3>6
  <2> QED
    BY <2>5, <2>6
<1>14. ASSUME NEW i \in P \ {p} PROVE \E c \in P \ {0} : outline[c].parent = i
  <2>1. CASE i = 0
    <3>1. open # 0
      BY <2>1 DEF p, ParentOf
    <3>2. 1 \in 1 .. open
      BY <1>2, <3>1
    <3>3. outline[stack[1].item].parent = 0 /\ stack[1].item \in P /\ stack[1].item # 0
      BY <1>1, <1>3, <3>2
    <3> QED
      BY <2>1, <3>3
  <2>2. CASE i # 0
    <3>1. PICK k \in 1 .. open : i = stack[k].item
      BY <1>4, <2>2
    <3>2. open # 0 /\ p = stack[open].item
      BY <1>2, <3>1 DEF p, ParentOf
    <3>3. k # open
      BY <3>1, <3>2
    <3>4. k + 1 \in 1 .. open /\ k + 1 # 1 /\ (k + 1) - 1 = k
      BY <1>2, <3>3
    <3>5. outline[stack[k + 1].item].parent = stack[k].item /\ stack[k + 1].item \in P /\ stack[k + 1].item # 0
      BY <1>1, <1>3, <3>4
    <3> QED
      BY <3>1, <3>5
  <2> QED
    BY <2>1, <2>2
<1>15. Spine(outline, P, D, p)
  BY <1>5, <1>7, <1>11, <1>12, <1>13, <1>14, Zenon DEF Spine
<1> QED
  BY <1>10, <1>15 DEF outline, stack, P, p

Entries == [page : Int, level : Int]

(* What an entry does to the outline and the stack.                               *)
Entered(added, m, entries, n) ==
  LET entry == entries[n + 1]
      open  == Open(added.stack, entry.level)
      new   == AddEntry(added, entry)
      item  == [page |-> entry.page, parent |-> ParentOf(added.stack, open)]
  IN /\ item \in Items /\ new.outline = Append(added.outline, item)
     /\ Stacked(new, m, entries, n + 1)
     /\ open \in 0 .. Len(added.stack)
     /\ \A j \in 1 .. n :
          (\A k \in j + 1 .. n + 1 : entries[k].level > entries[j].level)
            <=> \E k \in 1 .. open : added.stack[k].item = m + j

LEMMA EntryStacked ==
  ASSUME NEW m \in Nat, NEW entries \in Seq(Entries), NEW n \in 0 .. Len(entries) - 1, NEW added,
         Stacked(added, m, entries, n), entries[n + 1].page \in Nat
  PROVE  Entered(added, m, entries, n)
<1> DEFINE entry   == entries[n + 1]
           outline == added.outline
           stack   == added.stack
           open    == Open(stack, entry.level)
           p       == ParentOf(stack, open)
           item    == [page |-> entry.page, parent |-> p]
           top     == [level |-> entry.level, item |-> Len(outline) + 1]
           rest    == SubSeq(stack, 1, open)
           after   == Append(outline, item)
           tops    == Append(rest, top)
           new     == AddEntry(added, entry)
<1>1. /\ outline \in Seq(Items) /\ Len(outline) = m + n /\ stack \in Seq(Tops)
      /\ \A k \in 1 .. Len(stack) :
           /\ stack[k].item \in m + 1 .. m + n
           /\ stack[k].level = entries[stack[k].item - m].level
           /\ outline[stack[k].item].parent = IF k = 1 THEN 0 ELSE stack[k - 1].item
           /\ \A e \in stack[k].item + 1 .. m + n : outline[e].parent # outline[stack[k].item].parent
      /\ \A k \in 1 .. Len(stack) : \A j \in 1 .. k - 1 :
           stack[j].item < stack[k].item /\ stack[j].level < stack[k].level
      /\ \A j \in 1 .. n :
           (\A k \in j + 1 .. n : entries[k].level > entries[j].level)
             <=> \E k \in 1 .. Len(stack) : stack[k].item = m + j
  BY Zenon DEF Stacked
<1>2. new = [outline |-> after, stack |-> tops]
  BY Zenon DEF AddEntry, ParentOf
<1>3. /\ open \in 0 .. Len(stack) /\ (open # 0 => stack[open].level < entry.level)
      /\ \A k \in open + 1 .. Len(stack) : ~ (stack[k].level < entry.level)
  BY <1>1, OpenIs
<1>4. n \in Nat /\ n + 1 \in 1 .. Len(entries) /\ Len(stack) \in Nat
  BY <1>1
<1>5. entry \in Entries /\ entry.page \in Nat /\ entry.level \in Int
  <2>1. entry \in Entries
    BY <1>4
  <2> QED
    BY <2>1 DEF Entries
<1> HIDE DEF entry, outline, stack, open
<1>6. \A k \in 1 .. Len(stack) : stack[k].level \in Int /\ stack[k].item \in Nat
  <2> SUFFICES ASSUME NEW k \in 1 .. Len(stack) PROVE stack[k].level \in Int /\ stack[k].item \in Nat
    OBVIOUS
  <2>1. stack[k] \in Tops
    BY <1>1
  <2> QED
    BY <2>1 DEF Tops
<1>7. p \in Nat
  <2>1. open # 0 => open \in 1 .. Len(stack)
    BY <1>3, <1>4
  <2> QED
    BY <1>6, <2>1 DEF ParentOf
<1> HIDE DEF p
<1>8. item \in Items
  BY <1>5, <1>7 DEF Items
<1>9. top \in Tops /\ top.level = entry.level /\ top.item = m + n + 1
  <2>1. Len(outline) + 1 = m + n + 1 /\ m + n + 1 \in Nat
    BY <1>1, <1>4
  <2> QED
    BY <1>5, <2>1 DEF Tops
<1>10. rest \in Seq(Tops) /\ Len(rest) = open /\ \A k \in 1 .. open : rest[k] = stack[k]
  <2>1. \A k \in 1 .. open : stack[k] \in Tops
    BY <1>1, <1>3, <1>4
  <2>2. open \in Int /\ open \in Nat
    BY <1>3
  <2>3. /\ rest \in Seq(Tops) /\ Len(rest) = IF 1 <= open THEN open - 1 + 1 ELSE 0
        /\ \A k \in 1 .. open - 1 + 1 : rest[k] = stack[1 + k - 1]
    BY <2>1, <2>2, SubSeqProperties
  <2>4. \A k \in 1 .. open : k \in 1 .. open - 1 + 1 /\ 1 + k - 1 = k
    BY <2>2
  <2> HIDE DEF rest
  <2> QED
    BY <2>2, <2>3, <2>4
<1>11. /\ after \in Seq(Items) /\ Len(after) = m + n + 1
       /\ (\A e \in 1 .. m + n : after[e] = outline[e]) /\ after[m + n + 1] = item
  <2> HIDE DEF item
  <2>1. /\ after \in Seq(Items) /\ Len(after) = Len(outline) + 1
        /\ (\A e \in 1 .. Len(outline) : after[e] = outline[e]) /\ after[Len(outline) + 1] = item
    BY <1>1, <1>8, AppendProperties
  <2> HIDE DEF after
  <2> QED
    BY <1>1, <2>1
<1>12. /\ tops \in Seq(Tops) /\ Len(tops) = open + 1
       /\ (\A k \in 1 .. open : tops[k] = stack[k]) /\ tops[open + 1] = top
  <2> HIDE DEF top, rest
  <2>1. /\ tops \in Seq(Tops) /\ Len(tops) = Len(rest) + 1
        /\ (\A k \in 1 .. Len(rest) : tops[k] = rest[k]) /\ tops[Len(rest) + 1] = top
    BY <1>9, <1>10, AppendProperties
  <2> HIDE DEF tops
  <2> QED
    BY <1>10, <2>1
<1> HIDE DEF item, top, rest, after, tops, new
<1>13. /\ \A k \in 1 .. open : k \in 1 .. Len(stack) /\ k # open + 1
       /\ \A k \in 1 .. open + 1 : k = open + 1 \/ k \in 1 .. open
       /\ open + 1 \in 1 .. open + 1 /\ open \in Nat
  BY <1>3, <1>4
<1>14. \A k \in 1 .. open : stack[k].level < entry.level
  <2> SUFFICES ASSUME NEW k \in 1 .. open PROVE stack[k].level < entry.level
    OBVIOUS
  <2>1. open # 0 /\ open \in 1 .. Len(stack) /\ (k = open \/ k \in 1 .. open - 1)
    BY <1>3, <1>4
  <2>2. k = open \/ stack[k].level < stack[open].level
    BY <1>1, <2>1
  <2>3. stack[k].level \in Int /\ stack[open].level \in Int /\ entry.level \in Int
    BY <1>5, <1>6, <1>13, <2>1
  <2>4. stack[open].level < entry.level
    BY <1>3, <2>1
  <2> DEFINE x == stack[k].level  y == stack[open].level  z == entry.level
  <2>5. x \in Int /\ y \in Int /\ z \in Int /\ y < z /\ (k = open => x = y) /\ (k = open \/ x < y)
    BY <2>2, <2>3, <2>4
  <2> HIDE DEF x, y, z
  <2>6. x < z
    BY <2>5
  <2> QED
    BY <2>6 DEF x, z
<1>15. \A k \in 1 .. Len(stack) : stack[k].level < entry.level <=> k \in 1 .. open
  <2>1. \A k \in 1 .. Len(stack) : k \in 1 .. open \/ k \in open + 1 .. Len(stack)
    BY <1>3, <1>4
  <2> QED
    BY <1>3, <1>14, <2>1
<1>16. item.parent = p /\ (open = 0 => p = 0) /\ (open # 0 => p = stack[open].item)
  BY DEF item, p, ParentOf
<1>17. ASSUME NEW k \in 1 .. open + 1
       PROVE  /\ tops[k].item \in m + 1 .. m + (n + 1)
              /\ tops[k].level = entries[tops[k].item - m].level
              /\ after[tops[k].item].parent = IF k = 1 THEN 0 ELSE tops[k - 1].item
              /\ \A e \in tops[k].item + 1 .. m + (n + 1) : after[e].parent # after[tops[k].item].parent
  <2>1. CASE k = open + 1
    <3>1. tops[k].item = m + n + 1 /\ tops[k].level = entry.level
      BY <1>9, <1>12, <2>1
    <3>2. tops[k].item - m = n + 1 /\ tops[k].item \in m + 1 .. m + (n + 1)
      BY <1>4, <3>1
    <3>3. \A e : ~ (e \in tops[k].item + 1 .. m + (n + 1))
      BY <1>4, <3>1
    <3>4. after[tops[k].item].parent = p
      BY <1>11, <1>16, <3>1
    <3>5. p = IF k = 1 THEN 0 ELSE tops[k - 1].item
      <4>1. k - 1 = open /\ (k = 1 <=> open = 0) /\ (open # 0 => open \in 1 .. open)
        BY <1>13, <2>1
      <4> QED
        BY <1>12, <1>16, <4>1
    <3> QED
      BY <3>1, <3>2, <3>3, <3>4, <3>5 DEF entry
  <2>2. CASE k \in 1 .. open
    <3> DEFINE c == stack[k].item
    <3>1. tops[k] = stack[k] /\ k \in 1 .. Len(stack)
      BY <1>12, <1>13, <2>2
    <3>2. /\ c \in m + 1 .. m + n /\ stack[k].level = entries[c - m].level
          /\ outline[c].parent = IF k = 1 THEN 0 ELSE stack[k - 1].item
          /\ \A e \in c + 1 .. m + n : outline[e].parent # outline[c].parent
      BY <1>1, <3>1
    <3>3. after[c] = outline[c]
      <4>1. c \in 1 .. m + n
        BY <1>4, <3>2
      <4> QED
        BY <1>11, <4>1
    <3>4. p # outline[c].parent
      <4>1. open # 0 /\ open \in 1 .. Len(stack)
        BY <1>3, <1>4, <2>2
      <4>2. p = stack[open].item /\ p \in m + 1 .. m + n
        BY <1>1, <1>16, <4>1
      <4>3. CASE k = 1
        <5>1. p # 0
          BY <1>4, <4>2
        <5> QED
          BY <3>2, <4>3, <5>1
      <4>4. CASE k # 1
        <5>0. k \in 1 .. open /\ open \in Nat
          BY <1>13, <2>2
        <5>1. k - 1 \in 1 .. open - 1 /\ k - 1 \in 1 .. Len(stack)
          <6>1. k - 1 \in 1 .. open - 1 /\ k - 1 \in 1 .. open
            BY <4>4, <5>0
          <6> QED
            BY <1>13, <6>1, Zenon
        <5>2. stack[k - 1].item < p /\ stack[k - 1].item \in Nat
          BY <1>1, <1>6, <4>1, <4>2, <5>1
        <5>3. p # stack[k - 1].item
          BY <1>7, <5>2
        <5> QED
          BY <3>2, <4>4, <5>3
      <4> QED
        BY <4>3, <4>4
    <3>5. ASSUME NEW e \in c + 1 .. m + (n + 1) PROVE after[e].parent # outline[c].parent
      <4>1. e = m + n + 1 \/ (e \in c + 1 .. m + n /\ e \in 1 .. m + n)
        BY <1>4, <3>2
      <4>2. CASE e = m + n + 1
        BY <1>11, <1>16, <3>4, <4>2
      <4>3. CASE e \in c + 1 .. m + n /\ e \in 1 .. m + n
        BY <1>11, <3>2, <4>3
      <4> QED
        BY <4>1, <4>2, <4>3
    <3>6. c \in m + 1 .. m + (n + 1)
      BY <1>4, <3>2
    <3>7. k # 1 => tops[k - 1] = stack[k - 1]
      <4>1. k # 1 => k - 1 \in 1 .. open
        BY <1>13, <2>2
      <4> QED
        BY <1>12, <4>1
    <3> HIDE DEF c
    <3>8. tops[k].item = c
      BY <3>1 DEF c
    <3> QED
      BY <3>1, <3>2, <3>3, <3>5, <3>6, <3>7, <3>8
  <2> QED
    BY <1>13, <2>1, <2>2
<1>18. ASSUME NEW k \in 1 .. open + 1, NEW j \in 1 .. k - 1
       PROVE  tops[j].item < tops[k].item /\ tops[j].level < tops[k].level
  <2>1. j \in 1 .. open /\ j \in 1 .. Len(stack) /\ tops[j] = stack[j]
    <3>1. j \in 1 .. open
      BY <1>13
    <3> QED
      BY <1>12, <1>13, <3>1
  <2>2. CASE k = open + 1
    <3>1. tops[k].item = m + n + 1 /\ tops[k].level = entry.level
      BY <1>9, <1>12, <2>2
    <3>2. stack[j].item \in m + 1 .. m + n /\ stack[j].level < entry.level
      BY <1>1, <1>14, <2>1
    <3>3. stack[j].item < m + n + 1
      BY <1>4, <3>2
    <3> QED
      BY <2>1, <3>1, <3>2, <3>3
  <2>3. CASE k \in 1 .. open
    <3>1. tops[k] = stack[k] /\ k \in 1 .. Len(stack)
      BY <1>12, <1>13, <2>3
    <3> QED
      BY <1>1, <2>1, <3>1
  <2> QED
    BY <1>13, <2>2, <2>3
<1>19. ASSUME NEW j \in 1 .. n
       PROVE  (\A k \in j + 1 .. n + 1 : entries[k].level > entries[j].level)
                <=> \E k \in 1 .. open : stack[k].item = m + j
  <2>1. /\ \A k \in j + 1 .. n + 1 : k = n + 1 \/ k \in j + 1 .. n
        /\ \A k \in j + 1 .. n : k \in j + 1 .. n + 1
        /\ n + 1 \in j + 1 .. n + 1 /\ (m + j) - m = j
    BY <1>4
  <2>2. (\A k \in j + 1 .. n + 1 : entries[k].level > entries[j].level)
          <=> entry.level > entries[j].level /\ \A k \in j + 1 .. n : entries[k].level > entries[j].level
    BY <2>1 DEF entry
  <2>3. (\A k \in j + 1 .. n : entries[k].level > entries[j].level)
          <=> \E k \in 1 .. Len(stack) : stack[k].item = m + j
    BY <1>1
  <2>4. \A k \in 1 .. Len(stack) : stack[k].item = m + j => stack[k].level = entries[j].level
    BY <1>1, <2>1
  <2>5. entries[j].level \in Int
    <3>1. entries[j] \in Entries
      BY <1>4
    <3> QED
      BY <3>1 DEF Entries
  <2>6. entry.level > entries[j].level <=> entries[j].level < entry.level
    BY <1>5, <2>5
  <2>7. ASSUME NEW k \in 1 .. open, stack[k].item = m + j
        PROVE  entries[j].level < entry.level /\ \E l \in 1 .. Len(stack) : stack[l].item = m + j
    BY <1>13, <1>14, <2>4, <2>7
  <2>8. ASSUME entries[j].level < entry.level, NEW k \in 1 .. Len(stack), stack[k].item = m + j
        PROVE  \E l \in 1 .. open : stack[l].item = m + j
    BY <1>15, <2>4, <2>8
  <2> QED
    BY <2>2, <2>3, <2>6, <2>7, <2>8
<1>20. ASSUME NEW j \in 1 .. n + 1
       PROVE  (\A k \in j + 1 .. n + 1 : entries[k].level > entries[j].level)
                <=> \E k \in 1 .. open + 1 : tops[k].item = m + j
  <2>1. CASE j = n + 1
    <3>1. \A k : ~ (k \in j + 1 .. n + 1)
      BY <1>4, <2>1
    <3>2. tops[open + 1].item = m + j
      <4>1. m + j = m + n + 1
        BY <1>4, <2>1
      <4> QED
        BY <1>9, <1>12, <4>1
    <3> QED
      BY <1>13, <3>1, <3>2
  <2>2. CASE j # n + 1
    <3>1. j \in 1 .. n /\ m + j # m + n + 1
      BY <1>4, <2>2
    <3>2. tops[open + 1].item # m + j
      BY <1>9, <1>12, <3>1
    <3>3. (\E k \in 1 .. open + 1 : tops[k].item = m + j) <=> \E k \in 1 .. open : stack[k].item = m + j
      <4>1. \A k \in 1 .. open : k \in 1 .. open + 1 /\ tops[k].item = stack[k].item
        BY <1>12, <1>13
      <4> QED
        BY <1>13, <3>2, <4>1
    <3> QED
      BY <1>19, <3>1, <3>3
  <2> QED
    BY <2>1, <2>2
<1>21. new.outline = after /\ new.stack = tops
  BY <1>2
<1>22. Stacked(new, m, entries, n + 1)
  <2> DEFINE Holds(o, s) ==
               /\ o \in Seq(Items) /\ Len(o) = m + (n + 1) /\ s \in Seq(Tops)
               /\ \A k \in 1 .. Len(s) :
                    /\ s[k].item \in m + 1 .. m + (n + 1)
                    /\ s[k].level = entries[s[k].item - m].level
                    /\ o[s[k].item].parent = IF k = 1 THEN 0 ELSE s[k - 1].item
                    /\ \A e \in s[k].item + 1 .. m + (n + 1) : o[e].parent # o[s[k].item].parent
               /\ \A k \in 1 .. Len(s) : \A j \in 1 .. k - 1 :
                    s[j].item < s[k].item /\ s[j].level < s[k].level
               /\ \A j \in 1 .. n + 1 :
                    (\A k \in j + 1 .. n + 1 : entries[k].level > entries[j].level)
                      <=> \E k \in 1 .. Len(s) : s[k].item = m + j
  <2>1. Len(after) = m + (n + 1)
    BY <1>4, <1>11
  <2>2. /\ \A k \in 1 .. Len(tops) :
             /\ tops[k].item \in m + 1 .. m + (n + 1)
             /\ tops[k].level = entries[tops[k].item - m].level
             /\ after[tops[k].item].parent = IF k = 1 THEN 0 ELSE tops[k - 1].item
             /\ \A e \in tops[k].item + 1 .. m + (n + 1) : after[e].parent # after[tops[k].item].parent
        /\ \A k \in 1 .. Len(tops) : \A j \in 1 .. k - 1 :
             tops[j].item < tops[k].item /\ tops[j].level < tops[k].level
    BY <1>12, <1>17, <1>18, Zenon
  <2>3. \A j \in 1 .. n + 1 :
          (\A k \in j + 1 .. n + 1 : entries[k].level > entries[j].level)
            <=> \E k \in 1 .. Len(tops) : tops[k].item = m + j
    BY <1>12, <1>20, Zenon
  <2>4. Holds(after, tops)
    BY <1>11, <1>12, <2>1, <2>2, <2>3, Zenon
  <2> HIDE DEF Holds
  <2>5. Holds(new.outline, new.stack)
    BY <1>21, <2>4
  <2> QED
    BY <2>5, Zenon DEF Stacked, Holds
<1> QED
  BY <1>3, <1>8, <1>19, <1>21, <1>22, Zenon
     DEF Entered, new, item, p, after, open, entry, stack, outline

LEMMA WalkLines ==
  ASSUME NEW outline \in Seq(Items)
  PROVE  Walk(outline) \in Seq(Lines)
<1> DEFINE first == Following(outline, 0, 0)
<1>1. PICK f : Walks(f, outline) /\ Walk(outline) = f[first][0]
  BY WalkIs
<1>2. first \in 0 .. Len(outline)
  <2>1. Len(outline) \in Nat /\ 0 \in Nat
    OBVIOUS
  <2>2. first = 0 \/ first \in 0 + 1 .. Len(outline)
    BY <2>1, FollowingIs
  <2> HIDE DEF first
  <2> QED
    BY <2>1, <2>2
<1> HIDE DEF first
<1>3. f[first] \in [Nat -> Seq(Lines)]
  BY <1>1, <1>2, WalkTyped
<1> QED
  BY <1>1, <1>3

(* An entry is told last, at the level its surroundings give it.                   *)
ToldLast(added, m, entries, n) ==
  LET new == AddEntry(added, entries[n + 1]) IN
  /\ Stacked(new, m, entries, n + 1) /\ Meant(entries)[n + 1] \in Lines
  /\ Walk(new.outline) = Walk(added.outline) \o <<Meant(entries)[n + 1]>>

LEMMA EntryRead ==
  ASSUME NEW m \in Nat, NEW entries \in Seq(Entries), NEW n \in 0 .. Len(entries) - 1, NEW added,
         Stacked(added, m, entries, n), entries[n + 1].page \in Nat
  PROVE  ToldLast(added, m, entries, n)
<1> DEFINE entry == entries[n + 1]
           stack == added.stack
           open  == Open(stack, entry.level)
           p     == ParentOf(stack, open)
           item  == [page |-> entry.page, parent |-> p]
           new   == AddEntry(added, entry)
           above == Above(entries, n + 1)
           f     == [k \in 1 .. open |-> stack[k].item - m]
<1>1. /\ item \in Items /\ new.outline = Append(added.outline, item)
      /\ Stacked(new, m, entries, n + 1) /\ open \in 0 .. Len(stack)
      /\ \A j \in 1 .. n :
           (\A k \in j + 1 .. n + 1 : entries[k].level > entries[j].level)
             <=> \E k \in 1 .. open : stack[k].item = m + j
  <2>1. Entered(added, m, entries, n)
    BY EntryStacked
  <2> QED
    BY <2>1, Zenon DEF Entered
<1>2. /\ added.outline \in Seq(Items) /\ Len(stack) \in Nat
      /\ \A k \in 1 .. Len(stack) : stack[k].item \in m + 1 .. m + n
      /\ \A k \in 1 .. Len(stack) : \A j \in 1 .. k - 1 : stack[j].item < stack[k].item
  <2>1. /\ added.outline \in Seq(Items) /\ stack \in Seq(Tops)
        /\ \A k \in 1 .. Len(stack) : stack[k].item \in m + 1 .. m + n
        /\ \A k \in 1 .. Len(stack) : \A j \in 1 .. k - 1 : stack[j].item < stack[k].item
    BY Zenon DEF Stacked
  <2>2. Len(stack) \in Nat
    BY <2>1
  <2> QED
    BY <2>1, <2>2, Zenon
<1>3. PICK D : Spine(added.outline, OpenItems(stack, open), D, p) /\ D[p] = open
  <2> HIDE DEF open
  <2>1. n \in Nat
    OBVIOUS
  <2> QED
    BY <1>1, <2>1, OpenSpine
<1>4. n \in Nat /\ n + 1 \in DOMAIN entries /\ n + 1 \in 1 .. Len(entries) /\ (n + 1) - 1 = n
  OBVIOUS
<1>5. item.parent = p /\ item.page = entry.page
  OBVIOUS
<1> HIDE DEF entry, stack, open, p, item, new
<1>6. Walk(Append(added.outline, item)) = Walk(added.outline) \o <<[page |-> item.page, level |-> D[item.parent]]>>
  BY <1>1, <1>2, <1>3, <1>5, ItemAdded
<1>7. above = {j \in 1 .. n : \E k \in 1 .. open : stack[k].item = m + j}
  <2>1. above = {j \in 1 .. n : \A k \in j + 1 .. n + 1 : entries[k].level > entries[j].level}
    BY <1>4 DEF Above
  <2> HIDE DEF above
  <2> QED
    BY <1>1, <2>1
<1> HIDE DEF above
<1>8. \A k \in 1 .. open : k \in 1 .. Len(stack) /\ f[k] = stack[k].item - m /\ f[k] \in 1 .. n /\ stack[k].item = m + f[k]
  <2> SUFFICES ASSUME NEW k \in 1 .. open
               PROVE  k \in 1 .. Len(stack) /\ f[k] = stack[k].item - m /\ f[k] \in 1 .. n /\ stack[k].item = m + f[k]
    OBVIOUS
  <2>1. k \in 1 .. Len(stack) /\ f[k] = stack[k].item - m
    BY <1>1, <1>2
  <2>2. stack[k].item \in m + 1 .. m + n
    BY <1>2, <2>1
  <2> DEFINE i == stack[k].item
  <2> HIDE DEF f, i
  <2>3. i \in m + 1 .. m + n /\ n \in Nat
    BY <1>4, <2>2 DEF i
  <2>4. i - m \in 1 .. n /\ i = m + (i - m)
    BY <2>3
  <2> QED
    BY <2>1, <2>4 DEF i
<1>9. f \in Bijection(1 .. open, above)
  <2>1. f \in [1 .. open -> above]
    BY <1>7, <1>8
  <2>2. \A j, k \in 1 .. open : f[j] = f[k] => j = k
    <3> SUFFICES ASSUME NEW j \in 1 .. open, NEW k \in 1 .. open, f[j] = f[k], j # k PROVE FALSE
      OBVIOUS
    <3>1. j \in 1 .. k - 1 \/ k \in 1 .. j - 1
      BY <1>1, <1>2
    <3> HIDE DEF f
    <3>2. stack[j].item < stack[k].item \/ stack[k].item < stack[j].item
      BY <1>2, <1>8, <3>1
    <3>3. stack[j].item = stack[k].item /\ stack[j].item \in Int
      BY <1>8
    <3> QED
      BY <3>2, <3>3
  <2>3. \A j \in above : \E k \in 1 .. open : f[k] = j
    <3> SUFFICES ASSUME NEW j \in above PROVE \E k \in 1 .. open : f[k] = j
      OBVIOUS
    <3>1. PICK k \in 1 .. open : stack[k].item = m + j
      BY <1>7
    <3>2. j \in 1 .. n
      BY <1>7
    <3> HIDE DEF f
    <3>3. f[k] = j
      BY <1>8, <3>1, <3>2
    <3> QED
      BY <3>3
  <2> HIDE DEF f
  <2> QED
    BY <2>1, <2>2, <2>3 DEF Bijection, Injection, Surjection, IsInjective
<1>10. Cardinality(above) = open /\ open \in Nat
  <2>1. open \in Nat
    BY <1>1, <1>2
  <2>2. IsFiniteSet(1 .. open) /\ Cardinality(1 .. open) = open
    <3>1. IsFiniteSet(1 .. open) /\ Cardinality(1 .. open) = IF 1 > open THEN 0 ELSE open - 1 + 1
      <4>1. 1 \in Int /\ open \in Int
        BY <2>1
      <4> QED
        BY <4>1, FS_Interval, Zenon
    <3> QED
      BY <2>1, <3>1
  <2>3. ExistsBijection(1 .. open, above)
    BY <1>9 DEF ExistsBijection
  <2> QED
    BY <2>1, <2>2, <2>3, FS_Bijection
<1>11. Meant(entries)[n + 1] = [page |-> entry.page, level |-> open]
  BY <1>4, <1>10 DEF Meant, above, entry
<1>12. Meant(entries)[n + 1] \in Lines
  BY <1>10, <1>11 DEF Lines, entry
<1>13. Walk(new.outline) = Walk(added.outline) \o <<Meant(entries)[n + 1]>>
  BY <1>1, <1>3, <1>5, <1>6, <1>11, Zenon
<1> HIDE DEF new
<1>14. Stacked(new, m, entries, n + 1)
  BY <1>1
<1> QED
  BY <1>12, <1>13, <1>14, Zenon DEF ToldLast, new, entry

(* What add_bookmarks adds to an outline is read behind what was there.            *)
LEMMA BookmarksRead ==
  ASSUME NEW count \in Nat, NEW outline \in Seq(Goal(count)), NEW entries \in Seq(Entries),
         \A i \in DOMAIN entries : entries[i].page \in 1 .. count
  PROVE  Walk(Bookmarked(outline, entries)) = Walk(outline) \o Meant(entries)
<1> DEFINE m == Len(outline)
           len == Len(entries)
           M == Meant(entries)
           Until(n) == [i \in 1 .. n |-> M[i]]
<1>1. PICK f \in [0 .. len -> Adding(count)] :
        Adds(f, outline, entries) /\ Bookmarked(outline, entries) = f[len].outline
  BY AddSteps DEF Entries
<1>2. m \in Nat /\ len \in Nat /\ outline \in Seq(Items) /\ DOMAIN entries = 1 .. len
  <2>1. Goal(count) \subseteq Items
    BY DEF Goal
  <2> QED
    BY <2>1
<1>3. f[0] = [outline |-> outline, stack |-> <<>>] /\ \A i \in 1 .. len : f[i] = AddEntry(f[i - 1], entries[i])
  <2>1. 0 \in 0 .. len /\ \A i \in 1 .. len : i \in 0 .. len /\ i # 0
    BY <1>2
  <2> QED
    BY <1>1, <2>1, Zenon DEF Adds
<1> DEFINE S == {n \in 0 .. len :
                   /\ Stacked(f[n], m, entries, n) /\ Until(n) \in Seq(Lines)
                   /\ Walk(f[n].outline) = Walk(outline) \o Until(n)}
<1>4. Walk(outline) \in Seq(Lines)
  BY <1>2, WalkLines
<1> HIDE DEF m, len, M
<1>5. 0 \in S
  <2>1. f[0].outline = outline /\ f[0].stack = <<>>
    BY <1>3
  <2>2. Stacked(f[0], m, entries, 0)
    <3>1. /\ Len(outline) = m + 0 /\ <<>> \in Seq(Tops) /\ (\A k : ~ (k \in 1 .. Len(<<>>)))
          /\ \A j : ~ (j \in 1 .. 0)
      BY <1>2 DEF m
    <3> QED
      BY <1>2, <2>1, <3>1 DEF Stacked
  <2>3. Until(0) = <<>>
    OBVIOUS
  <2> HIDE DEF Until
  <2>4. Walk(outline) \o <<>> = Walk(outline)
    BY <1>4, ConcatEmptySeq
  <2>5. <<>> \in Seq(Lines) /\ 0 \in 0 .. len
    BY <1>2
  <2> QED
    BY <2>1, <2>2, <2>3, <2>4, <2>5, Zenon
<1>6. ASSUME NEW n \in 0 .. len - 1, n \in S PROVE n + 1 \in S
  <2>1. /\ n \in Nat /\ n + 1 \in 1 .. len /\ n + 1 \in 0 .. len /\ (n + 1) - 1 = n
        /\ n \in 0 .. Len(entries) - 1
    BY <1>2 DEF len
  <2>2. /\ Stacked(f[n], m, entries, n) /\ Until(n) \in Seq(Lines)
        /\ Walk(f[n].outline) = Walk(outline) \o Until(n)
    BY <1>6
  <2>3. f[n + 1] = AddEntry(f[n], entries[n + 1])
    BY <1>3, <2>1
  <2>4. entries[n + 1].page \in Nat
    BY <1>2, <2>1
  <2>5. /\ Stacked(f[n + 1], m, entries, n + 1) /\ M[n + 1] \in Lines
        /\ Walk(f[n + 1].outline) = Walk(f[n].outline) \o <<M[n + 1]>>
    <3>1. ToldLast(f[n], m, entries, n)
      BY <1>2, <2>1, <2>2, <2>4, EntryRead
    <3> QED
      BY <2>3, <3>1, Zenon DEF M, ToldLast
  <2> DEFINE x == M[n + 1]  u == Until(n)
  <2>6. Until(n + 1) \in Seq(Lines) /\ Until(n + 1) = u \o <<x>>
    <3>1. Append(u, x) \in Seq(Lines) /\ Append(u, x) = u \o <<x>>
      BY <2>2, <2>5, AppendProperties, AppendIsConcat
    <3>2. Until(n + 1) = Append(u, x)
      <4>1. Len(u) = n
        BY <2>1
      <4> QED
        BY <2>1, <4>1
    <3> HIDE DEF u, x, Until
    <3> QED
      BY <3>1, <3>2
  <2>7. Walk(outline) \o u \o <<x>> = Walk(outline) \o (u \o <<x>>)
    <3> DEFINE w == Walk(outline)  y == <<x>>
    <3>1. w \in Seq(Lines) /\ u \in Seq(Lines) /\ y \in Seq(Lines)
      BY <1>4, <2>2, <2>5
    <3> HIDE DEF w, u, y
    <3>2. w \o u \o y = w \o (u \o y)
      BY <3>1, ConcatAssociative, SMTT(30)
    <3> QED
      BY <3>2 DEF w, y
  <2> HIDE DEF x, Until
  <2>8. Walk(f[n + 1].outline) = Walk(outline) \o Until(n + 1)
    BY <2>2, <2>5, <2>6, <2>7, Zenon DEF x, u
  <2> QED
    BY <2>1, <2>5, <2>6, <2>8
<1>7. 0 .. len \subseteq S
  <2> HIDE DEF S
  <2> QED
    BY <1>2, <1>5, <1>6, UpTo
<1>8. Walk(f[len].outline) = Walk(outline) \o Until(len)
  <2>1. len \in 0 .. len
    BY <1>2
  <2> HIDE DEF Until
  <2> QED
    BY <1>7, <2>1
<1>9. Until(len) = M
  <2>1. M = [i \in 1 .. len |-> M[i]]
    BY <1>2 DEF M, Meant
  <2> QED
    BY <2>1, Zenon
<1> HIDE DEF Until
<1> QED
  BY <1>1, <1>8, <1>9 DEF M

-----------------------------------------------------------------------------
(* The bookmarks of a file whose bookmarks lead somewhere.                          *)
LEMMA OutlineGoals ==
  ASSUME NEW document \in DocumentRecords, document.pages \in PageLists, Linked(document)
  PROVE  LET count == Len(document.pages) IN
         /\ count \in Nat /\ DOMAIN document.pages = 1 .. count
         /\ document.outline \in Seq(Goal(count))
<1> DEFINE outline == document.outline  count == Len(document.pages)
<1>1. count \in Nat /\ DOMAIN document.pages = 1 .. count
  BY ListTyped
<1>2. outline \in Seq(Items)
  BY DEF DocumentRecords
<1>3. \A i \in DOMAIN outline : outline[i].page \in 1 .. count
  BY <1>1 DEF Linked
<1> HIDE DEF outline, count
<1>4. outline \in [1 .. Len(outline) -> Goal(count)] /\ Len(outline) \in Nat
  BY <1>2, <1>3 DEF Goal
<1>5. outline \in Seq(Goal(count))
  BY <1>4
<1> QED
  BY <1>1, <1>5 DEF outline, count

LEMMA BookmarksStep ==
  ASSUME TypeOK, TargetsExist, NEW path, NEW entries \in EntryArgs, NEW out \in Outputs,
         AddBookmarks(path, entries, out)
  PROVE  Sound
<1> DEFINE read == ReadAll(<<path>>)
           accepted == \A i \in DOMAIN entries : entries[i].page \in DOMAIN read[1].pages
           document == [read[1] EXCEPT !.outline = Bookmarked(@, entries)]
<1>1. CallIs("bookmarks", entries, <<path>>, accepted, document, out)
  BY Zenon DEF AddBookmarks, Call, CallIs, ReadAll
<1>2. ASSUME path \in DOMAIN files, accepted
      PROVE  document \in Documents /\ document.pages = files[path].pages
  <2> DEFINE old == files[path]  pages == files[path].pages  count == Len(pages)
             new == Bookmarked(old.outline, entries)
  <2>1. read[1] = old /\ old \in DocumentRecords /\ pages \in PageLists /\ Linked(old)
    BY <1>2, ReadOne DEF TargetsExist
  <2>2. count \in Nat /\ DOMAIN pages = 1 .. count /\ old.outline \in Seq(Goal(count))
    BY <2>1, OutlineGoals
  <2>4. entries \in Seq([page : Int, level : Int])
    BY ArgsAssumption
  <2>5. \A i \in DOMAIN entries : entries[i].page \in 1 .. count
    BY <1>2, <2>1, <2>2
  <2>6. document = [old EXCEPT !.outline = new]
    BY <2>1
  <2> HIDE DEF document, old, pages, count, read
  <2>7. new \in Seq(Goal(count))
    <3>1. PICK f \in [0 .. Len(entries) -> Adding(count)] : new = f[Len(entries)].outline
      BY <2>2, <2>4, <2>5, AddSteps
    <3>2. Len(entries) \in 0 .. Len(entries)
      BY <2>4
    <3>3. f[Len(entries)] \in Adding(count)
      BY <3>2
    <3> HIDE DEF new
    <3> QED
      BY <3>1, <3>3 DEF Adding
  <2> HIDE DEF new
  <2>8. new \in Seq(Items) /\ \A i \in DOMAIN new : new[i].page \in 1 .. count
    BY <2>7 DEF Goal
  <2>9. /\ document \in DocumentRecords /\ document.pages = old.pages
        /\ document.labels = old.labels /\ document.outline = new
    BY <2>1, <2>6, <2>8, OutlineReplaced
  <2>10. pages = old.pages
    BY DEF pages, old
  <2>11. Linked(document)
    BY <2>1, <2>2, <2>8, <2>9, <2>10 DEF Linked
  <2> QED
    BY <2>9, <2>11 DEF Documents, old
<1> HIDE DEF accepted, document
<1> QED
  BY <1>1, <1>2, SamePagesStep DEF read

(* Split puts one file after the other.                                            *)
Puts(f, fs, document, told, pieces) ==
  f = [i \in 0 .. Len(pieces) |->
         IF i = 0 THEN fs ELSE Put(f[i - 1], told[i], Rebuilt(document, pieces[i]))]

PutsAll(fs, document, told, pieces) ==
  (CHOOSE f : Puts(f, fs, document, told, pieces))[Len(pieces)]

LEMMA PutSteps ==
  ASSUME NEW fs \in FileSystems, NEW document \in DocumentRecords, NEW pieces \in Seq(PageLists),
         NEW told, \A i \in 1 .. Len(pieces) : told[i] \in Paths
  PROVE  \E f \in [0 .. Len(pieces) -> FileSystems] :
           Puts(f, fs, document, told, pieces)
             /\ PutsAll(fs, document, told, pieces) = f[Len(pieces)]
<1> DEFINE n == Len(pieces)
           Body(i, x) == Put(x, told[i], Rebuilt(document, pieces[i]))
           step == [ix \in (1 .. n) \X FileSystems |-> Body(ix[1], ix[2])]
           f == CHOOSE f : Puts(f, fs, document, told, pieces)
<1>1. \A i \in 1 .. n, x \in FileSystems : Body(i, x) \in FileSystems
  <2>1. ASSUME NEW i \in 1 .. n, NEW x \in FileSystems PROVE Body(i, x) \in FileSystems
    <3>1. told[i] \in Paths
      OBVIOUS
    <3>2. pieces[i] \in PageLists
      BY ElementOfSeq
    <3>3. Rebuilt(document, pieces[i]) \in Documents
      BY <3>2, RebuiltTyped
    <3> QED
      BY <3>1, <3>3, PutTyped
  <2> QED
    BY <2>1
<1>2. step \in [(1 .. n) \X FileSystems -> FileSystems] /\ fs \in FileSystems /\ n \in Nat
  <2>1. n \in Nat
    OBVIOUS
  <2> HIDE DEF n, Body
  <2> QED
    BY <1>1, <2>1
<1>3. \A i \in 1 .. n, x \in FileSystems : step[<<i, x>>] = Body(i, x)
  OBVIOUS
<1> HIDE DEF step, n
<1>4. PICK g \in [0 .. n -> FileSystems] : Recurses(g, n, fs, step)
  BY <1>2, Recursion
<1>5. \A i \in 1 .. n : i - 1 \in 0 .. n /\ i \in 0 .. n /\ i # 0 /\ g[i - 1] \in FileSystems
  <2>1. \A i \in 1 .. n : i - 1 \in 0 .. n /\ i \in 0 .. n /\ i # 0
    BY <1>2
  <2> QED
    BY <2>1
<1>6. \A i \in 1 .. n : step[<<i, g[i - 1]>>] = Body(i, g[i - 1])
  BY <1>3, <1>5
<1>7. \A i \in 0 .. n : g[i] = IF i = 0 THEN fs ELSE Body(i, g[i - 1])
  <2> HIDE DEF Body
  <2>1. \A i \in 0 .. n : i # 0 => i \in 1 .. n
    BY <1>2
  <2> QED
    BY <1>4, <1>6, <2>1 DEF Recurses
<1>8. Puts(g, fs, document, told, pieces)
  BY <1>7 DEF Puts, n
<1>9. Puts(f, fs, document, told, pieces)
  BY <1>8
<1>10. PutsAll(fs, document, told, pieces) = f[n]
  BY Zenon DEF PutsAll, Puts, n
<1> HIDE DEF f
<1>11. f = g
  <2>1. Function(f, n) /\ Function(g, n)
    BY <1>9 DEF Puts, Function, n
  <2>2. \A i \in 0 .. n : f[i] = IF i = 0 THEN fs ELSE Body(i, f[i - 1])
    BY <1>9 DEF Puts, n
  <2>3. 0 \in 0 .. n /\ f[0] = g[0]
    BY <1>2, <1>7, <2>2
  <2>4. \A i \in 1 .. n : g[i] = Body(i, g[i - 1]) /\ f[i] = Body(i, f[i - 1])
    BY <1>5, <1>7, <2>2
  <2>5. \A i \in 1 .. n : f[i - 1] = g[i - 1] => f[i] = g[i]
    BY <2>4, Zenon
  <2> HIDE DEF Body
  <2> QED
    BY <1>2, <2>1, <2>3, <2>5, Unique
<1> QED
  BY <1>8, <1>10, <1>11 DEF n

(* Every file it wrote is one of the pieces.                                       *)
LEMMA PutPieces ==
  ASSUME NEW fs \in FileSystems, NEW document \in DocumentRecords, NEW pieces \in Seq(PageLists),
         NEW told, \A i \in 1 .. Len(pieces) : told[i] \in Paths
  PROVE  LET new == PutsAll(fs, document, told, pieces) IN
         /\ new \in FileSystems
         /\ \A k \in 1 .. Len(pieces) : \E j \in 1 .. Len(pieces) : new[told[k]].pages = pieces[j]
<1> DEFINE n == Len(pieces)
           new == PutsAll(fs, document, told, pieces)
<1>1. PICK f \in [0 .. n -> FileSystems] : Puts(f, fs, document, told, pieces) /\ new = f[n]
  BY PutSteps
<1>2. n \in Nat /\ \A i \in 1 .. n : pieces[i] \in PageLists /\ told[i] \in Paths
  BY ElementOfSeq
<1>3. \A i \in 0 .. n : f[i] = IF i = 0 THEN fs
                               ELSE Put(f[i - 1], told[i], Rebuilt(document, pieces[i]))
  BY <1>1, Zenon DEF Puts
<1> HIDE DEF new, n
<1> DEFINE S == {i \in 0 .. n : \A k \in 1 .. i :
                   /\ told[k] \in DOMAIN f[i]
                   /\ \E j \in 1 .. n : f[i][told[k]].pages = pieces[j]}
<1>4. 0 \in S
  BY <1>2
<1>5. ASSUME NEW m \in 0 .. n - 1, m \in S PROVE m + 1 \in S
  <2>1. m \in 0 .. n /\ m + 1 \in 1 .. n /\ m + 1 \in 0 .. n /\ (m + 1) - 1 = m /\ m + 1 # 0
    BY <1>2
  <2> DEFINE old == f[m]  path == told[m + 1]  made == Rebuilt(document, pieces[m + 1])
             next == Put(old, path, made)
  <2>2. f[m + 1] = next
    BY <1>3, <2>1
  <2>3. old \in FileSystems /\ path \in Paths /\ made \in Documents /\ made.pages = pieces[m + 1]
    BY <1>2, <2>1, RebuiltTyped
  <2>4. /\ path \in DOMAIN next /\ next[path] = made
        /\ \A q \in DOMAIN old : q \in DOMAIN next /\ (q # path => next[q] = old[q])
    BY <2>3, PutTyped
  <2>5. \A k \in 1 .. m : told[k] \in DOMAIN old /\ \E j \in 1 .. n : old[told[k]].pages = pieces[j]
    BY <1>5
  <2> HIDE DEF next, made
  <2>6. ASSUME NEW k \in 1 .. m + 1
        PROVE  told[k] \in DOMAIN next /\ \E j \in 1 .. n : next[told[k]].pages = pieces[j]
    <3>1. CASE told[k] = path
      BY <2>1, <2>3, <2>4, <3>1
    <3>2. CASE told[k] # path
      <4>1. k \in 1 .. m
        BY <2>1, <3>2
      <4> QED
        BY <2>4, <2>5, <3>2, <4>1
    <3> QED
      BY <3>1, <3>2
  <2> QED
    BY <2>1, <2>2, <2>6
<1> HIDE DEF S
<1>6. n \in S
  <2>1. 0 .. n \subseteq S
    BY <1>2, <1>4, <1>5, UpTo
  <2> QED
    BY <1>2, <2>1
<1>7. \A k \in 1 .. n : \E j \in 1 .. n : f[n][told[k]].pages = pieces[j]
  BY <1>6 DEF S
<1>8. new \in FileSystems
  BY <1>1, <1>2
<1> QED
  BY <1>1, <1>7, <1>8, Zenon DEF new, n

LEMMA SplitStep ==
  ASSUME TypeOK, TargetsExist, NEW path, NEW ranges \in RangeArgs, NEW dir \in Dirs,
         Split(path, ranges, dir)
  PROVE  Sound
<1> DEFINE document == files[path]  pages == document.pages
           pieces == Pieces(pages, ranges)
           ok     == ranges # <<>> /\ Len(pieces) = Len(ranges)
           told   == [i \in DOMAIN pieces |-> <<dir, SplitStems[i]>>]
<1>1. /\ path \in DOMAIN files /\ calls < MaxCalls /\ calls' = calls + 1
      /\ files' = PutsAll(files, document, told, pieces)
      /\ last' = [op |-> "split", ok |-> ok, read |-> <<document>>, given |-> ranges,
                  told |-> IF ok THEN told ELSE <<>>]
  BY Zenon DEF Split, PutsAll, Puts
<1>2. document \in DocumentRecords /\ pages \in PageLists
  BY <1>1, FileTyped
<1>3. ranges \in Seq(Int \X Int) /\ Len(ranges) <= Len(SplitStems)
  BY ArgsAssumption
<1> HIDE DEF document, pages
<1>4. /\ pieces \in Seq(PageLists) /\ Len(pieces) <= Len(ranges)
      /\ \A i \in DOMAIN pieces : Keeps(pages, pieces[i])
  BY <1>2, <1>3, PiecesKeep
<1> HIDE DEF pieces
<1> DEFINE n == Len(pieces)
<1>5. n \in Nat /\ DOMAIN pieces = 1 .. n
  BY <1>4
<1>6. \A i \in 1 .. n : told[i] \in Paths
  <2>1. ASSUME NEW i \in 1 .. n PROVE told[i] \in Paths
    <3>1. SplitStems \in Seq(Stems) /\ i \in 1 .. Len(SplitStems)
      BY <1>3, <1>4, <1>5, PathsAssumption
    <3>2. SplitStems[i] \in Stems
      BY <3>1
    <3>3. told[i] = <<dir, SplitStems[i]>>
      BY <1>5
    <3> HIDE DEF told
    <3> QED
      BY <3>2, <3>3 DEF Paths
  <2> QED
    BY <2>1
<1>7. told \in Seq(Paths) /\ DOMAIN told = 1 .. n
  <2>1. told \in [1 .. n -> Paths]
    BY <1>5, <1>6
  <2> HIDE DEF told
  <2> QED
    BY <1>5, <2>1, ListOf
<1> HIDE DEF told
<1>8. files \in FileSystems
  BY FilesTyped DEF TypeOK, TargetsExist
<1>9. /\ files' \in FileSystems
      /\ \A k \in 1 .. n : \E j \in 1 .. n : files'[told[k]].pages = pieces[j]
  BY <1>1, <1>2, <1>4, <1>6, <1>8, PutPieces DEF n
<1>10. /\ DOMAIN files' \subseteq Paths /\ files' \in [DOMAIN files' -> DocumentRecords]
       /\ \A p \in DOMAIN files' : Linked(files'[p])
  BY <1>9, FilesTyped
<1> HIDE DEF n
<1>11. /\ last'.op = "split" /\ last'.ok \in BOOLEAN /\ last'.read = <<document>>
       /\ last'.told = told \/ last'.told = <<>>
  BY <1>1
<1>12. TypeOK'
  <2>1. last'.read \in Seq(DocumentRecords)
    BY <1>2, <1>11
  <2>2. last'.told \in Seq(Paths)
    <3>1. <<>> \in Seq(Paths)
      OBVIOUS
    <3> QED
      BY <1>7, <1>11, <3>1, Zenon
  <2>3. calls' \in 0 .. MaxCalls
    BY <1>1, ArgsAssumption DEF TypeOK
  <2> QED
    BY <1>10, <1>11, <2>1, <2>2, <2>3 DEF TypeOK
<1>13. CropsStayInside'
  <2> SUFFICES ASSUME \A i \in DOMAIN last'.read : \A j \in DOMAIN last'.read[i].pages :
                        CropInside(last'.read[i].pages[j])
               PROVE  \A i \in DOMAIN last'.told : \A j \in DOMAIN TellsPages(i)' :
                        CropInside(TellsPages(i)'[j])
    BY DEF CropsStayInside
  <2>1. \A j \in DOMAIN pages : CropInside(pages[j])
    <3>1. 1 \in DOMAIN last'.read /\ last'.read[1] = document
      BY <1>11
    <3> QED
      BY <3>1 DEF pages
  <2>2. pages \in Seq(Inside)
    BY <1>2, <2>1, ListTyped, AllInside
  <2>3. ASSUME NEW i \in DOMAIN last'.told
        PROVE  \A j \in DOMAIN TellsPages(i)' : CropInside(TellsPages(i)'[j])
    <3>1. last'.told = told /\ i \in 1 .. n
      <4>1. DOMAIN <<>> = {}
        OBVIOUS
      <4>2. last'.told # <<>>
        BY <4>1, Zenon
      <4> QED
        BY <1>7, <1>11, <4>2, Zenon
    <3>2. PICK k \in 1 .. n : files'[told[i]].pages = pieces[k]
      BY <1>9, <3>1
    <3>3. TellsPages(i)' = pieces[k]
      BY <3>1, <3>2 DEF TellsPages
    <3>4. Keeps(pages, pieces[k])
      BY <1>4, <1>5
    <3>5. pieces[k] \in Seq(Inside)
      BY <2>2, <3>4 DEF Keeps
    <3>6. \A j \in DOMAIN pieces[k] : pieces[k][j] \in Inside
      BY <3>5
    <3> QED
      BY <3>3, <3>6 DEF Inside
  <2> QED
    BY <2>3
<1>14. TargetsExist'
  BY <1>10 DEF TargetsExist
<1>15. BatchRunsOn' /\ MarksOnPage'
  BY <1>11 DEF BatchRunsOn, MarksOnPage
<1> QED
  BY <1>12, <1>13, <1>14, <1>15 DEF Sound

(* A batch of two files: after them, after the first and before.                   *)
LEMMA BatchOfTwo ==
  ASSUME NEW a, NEW b, NEW dirOf, NEW position, AddBatesToBatch(<<a, b>>, dirOf, 1, position)
  PROVE  LET begun == [ok |-> position \in BatesPositions, files |-> files, number |-> 1,
                       read |-> <<>>, told |-> <<>>]
             done  == BatchFile(BatchFile(begun, a, dirOf, position), b, dirOf, position)
         IN /\ calls < MaxCalls /\ calls' = calls + 1
            /\ a[2] \in DOMAIN BatesStem /\ b[2] \in DOMAIN BatesStem
            /\ files' = done.files
            /\ last' = [op |-> "batch", ok |-> done.ok, read |-> done.read,
                        given |-> <<1, position>>, told |-> IF done.ok THEN done.told ELSE <<>>]
<1> DEFINE paths == <<a, b>>
           begun == [ok |-> paths # <<>> /\ position \in BatesPositions, files |-> files,
                     number |-> 1, read |-> <<>>, told |-> <<>>]
           Steps(f) == f = [i \in 0 .. Len(paths) |->
                              IF i = 0 THEN begun
                              ELSE BatchFile(f[i - 1], paths[i], dirOf, position)]
           after == CHOOSE f : Steps(f)
           done  == after[Len(paths)]
           one   == BatchFile(begun, a, dirOf, position)
           two   == BatchFile(one, b, dirOf, position)
<1>1. /\ calls < MaxCalls /\ calls' = calls + 1
      /\ \A i \in DOMAIN paths : paths[i][2] \in DOMAIN BatesStem
      /\ files' = done.files
      /\ last' = [op |-> "batch", ok |-> done.ok, read |-> done.read,
                  given |-> <<1, position>>, told |-> IF done.ok THEN done.told ELSE <<>>]
  BY Zenon DEF AddBatesToBatch
<1>2. Len(paths) = 2 /\ paths[1] = a /\ paths[2] = b /\ DOMAIN paths = {1, 2} /\ paths # <<>>
  OBVIOUS
<1>3. begun = [ok |-> position \in BatesPositions, files |-> files, number |-> 1,
               read |-> <<>>, told |-> <<>>]
  <2>1. (paths # <<>> /\ position \in BatesPositions) = (position \in BatesPositions)
    BY <1>2
  <2> QED
    BY <2>1, Zenon
<1> HIDE DEF begun
<1>4. a[2] \in DOMAIN BatesStem /\ b[2] \in DOMAIN BatesStem
  <2>1. 1 \in DOMAIN paths /\ 2 \in DOMAIN paths
    BY <1>2
  <2>2. paths[1][2] \in DOMAIN BatesStem /\ paths[2][2] \in DOMAIN BatesStem
    BY <1>1, <2>1, Zenon
  <2> QED
    BY <1>2, <2>2
<1> HIDE DEF paths
<1> DEFINE g == [i \in 0 .. 2 |-> IF i = 0 THEN begun ELSE IF i = 1 THEN one ELSE two]
<1>5. Steps(g)
  <2>1. g[0] = begun /\ g[1] = one /\ g[2] = two
    <3> HIDE DEF one, two
    <3> QED
      OBVIOUS
  <2>2. \A i \in 0 .. 2 : (i = 0 \/ i = 1 \/ i = 2) /\ 1 - 1 = 0 /\ 2 - 1 = 1
    OBVIOUS
  <2>3. one = BatchFile(g[1 - 1], paths[1], dirOf, position)
    BY <1>2, <2>1, <2>2
  <2>4. two = BatchFile(g[2 - 1], paths[2], dirOf, position)
    BY <1>2, <2>1, <2>2
  <2> HIDE DEF one, two
  <2>5. \A i \in 0 .. 2 : g[i] = IF i = 0 THEN begun
                                 ELSE BatchFile(g[i - 1], paths[i], dirOf, position)
    <3>1. ASSUME NEW i \in 0 .. 2
          PROVE  g[i] = IF i = 0 THEN begun ELSE BatchFile(g[i - 1], paths[i], dirOf, position)
      <4> HIDE DEF g
      <4>1. CASE i = 0
        BY <2>1, <4>1
      <4>2. CASE i = 1
        BY <2>1, <2>3, <4>2
      <4>3. CASE i = 2
        BY <2>1, <2>4, <4>3
      <4> QED
        BY <2>2, <4>1, <4>2, <4>3
    <3> QED
      BY <3>1
  <2>6. g = [i \in 0 .. 2 |-> g[i]]
    OBVIOUS
  <2> HIDE DEF g
  <2>7. g = [i \in 0 .. 2 |-> IF i = 0 THEN begun
                              ELSE BatchFile(g[i - 1], paths[i], dirOf, position)]
    BY <2>5, <2>6
  <2> QED
    BY <1>2, <2>7
<1> HIDE DEF g
<1>6. Steps(after)
  BY <1>5, Zenon
<1> HIDE DEF after
<1>7. done = two
  <2>1. \A i \in 0 .. 2 : after[i] = IF i = 0 THEN begun
                                     ELSE BatchFile(after[i - 1], paths[i], dirOf, position)
    BY <1>2, <1>6
  <2>2. after[0] = begun
    BY <2>1
  <2>3. after[1] = BatchFile(after[0], a, dirOf, position)
    <3>1. 1 \in 0 .. 2 /\ 1 # 0 /\ 1 - 1 = 0
      OBVIOUS
    <3> QED
      BY <1>2, <2>1, <3>1
  <2>4. after[2] = BatchFile(after[1], b, dirOf, position)
    <3>1. 2 \in 0 .. 2 /\ 2 # 0 /\ 2 - 1 = 1
      OBVIOUS
    <3> QED
      BY <1>2, <2>1, <3>1
  <2> QED
    BY <1>2, <2>2, <2>3, <2>4
<1> HIDE DEF done
<1> QED
  BY <1>1, <1>3, <1>4, <1>7, Zenon

(* One file of a batch.                                                            *)
FileNumbered(done, fs, number, position, dirOf, path) ==
  LET document == fs[path]
      out  == <<dirOf[path], BatesStem[path[2]]>>
      made == Rebuilt(document, Numbered(document.pages, number, position))
  IN /\ BatchFile(done, path, dirOf, position)
          = [ok |-> TRUE, files |-> Put(fs, out, made), number |-> number + Len(document.pages),
             read |-> Append(done.read, document), told |-> Append(done.told, out)]
     /\ out \in Paths /\ document \in DocumentRecords /\ document.pages \in PageLists
     /\ made \in Documents
     /\ made.pages = Numbered(document.pages, number, position)
     /\ Keeps(document.pages, made.pages)
     /\ number + Len(document.pages) \in Nat \ {0}

LEMMA BatchFileStep ==
  ASSUME NEW fs \in FileSystems, NEW number \in Nat \ {0}, NEW position,
         NEW dirOf \in BatchDirs, NEW path, path[2] \in DOMAIN BatesStem,
         NEW done, done.files = fs, done.number = number,
         done.ok = TRUE, position \in BatesPositions, path \in DOMAIN fs
  PROVE  FileNumbered(done, fs, number, position, dirOf, path)
<1> DEFINE document == fs[path]
           out  == <<dirOf[path], BatesStem[path[2]]>>
           new  == Numbered(document.pages, number, position)
           made == Rebuilt(document, new)
<1>1. BatchFile(done, path, dirOf, position)
        = [ok |-> TRUE, files |-> Put(fs, out, made), number |-> number + Len(document.pages),
           read |-> Append(done.read, document), told |-> Append(done.told, out)]
  BY Zenon DEF BatchFile, NextNumber
<1>2. path \in Paths /\ document \in DocumentRecords
  BY FilesTyped
<1>3. document.pages \in PageLists
  BY <1>2 DEF DocumentRecords, PageLists
<1>4. out \in Paths
  <2>1. dirOf[path] \in Dirs
    <3>1. CASE \E dir \in Dirs : dirOf = [p \in Paths |-> dir]
      BY <1>2, <3>1
    <3>2. CASE dirOf = [p \in Paths |-> p[1]]
      <4>1. path[1] \in Dirs
        BY <1>2 DEF Paths
      <4> QED
        BY <1>2, <3>2, <4>1
    <3> QED
      BY <3>1, <3>2 DEF BatchDirs
  <2>2. BatesStem[path[2]] \in Stems
    BY PathsAssumption
  <2> QED
    BY <2>1, <2>2 DEF Paths
<1>5. position \in Positions
  BY DEF BatesPositions
<1> HIDE DEF document
<1>6. Keeps(document.pages, new)
  BY <1>3, <1>5, NumberedKeeps
<1> HIDE DEF new
<1>7. made \in Documents /\ made.pages = new
  BY <1>2, <1>6, RebuiltTyped DEF Keeps
<1>8. number + Len(document.pages) \in Nat \ {0}
  <2>1. Len(document.pages) \in Nat
    BY <1>3, ListTyped
  <2> QED
    BY <2>1
<1> HIDE DEF made, out
<1> QED
  BY <1>1, <1>2, <1>3, <1>4, <1>6, <1>7, <1>8, Zenon DEF FileNumbered, document, out, new, made

(* The numbers of a merge are those of its parts, the second going on where the    *)
(* first ends.                                                                     *)
LEMMA NumberedTwo ==
  ASSUME NEW a \in PageLists, NEW b \in PageLists, NEW position
  PROVE  Numbered(a \o b, 1, position)
           = Numbered(a, 1, position) \o Numbered(b, 1 + Len(a), position)
<1> DEFINE m == Len(a)  n == Len(b)
           u == Numbered(a, 1, position)  v == Numbered(b, 1 + m, position)
           w == Numbered(a \o b, 1, position)
<1>1. /\ a \in Seq(PageRecords) /\ DOMAIN a = 1 .. m /\ m \in Nat
      /\ b \in Seq(PageRecords) /\ DOMAIN b = 1 .. n /\ n \in Nat
  BY ListTyped
<1>2. /\ DOMAIN (a \o b) = 1 .. m + n
      /\ \A i \in 1 .. m + n : (a \o b)[i] = IF i <= m THEN a[i] ELSE b[i - m]
  <2>1. Len(a \o b) = m + n /\ a \o b \in Seq(PageRecords)
    BY <1>1, ConcatProperties
  <2>2. DOMAIN (a \o b) = 1 .. m + n
    BY <2>1
  <2>3. \A i \in 1 .. m + n : (a \o b)[i] = IF i <= m THEN a[i] ELSE b[i - m]
    BY <1>1, ConcatProperties
  <2> QED
    BY <2>2, <2>3
<1>3. w = [i \in 1 .. m + n |-> Marked((a \o b)[i], 1 + i - 1, position)]
  BY <1>2 DEF Numbered
<1>4. u = [i \in 1 .. m |-> Marked(a[i], 1 + i - 1, position)]
  BY <1>1 DEF Numbered
<1>5. v = [i \in 1 .. n |-> Marked(b[i], (1 + m) + i - 1, position)]
  BY <1>1 DEF Numbered
<1> HIDE DEF m, n, u, v, w
<1> DEFINE M == {Marked(a[i], 1 + i - 1, position) : i \in 1 .. m}
           N == {Marked(b[i], (1 + m) + i - 1, position) : i \in 1 .. n}
           T == M \cup N
<1>6. u \in [1 .. m -> T] /\ v \in [1 .. n -> T]
  BY <1>4, <1>5
<1> HIDE DEF T
<1>7. u \in Seq(T) /\ Len(u) = m /\ v \in Seq(T) /\ Len(v) = n
  BY <1>1, <1>6, ListOf
<1>8. /\ Len(u \o v) = m + n /\ u \o v \in Seq(T)
      /\ \A i \in 1 .. m + n : (u \o v)[i] = IF i <= m THEN u[i] ELSE v[i - m]
  BY <1>7, ConcatProperties
<1>9. ASSUME NEW i \in 1 .. m + n PROVE w[i] = (u \o v)[i]
  <2>1. w[i] = Marked((a \o b)[i], 1 + i - 1, position)
    BY <1>3
  <2>2. CASE i <= m
    <3>1. i \in 1 .. m
      BY <1>1, <2>2
    <3>2. (a \o b)[i] = a[i] /\ (u \o v)[i] = u[i]
      BY <1>2, <1>8, <2>2
    <3>3. u[i] = Marked(a[i], 1 + i - 1, position)
      BY <1>4, <3>1
    <3> QED
      BY <2>1, <3>2, <3>3
  <2>3. CASE ~ (i <= m)
    <3>1. i - m \in 1 .. n /\ (1 + m) + (i - m) - 1 = 1 + i - 1
      BY <1>1, <2>3
    <3>2. (a \o b)[i] = b[i - m] /\ (u \o v)[i] = v[i - m]
      BY <1>2, <1>8, <2>3
    <3>3. v[i - m] = Marked(b[i - m], (1 + m) + (i - m) - 1, position)
      BY <1>5, <3>1
    <3> QED
      BY <2>1, <3>1, <3>2, <3>3
  <2> QED
    BY <2>2, <2>3
<1>10. w = [i \in 1 .. m + n |-> w[i]]
  BY <1>3
<1>11. u \o v = [i \in 1 .. m + n |-> (u \o v)[i]]
  <2> DEFINE x == u \o v
  <2>1. x \in Seq(T) /\ Len(x) = m + n
    BY <1>8
  <2> HIDE DEF x
  <2>2. x = [i \in 1 .. m + n |-> x[i]]
    BY <2>1
  <2> QED
    BY <2>2 DEF x
<1>12. w = u \o v
  BY <1>9, <1>10, <1>11
<1> QED
  BY <1>12 DEF u, v, w, m

LEMMA StoppedStep ==
  ASSUME files' \in FileSystems, last'.ok = FALSE, last'.told = <<>>,
         last'.read \in Seq(DocumentRecords), calls' \in 0 .. MaxCalls
  PROVE  Sound
<1>1. /\ DOMAIN files' \subseteq Paths /\ files' \in [DOMAIN files' -> DocumentRecords]
      /\ \A p \in DOMAIN files' : Linked(files'[p])
  BY FilesTyped
<1>2. TypeOK'
  <2>1. <<>> \in Seq(Paths) /\ FALSE \in BOOLEAN
    OBVIOUS
  <2> QED
    BY <1>1, <2>1, Zenon DEF TypeOK
<1>3. CropsStayInside'
  BY DEF CropsStayInside
<1> QED
  BY <1>1, <1>2, <1>3 DEF Sound, TargetsExist, BatchRunsOn, MarksOnPage

LEMMA TwoDistinct ==
  ASSUME NEW x, NEW y, Cardinality(Range(<<x, y>>)) = Len(<<x, y>>)
  PROVE  x # y
<1> SUFFICES ASSUME x = y PROVE FALSE
  OBVIOUS
<1>1. Range(<<x, y>>) = {x}
  BY DEF Range
<1>2. Cardinality({x}) = 1
  BY FS_Singleton
<1> QED
  BY <1>1, <1>2

(* A batch that numbered two files.                                                *)
LEMMA BatchDone ==
  ASSUME NEW one \in DocumentRecords, NEW two \in DocumentRecords, NEW position,
         NEW outOne \in Paths, NEW outTwo \in Paths, NEW madeOne \in Documents,
         NEW madeTwo \in Documents, NEW fs \in FileSystems,
         one.pages \in PageLists, two.pages \in PageLists,
         madeOne.pages = Numbered(one.pages, 1, position),
         madeTwo.pages = Numbered(two.pages, 1 + Len(one.pages), position),
         Keeps(one.pages, madeOne.pages), Keeps(two.pages, madeTwo.pages),
         files' = Put(Put(fs, outOne, madeOne), outTwo, madeTwo),
         last'.op = "batch", last'.ok = TRUE, last'.read = <<one, two>>,
         last'.given = <<1, position>>, last'.told = <<outOne, outTwo>>,
         calls' \in 0 .. MaxCalls
  PROVE  Sound
<1> DEFINE middle == Put(fs, outOne, madeOne)
<1>1. middle \in FileSystems /\ outOne \in DOMAIN middle /\ middle[outOne] = madeOne
  BY PutTyped
<1>2. files' = Put(middle, outTwo, madeTwo)
  OBVIOUS
<1> HIDE DEF middle
<1>3. /\ files' \in FileSystems /\ files'[outTwo] = madeTwo
      /\ outOne # outTwo => files'[outOne] = madeOne
  BY <1>1, <1>2, PutTyped
<1>4. /\ DOMAIN files' \subseteq Paths /\ files' \in [DOMAIN files' -> DocumentRecords]
      /\ \A p \in DOMAIN files' : Linked(files'[p])
  BY <1>3, FilesTyped
<1>5. TypeOK'
  <2>1. <<one, two>> \in Seq(DocumentRecords)
    OBVIOUS
  <2>2. <<outOne, outTwo>> \in Seq(Paths)
    OBVIOUS
  <2>3. TRUE \in BOOLEAN
    OBVIOUS
  <2> QED
    BY <1>4, <2>1, <2>2, <2>3, Zenon DEF TypeOK
<1>6. TargetsExist'
  BY <1>4 DEF TargetsExist
<1>7. DOMAIN <<outOne, outTwo>> = {1, 2} /\ <<outOne, outTwo>>[1] = outOne /\ <<outOne, outTwo>>[2] = outTwo
  OBVIOUS
<1>8. DOMAIN <<one, two>> = {1, 2} /\ <<one, two>>[1] = one /\ <<one, two>>[2] = two
  OBVIOUS
<1>9. TellsPages(1)' = files'[outOne].pages /\ TellsPages(2)' = madeTwo.pages
  BY <1>3, <1>7 DEF TellsPages
<1>10. BatchRunsOn'
  <2> SUFFICES ASSUME Cardinality(Range(<<outOne, outTwo>>)) = Len(<<outOne, outTwo>>)
               PROVE  Merged([i \in DOMAIN last'.told |-> TellsPages(i)'])
                        = Numbered(Merged([i \in DOMAIN last'.read |-> last'.read[i].pages]),
                                   last'.given[1], last'.given[2])
    BY DEF BatchRunsOn
  <2>1. TellsPages(1)' = madeOne.pages
    BY <1>3, <1>9, TwoDistinct
  <2>2. [i \in DOMAIN last'.told |-> TellsPages(i)'] = <<madeOne.pages, madeTwo.pages>>
    <3>1. [i \in DOMAIN last'.told |-> TellsPages(i)'] = [i \in 1 .. 2 |-> TellsPages(i)']
      BY <1>7
    <3>2. ASSUME NEW i \in 1 .. 2 PROVE TellsPages(i)' = <<madeOne.pages, madeTwo.pages>>[i]
      <4>1. CASE i = 1
        BY <2>1, <4>1
      <4>2. CASE i = 2
        BY <1>9, <4>2
      <4> QED
        BY <4>1, <4>2
    <3>3. <<madeOne.pages, madeTwo.pages>>
            = [i \in 1 .. 2 |-> <<madeOne.pages, madeTwo.pages>>[i]]
      OBVIOUS
    <3>4. [i \in 1 .. 2 |-> TellsPages(i)'] = [i \in 1 .. 2 |-> <<madeOne.pages, madeTwo.pages>>[i]]
      BY <3>2, Zenon
    <3> QED
      BY <3>1, <3>3, <3>4, Zenon
  <2>3. [i \in DOMAIN last'.read |-> last'.read[i].pages] = <<one.pages, two.pages>>
    OBVIOUS
  <2>4. last'.given[1] = 1 /\ last'.given[2] = position
    OBVIOUS
  <2>5. Merged(<<one.pages, two.pages>>) = one.pages \o two.pages
    BY MergedKeeps
  <2>6. Merged(<<madeOne.pages, madeTwo.pages>>) = madeOne.pages \o madeTwo.pages
    <3>1. madeOne.pages \in PageLists /\ madeTwo.pages \in PageLists
      BY DEF Keeps
    <3> QED
      BY <3>1, MergedKeeps
  <2>7. Numbered(one.pages \o two.pages, 1, position) = madeOne.pages \o madeTwo.pages
    <3>1. Numbered(one.pages \o two.pages, 1, position)
            = Numbered(one.pages, 1, position)
                \o Numbered(two.pages, 1 + Len(one.pages), position)
      BY NumberedTwo
    <3> QED
      BY <3>1, Zenon
  <2> QED
    BY <2>2, <2>3, <2>4, <2>5, <2>6, <2>7, Zenon
<1>11. CropsStayInside'
  <2> SUFFICES ASSUME \A i \in DOMAIN last'.read : \A j \in DOMAIN last'.read[i].pages :
                        CropInside(last'.read[i].pages[j])
               PROVE  \A i \in DOMAIN last'.told : \A j \in DOMAIN TellsPages(i)' :
                        CropInside(TellsPages(i)'[j])
    BY DEF CropsStayInside
  <2>1. last'.read \in Seq(DocumentRecords)
    BY <1>5 DEF TypeOK
  <2>2. InsideAll(last'.read)
    BY <2>1, ReadsInside
  <2>3. one.pages \in Seq(Inside) /\ two.pages \in Seq(Inside)
    <3>1. last'.read[1].pages \in Seq(Inside) /\ last'.read[2].pages \in Seq(Inside)
      BY <1>8, <2>2 DEF InsideAll
    <3> QED
      BY <1>8, <3>1
  <2>4. madeOne.pages \in Seq(Inside) /\ madeTwo.pages \in Seq(Inside)
    BY <2>3 DEF Keeps
  <2>5. ASSUME NEW pages \in Seq(Inside) PROVE \A j \in DOMAIN pages : CropInside(pages[j])
    <3>1. \A j \in DOMAIN pages : pages[j] \in Inside
      OBVIOUS
    <3> QED
      BY <3>1 DEF Inside
  <2>6. TellsPages(1)' = madeOne.pages \/ TellsPages(1)' = madeTwo.pages
    <3>1. CASE outOne = outTwo
      BY <1>3, <1>9, <3>1
    <3>2. CASE outOne # outTwo
      BY <1>3, <1>9, <3>2
    <3> QED
      BY <3>1, <3>2
  <2>7. TellsPages(1)' \in Seq(Inside) /\ TellsPages(2)' \in Seq(Inside)
    BY <1>9, <2>4, <2>6
  <2>8. \A i \in DOMAIN last'.told : i = 1 \/ i = 2
    BY <1>7
  <2> QED
    BY <2>5, <2>7, <2>8
<1>12. MarksOnPage'
  BY DEF MarksOnPage
<1> QED
  BY <1>5, <1>6, <1>10, <1>11, <1>12 DEF Sound

LEMMA SecondAppended ==
  ASSUME NEW x, NEW y, NEW list, list = <<x>>
  PROVE  Append(list, y) = <<x, y>>
<1> DEFINE new == Append(list, y)
<1>1. list \in Seq({x, y}) /\ y \in {x, y} /\ Len(list) = 1 /\ list[1] = x
  OBVIOUS
<1>2. new \in Seq({x, y}) /\ Len(new) = 2 /\ new[1] = x /\ new[2] = y
  BY <1>1
<1> HIDE DEF new
<1>3. new = <<x, y>>
  BY <1>2
<1> QED
  BY <1>3 DEF new

LEMMA BatchStep ==
  ASSUME TypeOK, TargetsExist, NEW a, NEW b, NEW dirOf \in BatchDirs, NEW position,
         AddBatesToBatch(<<a, b>>, dirOf, 1, position)
  PROVE  Sound
<1> DEFINE begun == [ok |-> position \in BatesPositions, files |-> files, number |-> 1,
                     read |-> <<>>, told |-> <<>>]
           one == BatchFile(begun, a, dirOf, position)
           two == BatchFile(one, b, dirOf, position)
<1>1. /\ calls < MaxCalls /\ calls' = calls + 1
      /\ a[2] \in DOMAIN BatesStem /\ b[2] \in DOMAIN BatesStem
      /\ files' = two.files
      /\ last' = [op |-> "batch", ok |-> two.ok, read |-> two.read,
                  given |-> <<1, position>>, told |-> IF two.ok THEN two.told ELSE <<>>]
  BY BatchOfTwo
<1>2. calls' \in 0 .. MaxCalls
  BY <1>1, ArgsAssumption DEF TypeOK
<1>3. files \in FileSystems
  BY FilesTyped DEF TypeOK, TargetsExist
<1>4. ASSUME NEW x, NEW y, ~ x.ok \/ y \notin DOMAIN x.files
      PROVE  BatchFile(x, y, dirOf, position) = [x EXCEPT !.ok = FALSE]
  BY <1>4, Zenon DEF BatchFile
<1>5. /\ begun.files = files /\ begun.number = 1 /\ begun.read = <<>> /\ begun.told = <<>>
      /\ begun.ok = (position \in BatesPositions)
  OBVIOUS
<1>6. CASE ~ begun.ok \/ a \notin DOMAIN files
  <2>1. one = [begun EXCEPT !.ok = FALSE]
    <3> HIDE DEF begun
    <3> QED
      BY <1>4, <1>5, <1>6
  <2>2. one.ok = FALSE /\ one.files = files /\ one.read = <<>>
    BY <2>1
  <2>3. one = [ok |-> FALSE, files |-> files, number |-> 1, read |-> <<>>, told |-> <<>>]
    BY <2>1
  <2> HIDE DEF one
  <2>4. two = [one EXCEPT !.ok = FALSE]
    BY <1>4, <2>2
  <2>5. two.ok = FALSE /\ two.files = files /\ two.read = <<>>
    BY <2>3, <2>4
  <2> HIDE DEF two
  <2>6. last'.ok = FALSE /\ last'.told = <<>> /\ last'.read = <<>>
    BY <1>1, <2>5
  <2>7. <<>> \in Seq(DocumentRecords)
    OBVIOUS
  <2> QED
    BY <1>1, <1>2, <1>3, <2>5, <2>6, <2>7, StoppedStep
<1>7. CASE begun.ok /\ a \in DOMAIN files
  <2> DEFINE docOne == files[a]
             outOne == <<dirOf[a], BatesStem[a[2]]>>
             madeOne == Rebuilt(docOne, Numbered(docOne.pages, 1, position))
             middle == Put(files, outOne, madeOne)
             next == 1 + Len(docOne.pages)
  <2>1. position \in BatesPositions /\ begun.ok = TRUE
    BY <1>5, <1>7
  <2>2. /\ one = [ok |-> TRUE, files |-> middle, number |-> next,
                  read |-> Append(begun.read, docOne), told |-> Append(begun.told, outOne)]
        /\ outOne \in Paths /\ docOne \in DocumentRecords /\ docOne.pages \in PageLists
        /\ madeOne \in Documents /\ madeOne.pages = Numbered(docOne.pages, 1, position)
        /\ Keeps(docOne.pages, madeOne.pages) /\ next \in Nat \ {0}
    <3> HIDE DEF begun
    <3>1. 1 \in Nat \ {0} /\ a \in DOMAIN files
      BY <1>7
    <3>3. FileNumbered(begun, files, 1, position, dirOf, a)
      BY <1>1, <1>3, <1>5, <2>1, <3>1, BatchFileStep
    <3> QED
      BY <3>3, Zenon DEF FileNumbered
  <2>3. Append(begun.read, docOne) = <<docOne>> /\ Append(begun.told, outOne) = <<outOne>>
    BY <1>5
  <2> HIDE DEF begun, madeOne, docOne, outOne, next
  <2>4. middle \in FileSystems
    BY <1>3, <2>2, PutTyped
  <2> DEFINE three == [ok |-> TRUE, files |-> middle, number |-> next,
                       read |-> <<docOne>>, told |-> <<outOne>>]
  <2>5. one = three
    BY <2>2, <2>3
  <2> HIDE DEF middle, one
  <2>6. /\ one.ok = TRUE /\ one.files = middle /\ one.number = next
        /\ one.read = <<docOne>> /\ one.told = <<outOne>>
    BY <2>5
  <2>7. CASE b \notin DOMAIN middle
    <3>1. two = [one EXCEPT !.ok = FALSE]
      BY <1>4, <2>6, <2>7
    <3>2. two.ok = FALSE /\ two.files = middle /\ two.read = <<docOne>>
      BY <2>5, <3>1
    <3> HIDE DEF two
    <3>3. last'.ok = FALSE /\ last'.told = <<>> /\ last'.read = <<docOne>>
      BY <1>1, <3>2
    <3>4. <<docOne>> \in Seq(DocumentRecords)
      BY <2>2
    <3> QED
      BY <1>1, <1>2, <2>4, <3>2, <3>3, <3>4, StoppedStep
  <2>8. CASE b \in DOMAIN middle
    <3> DEFINE docTwo == middle[b]
               outTwo == <<dirOf[b], BatesStem[b[2]]>>
               madeTwo == Rebuilt(docTwo, Numbered(docTwo.pages, next, position))
               last2 == Put(middle, outTwo, madeTwo)
    <3>1. /\ two = [ok |-> TRUE, files |-> last2, number |-> next + Len(docTwo.pages),
                    read |-> Append(one.read, docTwo), told |-> Append(one.told, outTwo)]
          /\ outTwo \in Paths /\ docTwo \in DocumentRecords /\ docTwo.pages \in PageLists
          /\ madeTwo \in Documents /\ madeTwo.pages = Numbered(docTwo.pages, next, position)
          /\ Keeps(docTwo.pages, madeTwo.pages)
      <4>1. FileNumbered(one, middle, next, position, dirOf, b)
        BY <1>1, <2>1, <2>2, <2>4, <2>6, <2>8, BatchFileStep
      <4> QED
        BY <4>1, Zenon DEF FileNumbered
    <3> HIDE DEF madeTwo, docTwo, outTwo
    <3>2. Append(one.read, docTwo) = <<docOne, docTwo>> /\ Append(one.told, outTwo) = <<outOne, outTwo>>
      BY <2>6, SecondAppended
    <3>3. two.ok = TRUE /\ two.files = last2 /\ two.read = <<docOne, docTwo>> /\ two.told = <<outOne, outTwo>>
      BY <3>1, <3>2
    <3> HIDE DEF two
    <3>4. /\ last'.op = "batch" /\ last'.ok = TRUE /\ last'.read = <<docOne, docTwo>>
          /\ last'.given = <<1, position>> /\ last'.told = <<outOne, outTwo>>
      BY <1>1, <3>3
    <3>5. files' = Put(Put(files, outOne, madeOne), outTwo, madeTwo)
      BY <1>1, <3>3 DEF middle
    <3>6. madeTwo.pages = Numbered(docTwo.pages, 1 + Len(docOne.pages), position)
      BY <3>1 DEF next
    <3> QED
      BY <1>2, <1>3, <2>2, <3>1, <3>4, <3>5, <3>6, BatchDone
  <2> QED
    BY <2>7, <2>8
<1>8. begun.ok \in BOOLEAN
  BY <1>5
<1> QED
  BY <1>6, <1>7, <1>8

-----------------------------------------------------------------------------
(* Any call, and what any sequence of them keeps.                                  *)
LEMMA FirstFiles ==
  ASSUME Init
  PROVE  TypeOK /\ TargetsExist /\ BatchRunsOn /\ CropsStayInside /\ MarksOnPage
<1>1. /\ DOMAIN files \subseteq Paths /\ files \in [DOMAIN files -> DocumentRecords]
      /\ \A p \in DOMAIN files : Linked(files[p])
  BY FilesAssumption DEF Init
<1>2. last.op = "none" /\ last.ok = TRUE /\ last.read = <<>> /\ last.told = <<>> /\ calls = 0
  BY DEF Init
<1>3. TypeOK
  <2>1. <<>> \in Seq(DocumentRecords) /\ <<>> \in Seq(Paths) /\ TRUE \in BOOLEAN
    OBVIOUS
  <2>2. 0 \in 0 .. MaxCalls
    BY ArgsAssumption
  <2> QED
    BY <1>1, <1>2, <2>1, <2>2, Zenon DEF TypeOK
<1>4. TargetsExist
  BY <1>1 DEF TargetsExist
<1>5. CropsStayInside
  <2>1. DOMAIN last.told = {}
    BY <1>2
  <2> QED
    BY <2>1, Zenon DEF CropsStayInside
<1>6. BatchRunsOn /\ MarksOnPage
  BY <1>2 DEF BatchRunsOn, MarksOnPage
<1> QED
  BY <1>3, <1>4, <1>5, <1>6

LEMMA EveryCall ==
  ASSUME TypeOK, TargetsExist, Next
  PROVE  Sound
<1>1. PICK path \in Named :
        \/ \E dir \in Dirs, ranges \in RangeArgs : Split(path, ranges, dir)
        \/ \E other \in Named, dirOf \in BatchDirs, position \in PositionArgs :
             AddBatesToBatch(<<path, other>>, dirOf, 1, position)
        \/ \E out \in Outputs :
             \/ \E other \in Named : Merge(<<path, other>>, out) \/ InterleaveFiles(path, other, out)
             \/ ReverseFile(path, out)
             \/ \E nums \in PageArgs :
                  \/ ExtractPages(path, nums, out) \/ ReorderPages(path, nums, out)
                  \/ DeletePages(path, nums, out) \/ RotatePages(path, nums, 90, out)
                  \/ \E offset \in OffsetArgs : CropPages(path, nums, offset, out)
                  \/ \E size \in SizeArgs : ResizePages(path, nums, size, out)
                  \/ \E type \in {"MediaBox", "CropBox"}, box \in BoxArgs :
                       SetPageBoxes(path, nums, type, box, out)
                  \/ \E position \in PositionArgs : AddStamp(path, nums, position, out)
             \/ \E position \in PositionArgs : AddBatesNumbers(path, 1, position, out)
             \/ \E entries \in EntryArgs :
                  GenerateToc(path, entries, out) \/ AddBookmarks(path, entries, out)
             \/ \E entries \in LabelArgs : SetPageLabels(path, entries, out)
  BY Zenon DEF Next
<1>2. ASSUME NEW dir \in Dirs, NEW ranges \in RangeArgs, Split(path, ranges, dir) PROVE Sound
  BY <1>2, SplitStep
<1>3. ASSUME NEW other \in Named, NEW dirOf \in BatchDirs, NEW position \in PositionArgs,
             AddBatesToBatch(<<path, other>>, dirOf, 1, position)
      PROVE  Sound
  BY <1>3, BatchStep
<1>4. ASSUME NEW out \in Outputs, NEW other \in Named,
             Merge(<<path, other>>, out) \/ InterleaveFiles(path, other, out)
      PROVE  Sound
  BY <1>4, MergeStep, InterleaveStep
<1>5. ASSUME NEW out \in Outputs, ReverseFile(path, out) PROVE Sound
  BY <1>5, ReverseStep
<1>6. ASSUME NEW out \in Outputs, NEW nums \in PageArgs,
             \/ ExtractPages(path, nums, out) \/ ReorderPages(path, nums, out)
             \/ DeletePages(path, nums, out) \/ RotatePages(path, nums, 90, out)
             \/ \E offset \in OffsetArgs : CropPages(path, nums, offset, out)
             \/ \E size \in SizeArgs : ResizePages(path, nums, size, out)
             \/ \E type \in {"MediaBox", "CropBox"}, box \in BoxArgs :
                  SetPageBoxes(path, nums, type, box, out)
             \/ \E position \in PositionArgs : AddStamp(path, nums, position, out)
      PROVE  Sound
  <2>1. CASE ExtractPages(path, nums, out)
    BY <2>1, ExtractStep
  <2>2. CASE ReorderPages(path, nums, out)
    BY <2>2, ReorderStep
  <2>3. CASE DeletePages(path, nums, out)
    BY <2>3, DeleteStep
  <2>4. CASE RotatePages(path, nums, 90, out)
    BY <2>4, RotateStep
  <2>5. ASSUME NEW offset \in OffsetArgs, CropPages(path, nums, offset, out) PROVE Sound
    BY <2>5, CropStep
  <2>6. ASSUME NEW size \in SizeArgs, ResizePages(path, nums, size, out) PROVE Sound
    BY <2>6, ResizeStep
  <2>7. ASSUME NEW type \in {"MediaBox", "CropBox"}, NEW box \in BoxArgs,
               SetPageBoxes(path, nums, type, box, out)
        PROVE  Sound
    BY <2>7, BoxesStep
  <2>8. ASSUME NEW position \in PositionArgs, AddStamp(path, nums, position, out) PROVE Sound
    BY <2>8, StampStep
  <2> QED
    BY <1>6, <2>1, <2>2, <2>3, <2>4, <2>5, <2>6, <2>7, <2>8, Zenon
<1>7. ASSUME NEW out \in Outputs, NEW position \in PositionArgs,
             AddBatesNumbers(path, 1, position, out)
      PROVE  Sound
  BY <1>7, BatesStep
<1>8. ASSUME NEW out \in Outputs, NEW entries \in EntryArgs,
             GenerateToc(path, entries, out) \/ AddBookmarks(path, entries, out)
      PROVE  Sound
  BY <1>8, TocStep, BookmarksStep
<1>9. ASSUME NEW out \in Outputs, NEW entries \in LabelArgs, SetPageLabels(path, entries, out)
      PROVE  Sound
  BY <1>9, LabelsStep
<1> QED
  BY <1>1, <1>2, <1>3, <1>4, <1>5, <1>6, <1>7, <1>8, <1>9, Zenon

LEMMA NothingChanged ==
  ASSUME TypeOK, TargetsExist, BatchRunsOn, CropsStayInside, MarksOnPage, UNCHANGED vars
  PROVE  Sound
<1>1. files' = files /\ last' = last /\ calls' = calls
  BY Zenon DEF vars
<1>2. TypeOK'
  BY <1>1, Zenon DEF TypeOK
<1>3. TargetsExist'
  BY <1>1, Zenon DEF TargetsExist
<1>4. BatchRunsOn'
  BY <1>1, Zenon DEF BatchRunsOn, TellsPages
<1>5. CropsStayInside'
  BY <1>1, Zenon DEF CropsStayInside, TellsPages
<1>6. MarksOnPage'
  BY <1>1, Zenon DEF MarksOnPage, TellsPages
<1> QED
  BY <1>2, <1>3, <1>4, <1>5, <1>6 DEF Sound

-----------------------------------------------------------------------------
(* What is read back of what was written. Only add_bookmarks and set_page_labels   *)
(* have to be right about it.                                                      *)
Navigated(op, given, old, new) ==
  /\ op = "bookmarks" => Walk(new.outline) = Walk(old.outline) \o Meant(given)
  /\ op = "labels" => LabelsRead(new.labels) = given

LEMMA NavigationStep ==
  ASSUME TypeOK, NEW op, NEW given, NEW path, NEW accepted, NEW document, NEW out,
         path \in DOMAIN files /\ accepted => Navigated(op, given, files[path], document),
         CallIs(op, given, <<path>>, accepted, document, out)
  PROVE  NavigationReadsBack'
<1> DEFINE ok == Range(<<path>>) \subseteq DOMAIN files /\ accepted
           read == ReadAll(<<path>>)
<1>1. /\ last' = [op |-> op, ok |-> ok, read |-> read, given |-> given,
                  told |-> IF ok THEN <<out>> ELSE <<>>]
      /\ files' = IF ok THEN Put(files, out, document) ELSE files
  BY Zenon DEF CallIs
<1>2. ok <=> path \in DOMAIN files /\ accepted
  BY ReadOne
<1>3. path \in DOMAIN files => read[1] = files[path]
  BY ReadOne
<1>4. ok \in BOOLEAN
  OBVIOUS
<1> HIDE DEF ok, read
<1>5. last'.op = op /\ last'.ok = ok /\ last'.read = read /\ last'.given = given
  BY <1>1
<1>6. CASE ok
  <2>1. last'.told = <<out>> /\ files' = Put(files, out, document)
    BY <1>1, <1>6
  <2>2. last'.told[1] = out
    BY <2>1
  <2>3. files'[out] = document
    <3>1. Put(files, out, document)[out] = document
      BY DEF Put
    <3> QED
      BY <2>1, <3>1
  <2>4. Navigated(op, given, read[1], document)
    BY <1>2, <1>3, <1>6
  <2>5. files'[last'.told[1]] = document
    BY <2>2, <2>3
  <2> QED
    BY <1>5, <2>4, <2>5, Zenon DEF Navigated, NavigationReadsBack
<1>7. CASE ~ ok
  BY <1>5, <1>7, Zenon DEF NavigationReadsBack
<1> QED
  BY <1>6, <1>7

LEMMA BookmarksReadBack ==
  ASSUME TypeOK, TargetsExist, NEW path, NEW entries \in EntryArgs, NEW out,
         AddBookmarks(path, entries, out)
  PROVE  NavigationReadsBack'
<1> DEFINE read == ReadAll(<<path>>)
           accepted == \A i \in DOMAIN entries : entries[i].page \in DOMAIN read[1].pages
           document == [read[1] EXCEPT !.outline = Bookmarked(@, entries)]
<1>1. CallIs("bookmarks", entries, <<path>>, accepted, document, out)
  BY Zenon DEF AddBookmarks, Call, CallIs, ReadAll
<1>2. ASSUME path \in DOMAIN files, accepted
      PROVE  Walk(document.outline) = Walk(files[path].outline) \o Meant(entries)
  <2> DEFINE old == files[path]  count == Len(old.pages)
             new == Bookmarked(old.outline, entries)
  <2>1. read[1] = old /\ old \in DocumentRecords /\ old.pages \in PageLists /\ Linked(old)
    BY <1>2, ReadOne DEF TargetsExist
  <2>2. /\ count \in Nat /\ DOMAIN old.pages = 1 .. count
        /\ old.outline \in Seq(Goal(count))
    <3> HIDE DEF old
    <3> QED
      BY <2>1, OutlineGoals
  <2>3. entries \in Seq(Entries)
    BY ArgsAssumption DEF Entries
  <2>4. \A i \in DOMAIN entries : entries[i].page \in 1 .. count
    BY <1>2, <2>1, <2>2
  <2>5. document = [old EXCEPT !.outline = new]
    BY <2>1
  <2> HIDE DEF document, count, read, new, old
  <2>6. Walk(new) = Walk(old.outline) \o Meant(entries)
    BY <2>2, <2>3, <2>4, BookmarksRead DEF new
  <2>7. document.outline = new
    BY <2>1, <2>5 DEF DocumentRecords
  <2> QED
    BY <2>6, <2>7 DEF old
<1> HIDE DEF accepted, document
<1>3. path \in DOMAIN files /\ accepted => Navigated("bookmarks", entries, files[path], document)
  BY <1>2 DEF Navigated
<1> QED
  BY <1>1, <1>3, NavigationStep

(* The names of the styles differ, and none of them is that of no label.           *)
LEMMA StylesRead ==
  ASSUME NEW style \in DOMAIN PdfStyle
  PROVE  PdfStyle[style] # "absent" /\ ReadStyle(PdfStyle[style]) = style
<1>1. DOMAIN PdfStyle = {"decimal", "roman_lower", "roman_upper", "alpha_lower", "alpha_upper"}
  BY DEF PdfStyle
<1>2. /\ PdfStyle["decimal"] = "/D" /\ PdfStyle["roman_lower"] = "/r" /\ PdfStyle["roman_upper"] = "/R"
      /\ PdfStyle["alpha_lower"] = "/a" /\ PdfStyle["alpha_upper"] = "/A"
  BY DEF PdfStyle
<1>3. PdfStyle[style] # "absent"
  BY <1>1, <1>2
<1>4. \A other \in DOMAIN PdfStyle : PdfStyle[other] = PdfStyle[style] => other = style
  BY <1>1, <1>2
<1> DEFINE read == CHOOSE other \in DOMAIN PdfStyle : PdfStyle[other] = PdfStyle[style]
<1>5. read \in DOMAIN PdfStyle /\ PdfStyle[read] = PdfStyle[style]
  OBVIOUS
<1>6. ReadStyle(PdfStyle[style]) = read
  BY <1>3, Zenon DEF ReadStyle
<1> HIDE DEF read
<1> QED
  BY <1>3, <1>4, <1>5, <1>6

(* set_page_labels writes what get_page_labels reads.                              *)
LEMMA LabelsWritten ==
  ASSUME NEW count \in Nat, NEW entries \in LabelArgs, LabelsAccepted(count, entries)
  PROVE  LabelsRead(Labelled(entries)) = entries
<1> DEFINE Entry == [start_page : Int, style : DOMAIN PdfStyle \cup {"none"},
                     prefix : STRING, first_number : Int]
           labels == Labelled(entries)
           Read(label) == [start_page |-> label.start, style |-> ReadStyle(label.S),
                           prefix |-> label.P,
                           first_number |-> IF label.St = Unset THEN 1 ELSE label.St]
<1>1. entries \in Seq(Entry)
  BY ArgsAssumption
<1>2. ASSUME NEW i \in DOMAIN entries PROVE Read(LabelDict(entries[i])) = entries[i]
  <2> DEFINE entry == entries[i]
             style == IF entry.style = "none" THEN "absent" ELSE PdfStyle[entry.style]
             first == IF entry.first_number = 1 THEN Unset ELSE entry.first_number
             label == LabelDict(entries[i])
  <2>1. entry \in Entry
    <3> HIDE DEF Entry
    <3>1. entries[i] \in Entry
      BY <1>1
    <3> QED
      BY <3>1
  <2>2. entry.first_number \in Int /\ entry.first_number >= 0
    BY <2>1 DEF LabelsAccepted
  <2>3. ReadStyle(style) = entry.style
    <3>1. CASE entry.style = "none"
      BY <3>1 DEF ReadStyle
    <3>2. CASE entry.style \in DOMAIN PdfStyle
      <4>1. entry.style # "none"
        BY <3>2 DEF PdfStyle
      <4>2. style = PdfStyle[entry.style]
        BY <4>1
      <4> HIDE DEF style, entry
      <4> QED
        BY <3>2, <4>2, StylesRead
    <3>3. entry.style \in DOMAIN PdfStyle \cup {"none"}
      BY <2>1
    <3> QED
      BY <3>1, <3>2, <3>3
  <2>4. (IF first = Unset THEN 1 ELSE first) = entry.first_number
    <3> HIDE DEF entry
    <3> QED
      BY <2>2 DEF Unset
  <2>5. label = [start |-> entry.start_page, S |-> style, P |-> entry.prefix, St |-> first]
    BY Zenon DEF LabelDict
  <2> HIDE DEF style, first, label
  <2>6. label.start = entry.start_page /\ label.S = style /\ label.P = entry.prefix /\ label.St = first
    BY <2>5
  <2>7. Read(label) = [start_page |-> entry.start_page, style |-> entry.style,
                       prefix |-> entry.prefix, first_number |-> entry.first_number]
    BY <2>3, <2>4, <2>6
  <2>8. entry = [start_page |-> entry.start_page, style |-> entry.style,
                 prefix |-> entry.prefix, first_number |-> entry.first_number]
    BY <2>1
  <2> HIDE DEF Read
  <2> QED
    BY <2>7, <2>8 DEF label
<1>3. DOMAIN labels = DOMAIN entries /\ \A i \in DOMAIN entries : labels[i] = LabelDict(entries[i])
  BY DEF Labelled
<1>4. LabelsRead(labels) = [i \in DOMAIN labels |-> Read(labels[i])]
  BY Zenon DEF LabelsRead
<1>5. entries = [i \in DOMAIN entries |-> entries[i]]
  BY <1>1
<1> HIDE DEF labels, Read
<1>6. \A i \in DOMAIN entries : Read(labels[i]) = entries[i]
  BY <1>2, <1>3
<1>7. [i \in DOMAIN labels |-> Read(labels[i])] = [i \in DOMAIN entries |-> entries[i]]
  BY <1>3, <1>6
<1> QED
  BY <1>4, <1>5, <1>7 DEF labels

LEMMA LabelsReadBack ==
  ASSUME TypeOK, NEW path, NEW entries \in LabelArgs, NEW out, SetPageLabels(path, entries, out)
  PROVE  NavigationReadsBack'
<1> DEFINE read == ReadAll(<<path>>)
           accepted == LabelsAccepted(Len(read[1].pages), entries)
           document == [Rebuilt(read[1], read[1].pages) EXCEPT !.labels = Labelled(entries)]
<1>1. CallIs("labels", entries, <<path>>, accepted, document, out)
  BY Zenon DEF SetPageLabels, Call, CallIs, ReadAll
<1>2. ASSUME path \in DOMAIN files, accepted PROVE LabelsRead(document.labels) = entries
  <2> DEFINE pages == files[path].pages  old == Rebuilt(files[path], pages)
             labels == Labelled(entries)
  <2>1. read[1] = files[path] /\ files[path] \in DocumentRecords /\ pages \in PageLists
    BY <1>2, ReadOne
  <2>2. Len(pages) \in Nat
    BY <2>1, ListTyped
  <2>3. labels \in Seq(LabelDicts) /\ LabelsRead(labels) = entries
    BY <1>2, <2>1, <2>2, LabelsTyped, LabelsWritten
  <2>4. old \in DocumentRecords
    BY <2>1, RebuiltTyped DEF Documents
  <2>5. document = [old EXCEPT !.labels = labels]
    BY <2>1
  <2> HIDE DEF document, old, labels, pages, read
  <2>6. document.labels = labels
    BY <2>3, <2>4, <2>5, LabelsReplaced
  <2> QED
    BY <2>3, <2>6
<1> HIDE DEF accepted, document
<1>3. path \in DOMAIN files /\ accepted => Navigated("labels", entries, files[path], document)
  BY <1>2 DEF Navigated
<1> QED
  BY <1>1, <1>3, NavigationStep

(* Every other call has a name of its own.                                         *)
Other(op) ==
  \E ok, read, given, told :
    last' = [op |-> op, ok |-> ok, read |-> read, given |-> given, told |-> told]

LEMMA OtherCalls ==
  ASSUME NEW op, Other(op), op \notin {"bookmarks", "labels"}
  PROVE  NavigationReadsBack'
<1>1. last'.op = op
  BY DEF Other
<1> QED
  BY <1>1, Zenon DEF NavigationReadsBack

LEMMA Navigating ==
  ASSUME TypeOK, TargetsExist, Next
  PROVE  NavigationReadsBack'
<1>1. PICK path \in Named :
        \/ \E dir \in Dirs, ranges \in RangeArgs : Split(path, ranges, dir)
        \/ \E other \in Named, dirOf \in BatchDirs, position \in PositionArgs :
             AddBatesToBatch(<<path, other>>, dirOf, 1, position)
        \/ \E out \in Outputs :
             \/ \E other \in Named : Merge(<<path, other>>, out) \/ InterleaveFiles(path, other, out)
             \/ ReverseFile(path, out)
             \/ \E nums \in PageArgs :
                  \/ ExtractPages(path, nums, out) \/ ReorderPages(path, nums, out)
                  \/ DeletePages(path, nums, out) \/ RotatePages(path, nums, 90, out)
                  \/ \E offset \in OffsetArgs : CropPages(path, nums, offset, out)
                  \/ \E size \in SizeArgs : ResizePages(path, nums, size, out)
                  \/ \E type \in {"MediaBox", "CropBox"}, box \in BoxArgs :
                       SetPageBoxes(path, nums, type, box, out)
                  \/ \E position \in PositionArgs : AddStamp(path, nums, position, out)
             \/ \E position \in PositionArgs : AddBatesNumbers(path, 1, position, out)
             \/ \E entries \in EntryArgs :
                  GenerateToc(path, entries, out) \/ AddBookmarks(path, entries, out)
             \/ \E entries \in LabelArgs : SetPageLabels(path, entries, out)
  BY Zenon DEF Next
<1>2. ASSUME NEW dir \in Dirs, NEW ranges \in RangeArgs, Split(path, ranges, dir)
      PROVE  NavigationReadsBack'
  <2>1. Other("split")
    BY <1>2, Zenon DEF Split, Other
  <2> QED
    BY <2>1, OtherCalls
<1>3. ASSUME NEW other \in Named, NEW dirOf \in BatchDirs, NEW position \in PositionArgs,
             AddBatesToBatch(<<path, other>>, dirOf, 1, position)
      PROVE  NavigationReadsBack'
  <2>1. Other("batch")
    BY <1>3, Zenon DEF AddBatesToBatch, Other
  <2> QED
    BY <2>1, OtherCalls
<1>4. ASSUME NEW out \in Outputs, NEW other \in Named,
             Merge(<<path, other>>, out) \/ InterleaveFiles(path, other, out)
      PROVE  NavigationReadsBack'
  <2>1. Other("merge") \/ Other("interleave")
    BY <1>4, Zenon DEF Merge, InterleaveFiles, Call, Other
  <2> QED
    BY <2>1, OtherCalls
<1>5. ASSUME NEW out \in Outputs, ReverseFile(path, out) PROVE NavigationReadsBack'
  <2>1. Other("reverse")
    BY <1>5, Zenon DEF ReverseFile, PageCall, Call, Other
  <2> QED
    BY <2>1, OtherCalls
<1>6. ASSUME NEW out \in Outputs, NEW nums \in PageArgs,
             \/ ExtractPages(path, nums, out) \/ ReorderPages(path, nums, out)
             \/ DeletePages(path, nums, out) \/ RotatePages(path, nums, 90, out)
             \/ \E offset \in OffsetArgs : CropPages(path, nums, offset, out)
             \/ \E size \in SizeArgs : ResizePages(path, nums, size, out)
             \/ \E type \in {"MediaBox", "CropBox"}, box \in BoxArgs :
                  SetPageBoxes(path, nums, type, box, out)
             \/ \E position \in PositionArgs : AddStamp(path, nums, position, out)
      PROVE  NavigationReadsBack'
  <2>1. ExtractPages(path, nums, out) => Other("extract")
    BY Zenon DEF ExtractPages, PageCall, Call, Other
  <2>2. ReorderPages(path, nums, out) => Other("reorder")
    BY Zenon DEF ReorderPages, PageCall, Call, Other
  <2>3. DeletePages(path, nums, out) => Other("delete")
    BY Zenon DEF DeletePages, PageCall, Call, Other
  <2>4. RotatePages(path, nums, 90, out) => Other("rotate")
    BY Zenon DEF RotatePages, PageCall, Call, Other
  <2>5. ASSUME NEW offset, CropPages(path, nums, offset, out) PROVE Other("crop")
    BY <2>5, Zenon DEF CropPages, PageCall, Call, Other
  <2>6. ASSUME NEW size, ResizePages(path, nums, size, out) PROVE Other("resize")
    BY <2>6, Zenon DEF ResizePages, PageCall, Call, Other
  <2>7. ASSUME NEW type, NEW box, SetPageBoxes(path, nums, type, box, out) PROVE Other("boxes")
    BY <2>7, Zenon DEF SetPageBoxes, PageCall, Call, Other
  <2>8. ASSUME NEW position, AddStamp(path, nums, position, out) PROVE Other("stamp")
    BY <2>8, Zenon DEF AddStamp, PageCall, Call, Other
  <2> DEFINE Ops == {"extract", "reorder", "delete", "rotate", "crop", "resize", "boxes", "stamp"}
  <2>9. PICK op \in Ops : Other(op)
    <3> HIDE DEF Ops
    <3>1. /\ "extract" \in Ops /\ "reorder" \in Ops /\ "delete" \in Ops /\ "rotate" \in Ops
          /\ "crop" \in Ops /\ "resize" \in Ops /\ "boxes" \in Ops /\ "stamp" \in Ops
      BY DEF Ops
    <3> QED
      BY <1>6, <2>1, <2>2, <2>3, <2>4, <2>5, <2>6, <2>7, <2>8, <3>1, Zenon
  <2>10. op \notin {"bookmarks", "labels"}
    BY <2>9
  <2> QED
    BY <2>9, <2>10, OtherCalls
<1>7. ASSUME NEW out \in Outputs, NEW position \in PositionArgs,
             AddBatesNumbers(path, 1, position, out)
      PROVE  NavigationReadsBack'
  <2>1. Other("bates")
    BY <1>7, Zenon DEF AddBatesNumbers, PageCall, Call, Other
  <2> QED
    BY <2>1, OtherCalls
<1>8. ASSUME NEW out \in Outputs, NEW entries \in EntryArgs,
             GenerateToc(path, entries, out) \/ AddBookmarks(path, entries, out)
      PROVE  NavigationReadsBack'
  <2>1. GenerateToc(path, entries, out) => Other("toc")
    BY Zenon DEF GenerateToc, PageCall, Call, Other
  <2>2. Other("toc") => NavigationReadsBack'
    BY OtherCalls
  <2> QED
    BY <1>8, <2>1, <2>2, BookmarksReadBack
<1>9. ASSUME NEW out \in Outputs, NEW entries \in LabelArgs, SetPageLabels(path, entries, out)
      PROVE  NavigationReadsBack'
  BY <1>9, LabelsReadBack
<1> QED
  BY <1>1, <1>2, <1>3, <1>4, <1>5, <1>6, <1>7, <1>8, <1>9, Zenon

(* Whatever is called in whatever order on whatever is there, every file keeps a   *)
(* page and every page a media box that is no line or point; bookmarks and labels  *)
(* lead to pages; the numbers of a batch run on; no call but set_page_boxes puts a *)
(* crop box outside its media box; and labels and stamps lie inside the margins.   *)
THEOREM Invariance ==
  Spec => [](TypeOK /\ TargetsExist /\ BatchRunsOn /\ CropsStayInside /\ MarksOnPage)
<1> DEFINE Inv == TypeOK /\ TargetsExist /\ BatchRunsOn /\ CropsStayInside /\ MarksOnPage
<1>1. Init => Inv
  BY FirstFiles
<1>2. Inv /\ [Next]_vars => Inv'
  <2> SUFFICES ASSUME Inv, [Next]_vars PROVE Inv'
    OBVIOUS
  <2>1. Sound
    <3>1. CASE Next
      BY <3>1, EveryCall
    <3>2. CASE UNCHANGED vars
      BY <3>2, NothingChanged
    <3> QED
      BY <3>1, <3>2
  <2> QED
    BY <2>1 DEF Sound
<1> QED
  BY <1>1, <1>2, PTL DEF Spec

(* Every file there is has pages, and labels and bookmarks of the kind a reader    *)
(* finds: no call of core/ leaves a file without a page.                           *)
THEOREM TypeCorrect == Spec => []TypeOK
BY Invariance, PTL

(* Whatever is done to the pages, no bookmark and no label range points to a page  *)
(* that is not there (merger.py, toc.py and page_labels.py).                       *)
THEOREM TargetsKept == Spec => []TargetsExist
BY Invariance, PTL

(* A batch of Bates numbers is that of the merged files, read as it found them,    *)
(* unless two of its outputs are one path (bates.py).                              *)
THEOREM BatchNumbered == Spec => []BatchRunsOn
BY Invariance, PTL

(* Crop boxes that were inside their media boxes stay there through every call but *)
(* set_page_boxes, for every offset, size and order of calls (cropper.py).         *)
THEOREM CropsHold == Spec => []CropsStayInside
BY Invariance, PTL

(* A Bates label or stamp is inside the margins of every page that has room for it, *)
(* at all positions and for all sizes of page and text (bates.py, stamps.py).      *)
THEOREM MarksHold == Spec => []MarksOnPage
BY Invariance, PTL

(* The bookmarks add_bookmarks is given are read by extract_toc behind those that  *)
(* were there, all of them, in order, at the levels their surroundings give them;  *)
(* and label ranges are read as they were set (toc.py, page_labels.py).            *)
THEOREM NavigationHolds == Spec => []NavigationReadsBack
<1>1. Init => NavigationReadsBack
  <2>1. ASSUME Init PROVE last.op = "none"
    BY <2>1 DEF Init
  <2> QED
    BY <2>1 DEF NavigationReadsBack
<1>2. TypeOK /\ TargetsExist /\ NavigationReadsBack /\ [Next]_vars => NavigationReadsBack'
  <2>1. ASSUME NavigationReadsBack, UNCHANGED vars PROVE NavigationReadsBack'
    <3>1. files' = files /\ last' = last
      BY <2>1, Zenon DEF vars
    <3> QED
      BY <2>1, <3>1, Zenon DEF NavigationReadsBack
  <2> QED
    BY <2>1, Navigating
<1> QED
  BY <1>1, <1>2, TypeCorrect, TargetsKept, PTL DEF Spec

(* On all files any calls leave, split pieces merge back, interleaved pages keep   *)
(* their order and are all there, and what is not deleted stays in its order.      *)
THEOREM AlgebraAlways == Spec => []PageAlgebra
<1>1. TypeOK => PageAlgebra
  BY AlgebraHolds
<1> QED
  BY <1>1, TypeCorrect, PTL

(* Comparing two files any calls leave finds no difference only when there is none, *)
(* and finds the same pages the other way round (compare.py).                      *)
THEOREM ComparisonsAlways == Spec => []ComparisonsSound
<1>1. TypeOK => ComparisonsSound
  BY ComparisonsHold
<1> QED
  BY <1>1, TypeCorrect, PTL

=============================================================================
