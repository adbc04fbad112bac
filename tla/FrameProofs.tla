---------------------------- MODULE FrameProofs ----------------------------
(***************************************************************************)
(* Theorems about the frame of the dashboard, for any bars, any sequence   *)
(* of gestures and any number of visits: the chart (ChartView) with its    *)
(* algorithms, the router (PageRouter) and the grid of cards (CardLayout). *)
(***************************************************************************)
EXTENDS ChartView, PageRouter, CardLayout, FiniteSetTheorems, WellFoundedInduction, TLAPS

-----------------------------------------------------------------------------
(* The chart.  A window without a bar starts at 0, and so does the one a   *)
(* drag began with: that is what keeps a drag from an empty chart in       *)
(* bounds when bars have arrived meanwhile.                                *)
Window(from, to) == from \in Nat /\ to \in Nat /\ from <= to /\ (from = to => from = 0)

WindowInv ==
    /\ bars \in Seq(Int)
    /\ Window(i0, i1)
    /\ bars # <<>> => i0 < Len(bars)
    /\ Window(drag.i0, drag.i1)

LEMMA Bounds ==
    ASSUME NEW a \in Int, NEW b \in Int
    PROVE  /\ Least(a, b) \in Int /\ Least(a, b) <= a /\ Least(a, b) <= b
           /\ Greatest(a, b) \in Int /\ Greatest(a, b) >= a /\ Greatest(a, b) >= b
           /\ Least(a, b) = a \/ Least(a, b) = b
           /\ Greatest(a, b) = a \/ Greatest(a, b) = b
  BY DEF Least, Greatest

LEMMA FeedIsSeq ==
    ASSUME NEW b \in Feed
    PROVE  b \in Seq(Int)
<1>1. PICK first \in 0 .. LastTime : \E n \in 0 .. LastTime - first :
                  b = [k \in 1 .. n |-> first + k]
  BY DEF Feed
<1>0. PICK n \in 0 .. LastTime - first : b = [k \in 1 .. n |-> first + k]
  BY <1>1
<1>2. n \in Nat /\ first \in Int
  BY <1>0, <1>1, ChartAssumption
<1>3. \A k \in 1 .. n : first + k \in Int
  BY <1>2
<1> QED
  BY <1>0, <1>2, <1>3

LEMMA LenNat ==
    ASSUME NEW b \in Seq(Int)
    PROVE  Len(b) \in Nat /\ (b # <<>> <=> Len(b) # 0)
  OBVIOUS

(* The window at the newest bars. *)
LEMMA LastShown ==
    ASSUME NEW b \in Seq(Int), NEW n \in Nat \ {0}, ShowLast(b, n)
    PROVE  Window(i0', i1') /\ (b # <<>> => i0' < Len(b))
<1> DEFINE len == Len(b)
           slots == Least(len, n)
<1>1. len \in Nat /\ (b # <<>> <=> len # 0)
  BY LenNat
<1>2. i1' = len /\ i0' = Greatest(0, len - slots)
  BY DEF ShowLast
<1>3. slots \in Int /\ slots <= len /\ (slots = len \/ slots = n)
  BY <1>1, Bounds
<1> HIDE DEF len, slots
<1>4. i0' = len - slots
  BY <1>1, <1>2, <1>3 DEF Greatest
<1> QED
  BY <1>1, <1>2, <1>3, <1>4 DEF Window, len

(* A window of count bars put as near to n0 as the bars allow. *)
LEMMA Placed ==
    ASSUME NEW len \in Nat, NEW count \in Nat, NEW n0 \in Int,
           count = 0 => n0 = 0
    PROVE  LET from == Greatest(0, Least(len - count, n0))
           IN  Window(from, from + count) /\ (len # 0 => from < len)
<1> DEFINE lo == Least(len - count, n0)
           from == Greatest(0, lo)
<1>1. lo \in Int /\ lo <= len - count /\ lo <= n0
  BY Bounds
<1> HIDE DEF lo
<1>2. from \in Int /\ from >= 0 /\ (from = 0 \/ from = lo)
  BY <1>1, Bounds
<1> HIDE DEF from
<1>3. Window(from, from + count)
  BY <1>1, <1>2 DEF Window
<1>4. len # 0 => from < len
  BY <1>1, <1>2
<1> QED
  BY <1>3, <1>4 DEF from, lo

LEMMA WindowInit == ChartInit => WindowInv
  BY DEF ChartInit, WindowInv, Window, NoDrag

LEMMA SetDataKeeps ==
    ASSUME WindowInv, NEW b \in Feed, SetData(b)
    PROVE  WindowInv'
<1>1. b \in Seq(Int)
  BY FeedIsSeq
<1>2. bars' = b /\ ShowLast(b, DefCount) /\ drag' = drag
  BY DEF SetData
<1>3. Window(i0', i1') /\ (b # <<>> => i0' < Len(b))
  BY <1>1, <1>2, LastShown, ChartAssumption
<1> QED
  BY <1>1, <1>2, <1>3 DEF WindowInv, Window

LEMMA UpdateKeeps ==
    ASSUME WindowInv, NEW b \in Feed, bars # <<>>, bars' = b, UpdatedWindow(b), drag' = drag
    PROVE  WindowInv'
<1> DEFINE len == Len(b)
           old == Len(bars)
<1>1. b \in Seq(Int) /\ len \in Nat /\ old \in Nat \ {0} /\ (b # <<>> <=> len # 0)
  BY FeedIsSeq, LenNat DEF WindowInv
<1>2. i0 \in Nat /\ i1 \in Nat /\ i0 <= i1 /\ i0 < old
  BY DEF WindowInv, Window
<1>3. CASE i1 >= old
  <2>1. i1' = len /\ i0' = Greatest(0, len - Greatest(1, i1 - i0))
    BY <1>3 DEF UpdatedWindow
  <2> HIDE DEF len, old
  <2>2. Greatest(1, i1 - i0) = i1 - i0
    BY <1>1, <1>2, <1>3 DEF Greatest
  <2>3. i0' \in Nat /\ i0' <= len /\ (len # 0 => i0' < len) /\ (len = 0 => i0' = 0)
    BY <1>1, <1>2, <1>3, <2>1, <2>2 DEF Greatest
  <2> QED
    BY <1>1, <2>1, <2>3 DEF WindowInv, Window, len
<1>4. CASE i1 < old
  <2>1. i1' = Least(i1, len) /\ i0' = Greatest(0, Least(i0, i1' - 1))
    BY <1>1, <1>2, <1>4 DEF UpdatedWindow
  <2> HIDE DEF len, old
  <2>2. i1' \in Nat /\ i1' <= len
    BY <1>1, <1>2, <2>1 DEF Least
  <2>3. i0' \in Nat /\ i0' <= i1' /\ (len # 0 => i0' < len) /\ (i0' = i1' => i0' = 0)
    BY <1>1, <1>2, <2>1, <2>2 DEF Least, Greatest
  <2> QED
    BY <1>1, <2>2, <2>3 DEF WindowInv, Window, len
<1> QED
  BY <1>1, <1>2, <1>3, <1>4

LEMMA WheelKeeps ==
    ASSUME WindowInv, NEW in \in BOOLEAN, NEW at \in 0 .. 2, OnWheel(in, at)
    PROVE  WindowInv'
<1> DEFINE len == Len(bars)
           count == i1 - i0
           newCount == Greatest(MinZoom, Least(len, Zoomed(count, in)))
           n0 == (2 * i0 + at * (count - newCount) + 1) \div 2
<1>1. len \in Nat /\ i0 \in Nat /\ i1 \in Nat /\ count \in Int
  BY LenNat DEF WindowInv, Window
<1>2. Zoomed(count, in) \in Int
  BY <1>1 DEF Zoomed
<1>3. newCount \in Int /\ newCount >= MinZoom
  <2> DEFINE cap == Least(len, Zoomed(count, in))
  <2> HIDE DEF len, count
  <2>1. cap \in Int
    BY <1>1, <1>2, Bounds
  <2>2. MinZoom \in Int
    BY ChartAssumption
  <2> HIDE DEF cap
  <2>3. Greatest(MinZoom, cap) \in Int /\ Greatest(MinZoom, cap) >= MinZoom
    BY <2>1, <2>2, Bounds
  <2> QED
    BY <2>3 DEF cap
<1>4. newCount \in Nat \ {0}
  BY <1>3, ChartAssumption
<1>5. i0' = Greatest(0, Least(len - newCount, n0)) /\ i1' = i0' + newCount
  BY DEF OnWheel
<1>6. bars' = bars /\ drag' = drag
  BY DEF OnWheel
<1>7. n0 \in Int
  <2> HIDE DEF newCount, count
  <2>1. at * (count - newCount) \in Int
    BY <1>1, <1>4
  <2> QED
    BY <1>1, <2>1
<1> HIDE DEF newCount, n0, len
<1>8. Window(i0', i1') /\ (len # 0 => i0' < len)
  BY <1>1, <1>4, <1>5, <1>7, Placed
<1> QED
  BY <1>6, <1>8, LenNat DEF WindowInv, len

LEMMA DragKeeps ==
    ASSUME WindowInv, NEW shift \in Int, NEW slot, OnDrag(shift, slot)
    PROVE  WindowInv'
<1> DEFINE len == Len(bars)
           count == drag.i1 - drag.i0
           n0 == drag.i0 - (IF count = 0 THEN 0 ELSE shift)
<1>1. len \in Nat /\ count \in Nat /\ n0 \in Int /\ (count = 0 => n0 = 0)
  BY LenNat DEF WindowInv, Window
<1>2. i0' = Greatest(0, Least(len - count, n0)) /\ i1' = i0' + count
  BY DEF OnDrag
<1>3. bars' = bars /\ drag' = drag
  BY DEF OnDrag
<1> HIDE DEF count, n0, len
<1>4. Window(i0', i1') /\ (len # 0 => i0' < len)
  BY <1>1, <1>2, Placed
<1> QED
  BY <1>3, <1>4, LenNat DEF WindowInv, len

LEMMA WindowStep == WindowInv /\ [ChartNext]_chartVars => WindowInv'
<1> SUFFICES ASSUME WindowInv, [ChartNext]_chartVars
             PROVE  WindowInv'
  OBVIOUS
<1>1. ASSUME NEW b \in Feed, SetData(b)
      PROVE  WindowInv'
  BY <1>1, SetDataKeeps
<1>2. ASSUME NEW b \in Feed, Update(b)
      PROVE  WindowInv'
  BY <1>2, SetDataKeeps, UpdateKeeps DEF Update
<1>3. ASSUME NEW n \in {DefCount, LastTime}, SetVisibleCount(n)
      PROVE  WindowInv'
  BY <1>3, LastShown, ChartAssumption DEF SetVisibleCount, WindowInv
<1>4. ASSUME NEW in \in BOOLEAN, NEW at \in 0 .. 2, OnWheel(in, at)
      PROVE  WindowInv'
  BY <1>4, WheelKeeps
<1>5. CASE OnDown
  BY <1>5 DEF OnDown, WindowInv, Window
<1>6. CASE OnUp
  BY <1>6 DEF OnUp, WindowInv, Window, NoDrag
<1>7. ASSUME NEW slot, OnMove(slot)
      PROVE  WindowInv'
  BY <1>7 DEF OnMove, WindowInv, Window
<1>8. ASSUME NEW shift \in -LastTime .. LastTime, NEW slot, OnDrag(shift, slot)
      PROVE  WindowInv'
  BY <1>8, DragKeeps, ChartAssumption
<1>9. CASE OnLeave
  BY <1>9 DEF OnLeave, WindowInv, Window
<1>10. CASE Frame
  BY <1>10 DEF Frame, WindowInv, Window
<1>11. CASE UNCHANGED chartVars
  BY <1>11 DEF chartVars, WindowInv, Window
<1>12. ASSUME NEW ms, SetMarkers(ms)
       PROVE  WindowInv'
  BY <1>12 DEF SetMarkers, WindowInv, Window
<1> QED
  BY <1>1, <1>2, <1>3, <1>4, <1>5, <1>6, <1>7, <1>8, <1>9, <1>10, <1>11, <1>12 DEF ChartNext

(* Whatever polls, zooms and drags follow each other, the window starts on *)
(* a bar: chart.js:101-136, 382-411.                                       *)
THEOREM WindowStaysOnBars == ChartSpec => []WindowStartsOnBar
<1>1. WindowInv => WindowStartsOnBar
  BY DEF WindowInv, Window, WindowStartsOnBar
<1> QED
  BY <1>1, WindowInit, WindowStep, PTL DEF ChartSpec

(* A frame that is not due has nothing new to draw: every change of the    *)
(* bars, the window, the executions or the pointer asks for one.           *)
LEMMA FrameStep == FrameUpToDate /\ [ChartNext]_chartVars => FrameUpToDate'
<1> SUFFICES ASSUME FrameUpToDate, [ChartNext]_chartVars
             PROVE  FrameUpToDate'
  OBVIOUS
<1>1. ASSUME NEW b \in Feed, SetData(b) \/ Update(b)
      PROVE  FrameUpToDate'
  BY <1>1 DEF SetData, Update, Schedule, FrameUpToDate
<1>2. ASSUME NEW n, SetVisibleCount(n)
      PROVE  FrameUpToDate'
  BY <1>2 DEF SetVisibleCount, Schedule, FrameUpToDate
<1>3. ASSUME NEW in, NEW at, OnWheel(in, at)
      PROVE  FrameUpToDate'
  BY <1>3 DEF OnWheel, Schedule, FrameUpToDate
<1>4. CASE OnDown \/ OnUp \/ UNCHANGED chartVars
  BY <1>4 DEF OnDown, OnUp, chartVars, FrameUpToDate
<1>5. ASSUME NEW slot, OnMove(slot)
      PROVE  FrameUpToDate'
  BY <1>5 DEF OnMove, Schedule, FrameUpToDate
<1>6. ASSUME NEW shift, NEW slot, OnDrag(shift, slot)
      PROVE  FrameUpToDate'
  BY <1>6 DEF OnDrag, Schedule, FrameUpToDate
<1>7. CASE OnLeave
  BY <1>7 DEF OnLeave, Schedule, FrameUpToDate
<1>8. CASE Frame
  BY <1>8 DEF Frame, FrameUpToDate
<1>9. ASSUME NEW ms, SetMarkers(ms)
      PROVE  FrameUpToDate'
  BY <1>9 DEF SetMarkers, Schedule, FrameUpToDate
<1> QED
  BY <1>1, <1>2, <1>3, <1>4, <1>5, <1>6, <1>7, <1>8, <1>9 DEF ChartNext

(* The canvas is never behind without a frame on its way: chart.js:159-162.*)
THEOREM CanvasFollows == ChartSpec => []FrameUpToDate
<1>1. ChartInit => FrameUpToDate
  BY DEF ChartInit, FrameUpToDate
<1> QED
  BY <1>1, FrameStep, PTL DEF ChartSpec

-----------------------------------------------------------------------------
(* Induction over the natural numbers, of a set instead of a predicate:    *)
(* the well-founded order of the library gives a least counterexample.     *)
LEMMA SetInduction ==
    ASSUME NEW S, 0 \in S, \A n \in Nat : n \in S => n + 1 \in S
    PROVE  Nat \subseteq S
<1> SUFFICES ASSUME Nat \ S # {} PROVE FALSE
  OBVIOUS
<1>1. \E x \in Nat \ S : \A y \in Nat \ S : ~(<<y, x>> \in OpToRel(<, Nat))
  BY WFMin, NatLessThanWellFounded
<1>2. PICK x \in Nat \ S : \A y \in Nat \ S : ~(<<y, x>> \in OpToRel(<, Nat))
  BY <1>1
<1>0. x \in Nat /\ x \notin S
  BY <1>2
<1>a. x # 0
  BY <1>0
<1>3. x # 0 /\ x - 1 \in Nat
  BY <1>0, <1>a
<1>4. <<x - 1, x>> \in OpToRel(<, Nat)
  BY <1>3, <1>2 DEF OpToRel
<1>5. x - 1 \in S
  BY <1>2, <1>3, <1>4
<1>6. (x - 1) + 1 = x
  BY <1>0
<1> QED
  BY <1>0, <1>3, <1>5, <1>6


LEMMA Interval == \A n \in Nat : Cardinality(1 .. n) = n
<1> SUFFICES ASSUME NEW n \in Nat PROVE Cardinality(1 .. n) = n
  OBVIOUS
<1>1. Cardinality(1 .. n) = IF 1 > n THEN 0 ELSE n - 1 + 1
  BY FS_Interval
<1> QED
  BY <1>1

-----------------------------------------------------------------------------
(* The binary search.  In a sorted sequence the values up to t are the     *)
(* first c ones.                                                           *)
Sorted(s) == \A i, j \in DOMAIN s : i < j => s[i] < s[j]
Below(s, t, c) == \A i \in 1 .. Len(s) : s[i] <= t <=> i <= c

LEMMA BelowIsPrefix ==
    ASSUME NEW n \in Nat, NEW s \in [1 .. n -> Int], NEW t \in Int, Sorted(s)
    PROVE  \E c \in 0 .. n : \A i \in 1 .. n : s[i] <= t <=> i <= c
<1> DEFINE Cut(k) == \E c \in 0 .. k : \A i \in 1 .. k : s[i] <= t <=> i <= c
           S == {k \in Nat : k <= n => Cut(k)}
<1>1. 0 \in S
  OBVIOUS
<1>2. ASSUME NEW k \in Nat, k \in S
      PROVE  k + 1 \in S
  <2> SUFFICES ASSUME k + 1 <= n PROVE Cut(k + 1)
    OBVIOUS
  <2>1. PICK c \in 0 .. k : \A i \in 1 .. k : s[i] <= t <=> i <= c
    BY <1>2
  <2>2. CASE s[k + 1] <= t
    <3>1. \A i \in 1 .. k : s[i] < s[k + 1] /\ s[i] \in Int /\ s[k + 1] \in Int
      BY DEF Sorted
    <3>2. \A i \in 1 .. k + 1 : s[i] <= t <=> i <= k + 1
      BY <2>2, <3>1
    <3> QED
      BY <3>2
  <2>3. CASE ~(s[k + 1] <= t)
    <3>1. \A i \in 1 .. k + 1 : s[i] <= t <=> i <= c
      BY <2>1, <2>3
    <3>2. c \in 0 .. k + 1
      OBVIOUS
    <3> QED
      BY <3>1, <3>2
  <2> QED
    BY <2>2, <2>3
<1>3. n \in S
  <2> HIDE DEF S
  <2> QED
    BY <1>1, <1>2, SetInduction
<1> QED
  BY <1>3

Windows(n) == [lo: 0 .. n, hi: -1 .. n - 1, best: -1 .. n - 1]

(* Equation of the search, and what it finds from a window on. *)
Halving(s, t, w, f) ==
    LET m == (w.lo + w.hi) \div 2
    IN  IF w.lo > w.hi THEN w.best
        ELSE IF s[m + 1] <= t THEN f[[w EXCEPT !.lo = m + 1, !.best = m]]
        ELSE f[[w EXCEPT !.hi = m - 1]]

Found(w, c) ==
    IF c - 1 < w.lo \/ w.lo > w.hi THEN w.best
    ELSE IF c - 1 > w.hi THEN w.hi ELSE c - 1

(* The halves are windows, shorter than the whole. *)
LEMMA Halves ==
    ASSUME NEW n \in Nat, NEW w \in Windows(n), w.lo <= w.hi
    PROVE  LET m == (w.lo + w.hi) \div 2
               right == [w EXCEPT !.lo = m + 1, !.best = m]
               left == [w EXCEPT !.hi = m - 1]
           IN  /\ m \in w.lo .. w.hi /\ m + 1 \in 1 .. n
               /\ right \in Windows(n)
               /\ right.lo = m + 1 /\ right.hi = w.hi /\ right.best = m
               /\ left \in Windows(n)
               /\ left.lo = w.lo /\ left.hi = m - 1 /\ left.best = w.best
<1> DEFINE m == (w.lo + w.hi) \div 2
<1>1. w.lo \in 0 .. n /\ w.hi \in -1 .. n - 1
  BY DEF Windows
<1>2. m \in w.lo .. w.hi
  BY <1>1
<1> HIDE DEF m
<1>3. m \in 0 .. n - 1 /\ m + 1 \in 1 .. n
  BY <1>1, <1>2
<1>4. m \in -1 .. n - 1 /\ m + 1 \in 0 .. n /\ m - 1 \in -1 .. n - 1
  BY <1>3
<1> QED
  BY <1>2, <1>3, <1>4 DEF Windows, m

LEMMA FoundHalving ==
    ASSUME NEW n \in Nat, NEW s \in [1 .. n -> Int], Len(s) = n, NEW t \in Int,
           NEW c \in 0 .. n, Below(s, t, c), NEW w \in Windows(n), NEW f,
           \A v \in Windows(n) : v.hi - v.lo < w.hi - w.lo => f[v] = Found(v, c)
    PROVE  Halving(s, t, w, f) = Found(w, c)
<1> DEFINE m == (w.lo + w.hi) \div 2
           right == [w EXCEPT !.lo = m + 1, !.best = m]
           left == [w EXCEPT !.hi = m - 1]
<1>1. w.lo \in Int /\ w.hi \in Int /\ w.best \in Int
  BY DEF Windows
<1>2. CASE w.lo > w.hi
  BY <1>1, <1>2 DEF Halving, Found
<1>3. CASE w.lo <= w.hi
  <2>1. /\ m \in w.lo .. w.hi /\ m + 1 \in 1 .. n
        /\ right \in Windows(n)
        /\ right.lo = m + 1 /\ right.hi = w.hi /\ right.best = m
        /\ left \in Windows(n)
        /\ left.lo = w.lo /\ left.hi = m - 1 /\ left.best = w.best
    BY <1>3, Halves
  <2>2. Halving(s, t, w, f) = IF s[m + 1] <= t THEN f[right] ELSE f[left]
    BY <1>1, <1>3 DEF Halving
  <2> HIDE DEF m, right, left
  <2>3. m \in Int
    BY <1>1, <2>1
  <2>4. s[m + 1] <= t <=> m + 1 <= c
    BY <2>1 DEF Below
  <2>5. f[right] = Found(right, c) /\ f[left] = Found(left, c)
    BY <1>1, <2>1, <2>3
  <2>6. CASE m + 1 <= c
    <3>1. Halving(s, t, w, f) =
             IF c - 1 < m + 1 \/ m + 1 > w.hi THEN m
             ELSE IF c - 1 > w.hi THEN w.hi ELSE c - 1
      BY <2>1, <2>2, <2>4, <2>5, <2>6 DEF Found
    <3>2. c \in Int /\ m >= w.lo /\ m <= w.hi /\ c - 1 >= m
      BY <1>1, <2>1, <2>3, <2>6
    <3>3. Found(w, c) = IF c - 1 > w.hi THEN w.hi ELSE c - 1
      BY <1>1, <1>3, <2>3, <3>2 DEF Found
    <3>4. CASE m + 1 > w.hi
      <4>1. m = w.hi
        BY <1>1, <2>3, <3>2, <3>4
      <4> QED
        BY <1>1, <2>3, <3>1, <3>2, <3>3, <3>4, <4>1
    <3>5. CASE ~(m + 1 > w.hi)
      BY <1>1, <2>3, <3>1, <3>2, <3>3, <3>5
    <3> QED
      BY <3>4, <3>5
  <2>7. CASE ~(m + 1 <= c)
    BY <1>1, <1>3, <2>1, <2>2, <2>3, <2>4, <2>5, <2>7 DEF Found
  <2> QED
    BY <2>6, <2>7
<1> QED
  BY <1>1, <1>2, <1>3

(* The search has a solution, and only this one. *)
LEMMA SearchIs ==
    ASSUME NEW n \in Nat, NEW s \in [1 .. n -> Int], Len(s) = n, NEW t \in Int,
           NEW c \in 0 .. n, Below(s, t, c), NEW w \in Windows(n),
           NEW f, f = [v \in Windows(n) |-> Halving(s, t, v, f)]
    PROVE  f[w] = Found(w, c)
<1> DEFINE S == {k \in Nat : \A v \in Windows(n) : v.hi - v.lo < k - 1 => f[v] = Found(v, c)}
<1>0. \A v \in Windows(n) : v.lo \in 0 .. n /\ v.hi \in -1 .. n - 1
  BY DEF Windows
<1>1. 0 \in S
  <2> SUFFICES ASSUME NEW v \in Windows(n), v.hi - v.lo < 0 - 1
               PROVE  f[v] = Found(v, c)
    OBVIOUS
  <2>1. f[v] = Halving(s, t, v, f)
    OBVIOUS
  <2>2. v.lo > v.hi
    BY <1>0
  <2> QED
    BY <2>1, <2>2 DEF Halving, Found
<1>2. ASSUME NEW k \in Nat, k \in S
      PROVE  k + 1 \in S
  <2> SUFFICES ASSUME NEW v \in Windows(n), v.hi - v.lo < k + 1 - 1
               PROVE  f[v] = Found(v, c)
    OBVIOUS
  <2>1. \A u \in Windows(n) : u.hi - u.lo < v.hi - v.lo => f[u] = Found(u, c)
    BY <1>0, <1>2
  <2> QED
    BY <2>1, FoundHalving
<1> HIDE DEF S
<1>3. Nat \subseteq S
  BY <1>1, <1>2, SetInduction
<1>4. n + 2 \in S /\ w.hi - w.lo < n + 2 - 1
  BY <1>0, <1>3
<1> QED
  BY <1>4 DEF S

LEMMA BarIndexIs ==
    ASSUME NEW n \in Nat, NEW s \in [1 .. n -> Int], Len(s) = n, NEW t \in Int, Sorted(s)
    PROVE  BarIndexAt(s, t) = Cardinality({i \in DOMAIN s : s[i] <= t}) - 1
<1>1. PICK c \in 0 .. n : \A i \in 1 .. n : s[i] <= t <=> i <= c
  BY BelowIsPrefix
<1>2. Below(s, t, c)
  BY <1>1 DEF Below
<1> DEFINE Solves(f) == f = [v \in Windows(n) |-> Halving(s, t, v, f)]
           g == [v \in Windows(n) |-> Found(v, c)]
           h == CHOOSE f : Solves(f)
           all == [lo |-> 0, hi |-> Len(s) - 1, best |-> -1]
<1>3. Solves(g)
  <2>1. \A v \in Windows(n) : g[v] = Found(v, c)
    OBVIOUS
  <2> HIDE DEF g
  <2>2. ASSUME NEW v \in Windows(n)
        PROVE  Halving(s, t, v, g) = Found(v, c)
    <3>1. \A u \in Windows(n) : u.hi - u.lo < v.hi - v.lo => g[u] = Found(u, c)
      BY <2>1
    <3> QED
      BY <1>2, <3>1, FoundHalving
  <2> QED
    BY <2>2 DEF g
<1>4. Solves(h)
  <2> HIDE DEF Solves
  <2> QED
    BY <1>3
<1>5. BarIndexAt(s, t) = h[all]
  BY DEF BarIndexAt, Halving, Windows
<1>6. all \in Windows(n)
  BY DEF Windows
<1>7. h[all] = Found(all, c)
  <2> HIDE DEF h, all
  <2> QED
    BY <1>2, <1>4, <1>6, SearchIs
<1>8. Found(all, c) = c - 1
  BY DEF Found
<1>9. {i \in DOMAIN s : s[i] <= t} = 1 .. c
  BY <1>1
<1>10. Cardinality(1 .. c) = c
  BY Interval
<1> QED
  BY <1>5, <1>7, <1>8, <1>9, <1>10

-----------------------------------------------------------------------------
(* The running sums.  Sums of the first values exist; both the running sum *)
(* and the sum of a stretch are differences of them.                       *)
Sums(n, s, f) == f \in [0 .. n -> Int] /\ f[0] = 0 /\ \A i \in 1 .. n : f[i] = f[i - 1] + s[i]

LEMMA SumsExist ==
    ASSUME NEW n \in Nat, NEW s \in [1 .. n -> Int]
    PROVE  \E f : Sums(n, s, f)
<1> DEFINE Upto(k) == \E f : Sums(k, s, f)
           S == {k \in Nat : k <= n => Upto(k)}
<1>1. 0 \in S
  <2>1. Sums(0, s, [i \in 0 .. 0 |-> 0])
    BY DEF Sums
  <2> QED
    BY <2>1
<1>2. ASSUME NEW k \in Nat, k \in S
      PROVE  k + 1 \in S
  <2> SUFFICES ASSUME k + 1 <= n PROVE Upto(k + 1)
    OBVIOUS
  <2>1. PICK f : Sums(k, s, f)
    BY <1>2
  <2> DEFINE g == [i \in 0 .. k + 1 |-> IF i = k + 1 THEN f[k] + s[k + 1] ELSE f[i]]
  <2>2. s[k + 1] \in Int /\ f[k] \in Int /\ \A i \in 0 .. k : f[i] \in Int
    BY <2>1 DEF Sums
  <2>3. g \in [0 .. k + 1 -> Int] /\ g[0] = 0
    BY <2>1, <2>2 DEF Sums
  <2>4. ASSUME NEW i \in 1 .. k + 1 PROVE g[i] = g[i - 1] + s[i]
    <3>1. CASE i = k + 1
      BY <3>1
    <3>2. CASE i # k + 1
      <4>1. i \in 1 .. k /\ i - 1 \in 0 .. k
        BY <3>2
      <4> QED
        BY <2>1, <4>1 DEF Sums
    <3> QED
      BY <3>1, <3>2
  <2>5. Sums(k + 1, s, g)
    BY <2>3, <2>4 DEF Sums
  <2> QED
    BY <2>5
<1>3. n \in S
  <2> HIDE DEF S
  <2> QED
    BY <1>1, <1>2, SetInduction
<1> QED
  BY <1>3

(* Equations of the running sum and of the sum of the last p values. *)
Running(s, p, f, i) ==
    IF i = 0 THEN 0 ELSE f[i - 1] + s[i] - (IF i > p THEN s[i - p] ELSE 0)
Total(s, p, i, f, k) == IF k <= i - p THEN 0 ELSE f[k - 1] + s[k]

RunSolves(n, s, p, f) == f = [i \in 0 .. n |-> Running(s, p, f, i)]
TotalSolves(s, p, i, f) == f = [k \in 0 .. i |-> Total(s, p, i, f, k)]
RunSum(n, s, p) == CHOOSE f : RunSolves(n, s, p, f)
TotalSum(s, p, i) == CHOOSE f : TotalSolves(s, p, i, f)

LEMMA RunningIs ==
    ASSUME NEW n \in Nat, NEW s \in [1 .. n -> Int], NEW p \in 1 .. n, NEW P, Sums(n, s, P)
    PROVE  \A i \in p .. n : RunSum(n, s, p)[i] = P[i] - P[i - p]
<1> DEFINE h == RunSum(n, s, p)
           At(i) == P[i] - (IF i > p THEN P[i - p] ELSE 0)
           g == [i \in 0 .. n |-> At(i)]
<1>1. ASSUME NEW i \in 1 .. n
      PROVE  At(i) = At(i - 1) + s[i] - (IF i > p THEN s[i - p] ELSE 0)
  <2>0. s[i] \in Int /\ P[i] \in Int /\ P[i - 1] \in Int /\ P[i] = P[i - 1] + s[i] /\ P[0] = 0
    BY DEF Sums
  <2>1. CASE i > p
    <3>1. i - p \in 1 .. n /\ i - p - 1 \in 0 .. n /\ i - 1 - p = i - p - 1
      BY <2>1
    <3>2. s[i - p] \in Int /\ P[i - p] \in Int /\ P[i - p - 1] \in Int
          /\ P[i - p] = P[i - p - 1] + s[i - p]
      BY <3>1 DEF Sums
    <3>3. CASE i - 1 > p
      <4>1. At(i - 1) = P[i - 1] - P[i - p - 1]
        BY <3>1, <3>3
      <4>2. At(i) = P[i] - P[i - p]
        BY <2>1
      <4>3. P[i] - P[i - p] = P[i - 1] - P[i - p - 1] + s[i] - s[i - p]
        <5> DEFINE a == P[i]        a1 == P[i - 1]      x == s[i]
                   b == P[i - p]    b1 == P[i - p - 1]  y == s[i - p]
        <5>1. a \in Int /\ a1 \in Int /\ x \in Int /\ a = a1 + x
          BY <2>0
        <5>2. b \in Int /\ b1 \in Int /\ y \in Int /\ b = b1 + y
          BY <3>2
        <5> HIDE DEF a, a1, x, b, b1, y
        <5>3. a - b = a1 - b1 + x - y
          BY <5>1, <5>2
        <5> QED
          BY <5>3 DEF a, a1, x, b, b1, y
      <4> HIDE DEF At
      <4> QED
        BY <2>1, <4>1, <4>2, <4>3
    <3>4. CASE i - 1 = p
      BY <2>0, <2>1, <3>1, <3>2, <3>4
    <3> QED
      BY <2>1, <3>3, <3>4
  <2>2. CASE ~(i > p)
    BY <2>0, <2>2
  <2> QED
    BY <2>1, <2>2
<1>2. At(0) = 0
  BY DEF Sums
<1>3. RunSolves(n, s, p, g)
  <2>1. \A i \in 0 .. n : g[i] = At(i)
    OBVIOUS
  <2> HIDE DEF At
  <2>2. ASSUME NEW i \in 0 .. n PROVE At(i) = Running(s, p, g, i)
    <3>1. CASE i = 0
      BY <1>2, <3>1 DEF Running
    <3>2. CASE i # 0
      <4>1. i \in 1 .. n /\ i - 1 \in 0 .. n
        BY <3>2
      <4> QED
        BY <1>1, <2>1, <3>2, <4>1 DEF Running
    <3> QED
      BY <3>1, <3>2
  <2> HIDE DEF g
  <2> QED
    BY <2>2 DEF RunSolves, g
<1>4. RunSolves(n, s, p, h)
  <2> HIDE DEF g
  <2> QED
    BY <1>3 DEF RunSum
<1> DEFINE S == {k \in Nat : k <= n => h[k] = At(k)}
<1> HIDE DEF h, At
<1>5. \A i \in 0 .. n : h[i] = Running(s, p, h, i)
  BY <1>4 DEF RunSolves
<1>6. 0 \in S
  BY <1>2, <1>5 DEF Running
<1>7. ASSUME NEW k \in Nat, k \in S
      PROVE  k + 1 \in S
  <2> SUFFICES ASSUME k + 1 <= n PROVE h[k + 1] = At(k + 1)
    OBVIOUS
  <2>1. h[k + 1] = h[k] + s[k + 1] - (IF k + 1 > p THEN s[k + 1 - p] ELSE 0)
    BY <1>5 DEF Running
  <2>2. h[k] = At(k)
    BY <1>7
  <2>3. k + 1 \in 1 .. n /\ k + 1 - 1 = k
    OBVIOUS
  <2> QED
    BY <1>1, <2>1, <2>2, <2>3
<1>8. Nat \subseteq S
  <2> HIDE DEF S
  <2> QED
    BY <1>6, <1>7, SetInduction
<1>9. ASSUME NEW i \in p .. n PROVE h[i] = P[i] - P[i - p]
  <2>1. h[i] = At(i)
    BY <1>8
  <2>2. P[0] = 0 /\ (i > p \/ i - p = 0)
    BY DEF Sums
  <2> QED
    BY <2>1, <2>2 DEF At
<1> QED
  BY <1>9 DEF h

LEMMA TotalIs ==
    ASSUME NEW n \in Nat, NEW s \in [1 .. n -> Int], NEW p \in 1 .. n, NEW P, Sums(n, s, P),
           NEW i \in p .. n
    PROVE  TotalSum(s, p, i)[i] = P[i] - P[i - p]
<1> DEFINE h == TotalSum(s, p, i)
           At(k) == IF k <= i - p THEN 0 ELSE P[k] - P[i - p]
           g == [k \in 0 .. i |-> At(k)]
<1>0. i \in Nat /\ i - p \in 0 .. n /\ P[i - p] \in Int
  BY DEF Sums
<1>1. ASSUME NEW k \in 1 .. i, ~(k <= i - p)
      PROVE  At(k) = At(k - 1) + s[k]
  <2>0. s[k] \in Int /\ P[k] \in Int /\ P[k - 1] \in Int /\ P[k] = P[k - 1] + s[k]
    BY DEF Sums
  <2>1. CASE k - 1 <= i - p
    <3>1. k - 1 = i - p
      BY <1>1, <2>1
    <3> QED
      BY <1>0, <1>1, <2>0, <2>1, <3>1
  <2>2. CASE ~(k - 1 <= i - p)
    BY <1>0, <1>1, <2>0, <2>2
  <2> QED
    BY <2>1, <2>2
<1>2. \A k \in 0 .. i : k <= i - p => At(k) = 0
  OBVIOUS
<1>3. TotalSolves(s, p, i, g)
  <2>1. \A k \in 0 .. i : g[k] = At(k)
    OBVIOUS
  <2> HIDE DEF At
  <2>2. ASSUME NEW k \in 0 .. i PROVE At(k) = Total(s, p, i, g, k)
    <3>1. CASE k <= i - p
      BY <1>2, <3>1 DEF Total
    <3>2. CASE ~(k <= i - p)
      <4>1. k \in 1 .. i /\ k - 1 \in 0 .. i
        BY <1>0, <3>2
      <4> QED
        BY <1>1, <2>1, <3>2, <4>1 DEF Total
    <3> QED
      BY <3>1, <3>2
  <2> HIDE DEF g
  <2> QED
    BY <2>2 DEF TotalSolves, g
<1>4. TotalSolves(s, p, i, h)
  <2> HIDE DEF g
  <2> QED
    BY <1>3 DEF TotalSum
<1> DEFINE S == {k \in Nat : k <= i => h[k] = At(k)}
<1> HIDE DEF h, At
<1>5. \A k \in 0 .. i : h[k] = Total(s, p, i, h, k)
  BY <1>4 DEF TotalSolves
<1>6. 0 \in S
  BY <1>0, <1>2, <1>5 DEF Total
<1>7. ASSUME NEW k \in Nat, k \in S
      PROVE  k + 1 \in S
  <2> SUFFICES ASSUME k + 1 <= i PROVE h[k + 1] = At(k + 1)
    OBVIOUS
  <2>0. k + 1 \in 1 .. i /\ k + 1 \in 0 .. i /\ k + 1 - 1 = k
    BY <1>0
  <2>1. h[k + 1] = IF k + 1 <= i - p THEN 0 ELSE h[k] + s[k + 1]
    BY <1>5, <2>0 DEF Total
  <2>2. h[k] = At(k)
    BY <1>0, <1>7
  <2> QED
    BY <1>1, <1>2, <2>0, <2>1, <2>2
<1>8. i \in S
  <2> HIDE DEF S
  <2> QED
    BY <1>0, <1>6, <1>7, SetInduction
<1>9. h[i] = At(i) /\ ~(i <= i - p)
  BY <1>8, <1>0
<1> QED
  BY <1>9 DEF At, h

LEMMA RunningSumIs ==
    ASSUME NEW n \in Nat, NEW s \in [1 .. n -> Int], Len(s) = n, NEW p \in 1 .. n,
           NEW i \in p .. n
    PROVE  LET total[k \in 0 .. i] == IF k <= i - p THEN 0 ELSE total[k - 1] + s[k]
           IN  RunningSum(s, p)[i] = total[i]
<1>1. PICK P : Sums(n, s, P)
  BY SumsExist
<1>2. TotalSum(s, p, i)[i] = P[i] - P[i - p]
  BY <1>1, TotalIs
<1>3. RunSum(n, s, p)[i] = P[i] - P[i - p]
  BY <1>1, RunningIs
<1>4. RunningSum(s, p)[i] = RunSum(n, s, p)[i]
  <2>1. RunningSum(s, p) = [k \in {j \in 1 .. Len(s) : j >= p} |-> RunSum(n, s, p)[k]]
    BY DEF RunningSum, RunSum, RunSolves, Running
  <2> QED
    BY <2>1
<1>5. RunningSum(s, p)[i] = TotalSum(s, p, i)[i]
  BY <1>2, <1>3, <1>4
<1> QED
  BY <1>5 DEF TotalSum, TotalSolves, Total

LEMMA AlgorithmsRight == bars \in Seq(Int) => ChartAlgorithms
<1> SUFFICES ASSUME bars \in Seq(Int) PROVE ChartAlgorithms
  OBVIOUS
<1> DEFINE n == Len(bars)
<1>1. n \in Nat /\ DOMAIN bars = 1 .. n
  OBVIOUS
<1>2. LastTime \in Nat
  BY ChartAssumption
<1> HIDE DEF n
<1>3. ASSUME NEW s \in [DOMAIN bars -> 1 .. LastTime + 2], NEW t \in 0 .. LastTime + 3,
             \A i, j \in DOMAIN s : i < j => s[i] < s[j]
      PROVE  BarIndexAt(s, t) = Cardinality({i \in DOMAIN s : s[i] <= t}) - 1
  <2>1. s \in [1 .. n -> Int] /\ t \in Int
    BY <1>1, <1>2
  <2>2. Len(s) = n
    BY <1>1, <2>1
  <2>3. Sorted(s)
    BY <1>3 DEF Sorted
  <2> QED
    BY <1>1, <2>1, <2>2, <2>3, BarIndexIs
<1>4. ASSUME NEW s \in [DOMAIN bars -> 0 .. 2], NEW p \in DOMAIN bars, NEW i \in p .. Len(bars)
      PROVE  LET total[k \in 0 .. i] == IF k <= i - p THEN 0 ELSE total[k - 1] + s[k]
             IN  RunningSum(s, p)[i] = total[i]
  <2>1. s \in [1 .. n -> Int] /\ p \in 1 .. n /\ i \in p .. n
    BY <1>1 DEF n
  <2>2. Len(s) = n
    BY <1>1, <2>1
  <2> QED
    BY <1>1, <2>1, <2>2, RunningSumIs
<1> QED
  BY <1>3, <1>4 DEF ChartAlgorithms
(* At every moment the bar an execution is drawn at is the last one that   *)
(* opened before it, and a moving average is the one of the last p values: *)
(* chart.js:21-30, 150-157.  BarIndexIs and RunningSumIs say so of every   *)
(* sorted sequence and of every sequence of integers.                      *)
THEOREM AlgorithmsAgree == ChartSpec => []ChartAlgorithms
<1>1. WindowInv => ChartAlgorithms
  BY AlgorithmsRight DEF WindowInv
<1> QED
  BY <1>1, WindowInit, WindowStep, PTL DEF ChartSpec

(* The shapes of the chart's variables. *)
LEMMA ChartTypeInit == ChartInit => ChartTypeOK
<1>1. <<>> \in Feed
  <2>1. 0 \in 0 .. LastTime /\ 0 \in 0 .. LastTime - 0
    BY ChartAssumption
  <2>2. <<>> = [k \in 1 .. 0 |-> 0 + k]
    OBVIOUS
  <2> QED
    BY <2>1, <2>2 DEF Feed
<1> SUFFICES ASSUME ChartInit PROVE ChartTypeOK
  OBVIOUS
<1>2. bars \in Feed /\ raf \in BOOLEAN /\ cursor \in Nat \cup {NoCursor}
  BY <1>1 DEF ChartInit
<1>3. i0 \in Nat /\ i1 \in Nat /\ drag \in [on: BOOLEAN, i0: Nat, i1: Nat]
  BY DEF ChartInit, NoDrag
<1>4. chartMarks \in SUBSET MarkTimes
  BY DEF ChartInit
<1> QED
  BY <1>2, <1>3, <1>4 DEF ChartTypeOK

LEMMA ChartTypeStep ==
    WindowInv /\ WindowInv' /\ ChartTypeOK /\ [ChartNext]_chartVars => ChartTypeOK'
<1> SUFFICES ASSUME WindowInv, WindowInv', ChartTypeOK, [ChartNext]_chartVars
             PROVE  ChartTypeOK'
  OBVIOUS
<1>1. i0' \in Nat /\ i1' \in Nat
  BY DEF WindowInv, Window
<1>2. ASSUME NEW b \in Feed, SetData(b) \/ Update(b)
      PROVE  ChartTypeOK'
  BY <1>1, <1>2 DEF SetData, Update, Schedule, ChartTypeOK
<1>3. ASSUME NEW n, SetVisibleCount(n)
      PROVE  ChartTypeOK'
  BY <1>1, <1>3 DEF SetVisibleCount, Schedule, ChartTypeOK
<1>4. ASSUME NEW in, NEW at, OnWheel(in, at)
      PROVE  ChartTypeOK'
  BY <1>1, <1>4 DEF OnWheel, Schedule, ChartTypeOK
<1>5. CASE OnDown
  BY <1>1, <1>5 DEF OnDown, ChartTypeOK
<1>6. CASE OnUp
  BY <1>1, <1>6 DEF OnUp, NoDrag, ChartTypeOK
<1>7. ASSUME NEW slot \in PointedSlots, OnMove(slot)
      PROVE  ChartTypeOK'
  BY <1>1, <1>7, ChartAssumption DEF OnMove, Schedule, ChartTypeOK
<1>8. ASSUME NEW shift, NEW slot \in PointedSlots, OnDrag(shift, slot)
      PROVE  ChartTypeOK'
  <2>1. drag' = drag /\ bars' = bars /\ chartMarks' = chartMarks
    BY <1>8 DEF OnDrag, Schedule
  <2>2. cursor' \in Nat \cup {NoCursor} /\ raf' \in BOOLEAN
    BY <1>8, ChartAssumption DEF OnDrag, Schedule, ChartTypeOK
  <2> QED
    BY <1>1, <2>1, <2>2 DEF ChartTypeOK
<1>9. CASE OnLeave
  BY <1>1, <1>9 DEF OnLeave, Schedule, ChartTypeOK
<1>10. CASE Frame
  BY <1>1, <1>10 DEF Frame, ChartTypeOK
<1>11. CASE UNCHANGED chartVars
  BY <1>11 DEF chartVars, ChartTypeOK
<1>12. ASSUME NEW ms \in SUBSET MarkTimes, SetMarkers(ms)
       PROVE  ChartTypeOK'
  BY <1>1, <1>12 DEF SetMarkers, Schedule, ChartTypeOK
<1> QED
  BY <1>2, <1>3, <1>4, <1>5, <1>6, <1>7, <1>8, <1>9, <1>10, <1>11, <1>12 DEF ChartNext

-----------------------------------------------------------------------------
(* The router.  The list holds every interval that runs, the ones included *)
(* that a page registered late.                                            *)
AllListed == live \subseteq listed

LEMMA ListedInit == RouterInit => AllListed
  BY DEF RouterInit, AllListed

LEMMA ListedStep == AllListed /\ [RouterNext]_routerVars => AllListed'
<1> SUFFICES ASSUME AllListed, [RouterNext]_routerVars
             PROVE  AllListed'
  OBVIOUS
<1> USE DEF AllListed
<1>1. CASE RenderPanels
  BY <1>1 DEF RenderPanels, AddTimer, Cleared
<1>2. CASE RenderPage
  BY <1>2 DEF RenderPage, Cleared
<1>3. ASSUME NEW v \in Visit, PageRendered(v)
      PROVE  AllListed'
  BY <1>3 DEF PageRendered, AddTimer
<1>4. ASSUME NEW v \in Visit, PageFails(v) \/ Tick(v)
      PROVE  AllListed'
  BY <1>4 DEF PageFails, Tick
<1>5. ASSUME NEW v \in Visit, NEW n \in 1 .. MaxTicks, NEW ok \in BOOLEAN, PanelAnswer(v, n, ok)
      PROVE  AllListed'
  BY <1>5 DEF PanelAnswer
<1>6. CASE Unauthorized \/ UNCHANGED routerVars
  BY <1>6 DEF Unauthorized, routerVars
<1> QED
  BY <1>1, <1>2, <1>3, <1>4, <1>5, <1>6 DEF RouterNext

LEMMA NavigationStep ==
    AllListed /\ [RouterNext]_routerVars => (visit' # visit => live' \subseteq {visit'})
<1> SUFFICES ASSUME AllListed, [RouterNext]_routerVars, visit' # visit
             PROVE  live' \subseteq {visit'}
  OBVIOUS
<1>1. RenderPanels \/ RenderPage
  BY DEF RouterNext, PageRendered, PageFails, Tick, PanelAnswer, Unauthorized, routerVars
<1>2. Cleared = {}
  BY DEF Cleared, AllListed
<1> QED
  BY <1>1, <1>2 DEF RenderPanels, RenderPage, AddTimer

(* An interval of a page that was left, even one registered afterwards,    *)
(* ends with the next navigation: app.js:112-140.                          *)
THEOREM StrayIntervalsEnd == RouterSpec => NavigationStopsPolling
<1>1. AllListed /\ [RouterNext]_routerVars
        => [visit' # visit => live' \subseteq {visit'}]_routerVars
  BY NavigationStep
<1> QED
  BY ListedInit, ListedStep, <1>1, PTL DEF RouterSpec, NavigationStopsPolling

(* The shapes of the router's variables. *)
LEMMA RouterTypeInit == RouterInit => RouterTypeOK
<1>1. 0 \in 0 .. MaxVisits /\ 0 \in 0 .. MaxTicks /\ 0 \in -1 .. MaxTicks
  BY RouterAssumption
<1> QED
  BY <1>1 DEF RouterInit, RouterTypeOK

LEMMA RouterTypeStep == RouterTypeOK /\ [RouterNext]_routerVars => RouterTypeOK'
<1> SUFFICES ASSUME RouterTypeOK, [RouterNext]_routerVars
             PROVE  RouterTypeOK'
  OBVIOUS
<1>0. /\ MaxVisits \in Nat \ {0} /\ MaxTicks \in Nat \ {0}
      /\ visit \in 0 .. MaxVisits
  BY RouterAssumption DEF RouterTypeOK
<1>1. ASSUME visit < MaxVisits, visit' = visit + 1
      PROVE  visit' \in Visit /\ visit' \in 0 .. MaxVisits
  BY <1>0, <1>1 DEF Visit
<1>2. CASE RenderPanels
  <2>1. visit' \in Visit /\ visit' \in 0 .. MaxVisits /\ 1 \in 1 .. MaxTicks /\ 1 \in 0 .. MaxTicks
    BY <1>0, <1>1, <1>2 DEF RenderPanels
  <2> QED
    BY <1>2, <2>1 DEF RenderPanels, AddTimer, Cleared, RouterTypeOK
<1>3. CASE RenderPage
  <2>1. visit' \in Visit /\ visit' \in 0 .. MaxVisits
    BY <1>0, <1>1, <1>3 DEF RenderPage
  <2> QED
    BY <1>3, <2>1 DEF RenderPage, Cleared, RouterTypeOK
<1>4. ASSUME NEW v \in Visit, PageRendered(v) \/ PageFails(v)
      PROVE  RouterTypeOK'
  BY <1>4 DEF PageRendered, PageFails, AddTimer, RouterTypeOK
<1>5. ASSUME NEW v \in Visit, Tick(v)
      PROVE  RouterTypeOK'
  <2>1. ticks[v] + 1 \in 1 .. MaxTicks /\ ticks[v] + 1 \in 0 .. MaxTicks
    BY <1>0, <1>5 DEF Tick, RouterTypeOK
  <2>2. ticks' = [ticks EXCEPT ![v] = ticks[v] + 1] /\ asked' = asked \cup {<<v, ticks[v] + 1>>}
    BY <1>5 DEF Tick, RouterTypeOK
  <2> QED
    BY <1>5, <2>1, <2>2 DEF Tick, RouterTypeOK
<1>6. ASSUME NEW v \in Visit, NEW n \in 1 .. MaxTicks, NEW ok, PanelAnswer(v, n, ok)
      PROVE  RouterTypeOK'
  <2>1. n \in -1 .. MaxTicks /\ -1 \in -1 .. MaxTicks
    BY <1>0
  <2> QED
    BY <1>6, <2>1 DEF PanelAnswer, RouterTypeOK
<1>7. CASE Unauthorized
  BY <1>7 DEF Unauthorized, RouterTypeOK
<1>8. CASE UNCHANGED routerVars
  BY <1>8 DEF routerVars, RouterTypeOK
<1> QED
  BY <1>2, <1>3, <1>4, <1>5, <1>6, <1>7, <1>8 DEF RouterNext

-----------------------------------------------------------------------------
(* The grid of cards.  First what is kept of a sequence: it is computed    *)
(* element by element, so by induction over the elements seen so far.      *)
Distinct(s) == \A i, j \in 1 .. Len(s) : s[i] = s[j] => i = j

LEMMA SeqSets ==
    ASSUME NEW T, NEW s \in Seq(T)
    PROVE  /\ \A x : x \in ToSet(s) <=> \E i \in 1 .. Len(s) : s[i] = x
           /\ IsInjective(s) <=> Distinct(s)
           /\ ToSet(s) \subseteq T
  BY DEF ToSet, IsInjective, Distinct

(* What is kept of the first k elements of s. *)
KeptFrom(s, S, q, k) ==
    /\ \A j \in 1 .. Len(q) : q[j] \in S /\ \E i \in 1 .. k : q[j] = s[i]
    /\ \A i \in 1 .. k : s[i] \in S => \E j \in 1 .. Len(q) : q[j] = s[i]
    /\ Distinct(s) => Distinct(q)
    /\ (\A i \in 1 .. k : s[i] \in S) => Len(q) = k /\ \A i \in 1 .. k : q[i] = s[i]
    /\ (\A i \in 1 .. k : s[i] \notin S) => Len(q) = 0

LEMMA KeptOne ==
    ASSUME NEW T, NEW s \in Seq(T), NEW S, NEW k \in Nat, k + 1 <= Len(s),
           NEW q \in Seq(T), KeptFrom(s, S, q, k)
    PROVE  LET r == IF s[k + 1] \in S THEN Append(q, s[k + 1]) ELSE q
           IN  r \in Seq(T) /\ KeptFrom(s, S, r, k + 1)
<1>0. k + 1 \in 1 .. Len(s) /\ s[k + 1] \in T /\ Len(q) \in Nat
  OBVIOUS
<1>1. CASE s[k + 1] \in S
  <2> DEFINE r == Append(q, s[k + 1])
             m == Len(q)
  <2>1. r \in Seq(T) /\ Len(r) = m + 1 /\ r[m + 1] = s[k + 1] /\ \A j \in 1 .. m : r[j] = q[j]
    BY <1>0
  <2> HIDE DEF r
  <2>2. ASSUME NEW j \in 1 .. m + 1
        PROVE  r[j] \in S /\ \E i \in 1 .. k + 1 : r[j] = s[i]
    <3>1. CASE j = m + 1
      BY <1>1, <2>1, <3>1
    <3>2. CASE j # m + 1
      <4>1. j \in 1 .. m
        BY <1>0, <3>2
      <4>2. PICK i \in 1 .. k : q[j] = s[i]
        BY <4>1 DEF KeptFrom
      <4>3. i \in 1 .. k + 1
        OBVIOUS
      <4> QED
        BY <2>1, <4>1, <4>2, <4>3 DEF KeptFrom
    <3> QED
      BY <3>1, <3>2
  <2>3. ASSUME NEW i \in 1 .. k + 1, s[i] \in S
        PROVE  \E j \in 1 .. m + 1 : r[j] = s[i]
    <3>1. CASE i = k + 1
      <4>1. m + 1 \in 1 .. m + 1
        BY <1>0
      <4> QED
        BY <2>1, <3>1, <4>1
    <3>2. CASE i # k + 1
      <4>1. i \in 1 .. k
        BY <3>2
      <4>2. PICK j \in 1 .. m : q[j] = s[i]
        BY <2>3, <4>1 DEF KeptFrom
      <4>3. j \in 1 .. m + 1
        BY <1>0
      <4> QED
        BY <2>1, <4>2, <4>3
    <3> QED
      BY <3>1, <3>2
  <2>4. ASSUME Distinct(s)
        PROVE  Distinct(r)
    <3>1. \A j \in 1 .. m : q[j] # s[k + 1]
      <4> SUFFICES ASSUME NEW j \in 1 .. m, q[j] = s[k + 1] PROVE FALSE
        OBVIOUS
      <4>1. PICK i \in 1 .. k : q[j] = s[i]
        BY DEF KeptFrom
      <4>2. i \in 1 .. Len(s) /\ i # k + 1 /\ s[i] = s[k + 1]
        BY <1>0, <4>1
      <4> QED
        BY <1>0, <2>4, <4>2 DEF Distinct
    <3>2. Distinct(q)
      BY <2>4 DEF KeptFrom
    <3> SUFFICES ASSUME NEW a \in 1 .. m + 1, NEW b \in 1 .. m + 1, r[a] = r[b]
                 PROVE  a = b
      BY <2>1 DEF Distinct
    <3>3. (a \in 1 .. m \/ a = m + 1) /\ (b \in 1 .. m \/ b = m + 1)
      BY <1>0
    <3> QED
      BY <2>1, <3>1, <3>2, <3>3 DEF Distinct
  <2>5. ASSUME \A i \in 1 .. k + 1 : s[i] \in S
        PROVE  m + 1 = k + 1 /\ \A i \in 1 .. k + 1 : r[i] = s[i]
    <3>1. m = k /\ \A i \in 1 .. k : q[i] = s[i]
      BY <2>5 DEF KeptFrom
    <3> QED
      BY <2>1, <3>1
  <2>6. KeptFrom(s, S, r, k + 1)
    <3>1. ~(\A i \in 1 .. k + 1 : s[i] \notin S)
      BY <1>1
    <3> QED
      BY <2>1, <2>2, <2>3, <2>4, <2>5, <3>1 DEF KeptFrom
  <2> QED
    BY <1>1, <2>1, <2>6 DEF r
<1>2. CASE s[k + 1] \notin S
  <2>1. \A j \in 1 .. Len(q) : q[j] \in S /\ \E i \in 1 .. k + 1 : q[j] = s[i]
    <3> SUFFICES ASSUME NEW j \in 1 .. Len(q)
                 PROVE  q[j] \in S /\ \E i \in 1 .. k + 1 : q[j] = s[i]
      OBVIOUS
    <3>1. PICK i \in 1 .. k : q[j] = s[i]
      BY DEF KeptFrom
    <3>2. i \in 1 .. k + 1
      OBVIOUS
    <3> QED
      BY <3>1, <3>2 DEF KeptFrom
  <2>2. \A i \in 1 .. k + 1 : s[i] \in S => \E j \in 1 .. Len(q) : q[j] = s[i]
    BY <1>2 DEF KeptFrom
  <2>3. ~(\A i \in 1 .. k + 1 : s[i] \in S)
    BY <1>2
  <2>4. (\A i \in 1 .. k + 1 : s[i] \notin S) => Len(q) = 0
    BY DEF KeptFrom
  <2> QED
    BY <1>2, <2>1, <2>2, <2>3, <2>4 DEF KeptFrom
<1> QED
  BY <1>1, <1>2

(* The equation of Kept. *)
KeptAt(s, S, f, i) ==
    IF i = 0 THEN <<>> ELSE IF s[i] \in S THEN Append(f[i - 1], s[i]) ELSE f[i - 1]
KeptSolves(s, S, f) == f = [i \in 0 .. Len(s) |-> KeptAt(s, S, f, i)]
KeptFcn(s, S) == CHOOSE f : KeptSolves(s, S, f)

LEMMA KeptExists ==
    ASSUME NEW T, NEW s \in Seq(T), NEW S
    PROVE  \E f : KeptSolves(s, S, f)
<1> DEFINE n == Len(s)
           Solves(k, f) == f = [i \in 0 .. k |-> f[i]] /\ \A i \in 0 .. k : f[i] = KeptAt(s, S, f, i)
           A == {k \in Nat : k <= n => \E f : Solves(k, f)}
<1>0. n \in Nat
  OBVIOUS
<1>1. 0 \in A
  <2>1. Solves(0, [i \in 0 .. 0 |-> <<>>])
    BY DEF KeptAt
  <2> QED
    BY <2>1
<1>2. ASSUME NEW k \in Nat, k \in A
      PROVE  k + 1 \in A
  <2> SUFFICES ASSUME k + 1 <= n PROVE \E f : Solves(k + 1, f)
    OBVIOUS
  <2>1. PICK f : Solves(k, f)
    BY <1>0, <1>2
  <2> DEFINE g == [i \in 0 .. k + 1 |-> IF i = k + 1 THEN KeptAt(s, S, f, k + 1) ELSE f[i]]
  <2>2. ASSUME NEW i \in 0 .. k + 1 PROVE g[i] = KeptAt(s, S, g, i)
    <3>1. CASE i = 0
      BY <2>1, <3>1 DEF KeptAt
    <3>2. CASE i = k + 1
      <4>1. g[k] = f[k] /\ k + 1 - 1 = k
        OBVIOUS
      <4> QED
        BY <3>2, <4>1 DEF KeptAt
    <3>3. CASE i # 0 /\ i # k + 1
      <4>1. i - 1 \in 0 .. k /\ i \in 0 .. k
        BY <3>3
      <4>2. g[i] = f[i] /\ g[i - 1] = f[i - 1]
        BY <4>1
      <4>3. f[i] = KeptAt(s, S, f, i)
        BY <2>1, <4>1
      <4> QED
        BY <3>3, <4>2, <4>3 DEF KeptAt
    <3> QED
      BY <3>1, <3>2, <3>3
  <2>3. Solves(k + 1, g)
    <3>1. g = [i \in 0 .. k + 1 |-> g[i]]
      OBVIOUS
    <3> HIDE DEF g
    <3> QED
      BY <2>2, <3>1
  <2> QED
    BY <2>3
<1>3. n \in A
  <2> HIDE DEF A
  <2> QED
    BY <1>0, <1>1, <1>2, SetInduction
<1>4. PICK f : Solves(n, f)
  BY <1>0, <1>3
<1>5. KeptSolves(s, S, f)
  BY <1>4 DEF KeptSolves
<1> QED
  BY <1>5

LEMMA KeptIs ==
    ASSUME NEW T, NEW s \in Seq(T), NEW S
    PROVE  Kept(s, S) \in Seq(T) /\ KeptFrom(s, S, Kept(s, S), Len(s))
<1> DEFINE n == Len(s)
           h == KeptFcn(s, S)
           A == {k \in Nat : k <= n => h[k] \in Seq(T) /\ KeptFrom(s, S, h[k], k)}
<1>0. n \in Nat
  OBVIOUS
<1>1. KeptSolves(s, S, h)
  BY KeptExists DEF KeptFcn
<1>2. Kept(s, S) = h[n]
  BY DEF Kept, KeptFcn, KeptSolves, KeptAt
<1> HIDE DEF h
<1>3. \A i \in 0 .. n : h[i] = KeptAt(s, S, h, i)
  BY <1>1 DEF KeptSolves
<1>4. 0 \in A
  <2>1. h[0] = <<>>
    BY <1>0, <1>3 DEF KeptAt
  <2>2. Len(h[0]) = 0 /\ h[0] \in Seq(T)
    BY <2>1
  <2>3. KeptFrom(s, S, h[0], 0)
    BY <2>2 DEF KeptFrom, Distinct
  <2> QED
    BY <2>2, <2>3
<1>5. ASSUME NEW k \in Nat, k \in A
      PROVE  k + 1 \in A
  <2> SUFFICES ASSUME k + 1 <= n
               PROVE  h[k + 1] \in Seq(T) /\ KeptFrom(s, S, h[k + 1], k + 1)
    OBVIOUS
  <2>1. h[k] \in Seq(T) /\ KeptFrom(s, S, h[k], k)
    BY <1>0, <1>5
  <2>2. h[k + 1] = IF s[k + 1] \in S THEN Append(h[k], s[k + 1]) ELSE h[k]
    BY <1>3 DEF KeptAt
  <2> QED
    BY <2>1, <2>2, KeptOne
<1>6. n \in A
  <2> HIDE DEF A
  <2> QED
    BY <1>0, <1>4, <1>5, SetInduction
<1> QED
  BY <1>0, <1>2, <1>6

(* What is kept, in terms of sets. *)
LEMMA KeptFacts ==
    ASSUME NEW T, NEW s \in Seq(T), NEW S
    PROVE  /\ Kept(s, S) \in Seq(T)
           /\ ToSet(Kept(s, S)) = ToSet(s) \cap S
           /\ IsInjective(s) => IsInjective(Kept(s, S))
           /\ ToSet(s) \subseteq S => Kept(s, S) = s
           /\ ToSet(s) \cap S = {} => Kept(s, S) = <<>>
<1> DEFINE q == Kept(s, S)
<1>1. q \in Seq(T) /\ KeptFrom(s, S, q, Len(s))
  BY KeptIs
<1> HIDE DEF q
<1>2. \A x : x \in ToSet(s) <=> \E i \in 1 .. Len(s) : s[i] = x
  BY SeqSets
<1>3. \A x : x \in ToSet(q) <=> \E i \in 1 .. Len(q) : q[i] = x
  BY <1>1, SeqSets
<1>4. ToSet(q) = ToSet(s) \cap S
  <2>1. \A x \in ToSet(q) : x \in ToSet(s) /\ x \in S
    BY <1>1, <1>2, <1>3 DEF KeptFrom
  <2>2. \A x \in ToSet(s) : x \in S => x \in ToSet(q)
    BY <1>1, <1>2, <1>3 DEF KeptFrom
  <2> QED
    BY <2>1, <2>2
<1>5. IsInjective(s) => IsInjective(q)
  BY <1>1, SeqSets DEF KeptFrom
<1>6. ASSUME ToSet(s) \subseteq S
      PROVE  q = s
  <2>1. \A i \in 1 .. Len(s) : s[i] \in S
    BY <1>2, <1>6
  <2>2. Len(q) = Len(s) /\ \A i \in 1 .. Len(s) : q[i] = s[i]
    BY <1>1, <2>1 DEF KeptFrom
  <2> QED
    BY <1>1, <2>2
<1>7. ASSUME ToSet(s) \cap S = {}
      PROVE  q = <<>>
  <2>1. \A i \in 1 .. Len(s) : s[i] \notin S
    BY <1>2, <1>7
  <2>2. Len(q) = 0
    BY <1>1, <2>1 DEF KeptFrom
  <2> QED
    BY <1>1, <2>2
<1> QED
  BY <1>1, <1>4, <1>5, <1>6, <1>7 DEF q

-----------------------------------------------------------------------------
(* Rows.  A row is a permutation of the cards, an order lists some cards   *)
(* once each.                                                              *)
Listing(s) == s \in Seq(Card) /\ IsInjective(s)

Join(a, b, c) == c = a \o b

LEMMA Joined ==
    ASSUME NEW T, NEW a \in Seq(T), NEW b \in Seq(T),
           IsInjective(a), IsInjective(b), ToSet(a) \cap ToSet(b) = {},
           NEW c, Join(a, b, c)
    PROVE  c \in Seq(T) /\ IsInjective(c) /\ ToSet(c) = ToSet(a) \cup ToSet(b)
<1> DEFINE m == Len(a)
           n == Len(b)
<1>0. c = a \o b
  BY DEF Join
<1>1. /\ c \in Seq(T) /\ Len(c) = m + n /\ m \in Nat /\ n \in Nat
      /\ \A i \in 1 .. m + n : c[i] = IF i <= m THEN a[i] ELSE b[i - m]
  BY <1>0
<1>2. \A x : x \in ToSet(a) <=> \E i \in 1 .. m : a[i] = x
  BY SeqSets
<1>3. \A x : x \in ToSet(b) <=> \E i \in 1 .. n : b[i] = x
  BY SeqSets
<1>4. \A x : x \in ToSet(c) <=> \E i \in 1 .. m + n : c[i] = x
  <2>1. c \in Seq(T)
    BY <1>1
  <2>2. \A x : x \in ToSet(c) <=> \E i \in 1 .. Len(c) : c[i] = x
    BY <2>1, SeqSets
  <2> QED
    BY <1>1, <2>2
<1> HIDE DEF m, n
<1>5. ASSUME NEW i \in 1 .. m + n
      PROVE  \/ i \in 1 .. m /\ c[i] = a[i] /\ a[i] \in ToSet(a)
             \/ i > m /\ i - m \in 1 .. n /\ c[i] = b[i - m] /\ b[i - m] \in ToSet(b)
  <2>1. CASE i <= m
    <3>1. i \in 1 .. m
      BY <1>1, <2>1
    <3> QED
      BY <1>1, <1>2, <2>1, <3>1
  <2>2. CASE ~(i <= m)
    <3>1. i - m \in 1 .. n
      BY <1>1, <2>2
    <3> QED
      BY <1>1, <1>3, <2>2, <3>1
  <2> QED
    BY <2>1, <2>2
<1>6. ASSUME NEW x \in ToSet(a) \cup ToSet(b)
      PROVE  x \in ToSet(c)
  <2>1. CASE x \in ToSet(a)
    <3>1. PICK i \in 1 .. m : a[i] = x
      BY <1>2, <2>1
    <3>2. i \in 1 .. m + n /\ c[i] = x
      BY <1>1, <3>1
    <3> QED
      BY <1>4, <3>2
  <2>2. CASE x \in ToSet(b)
    <3>1. PICK i \in 1 .. n : b[i] = x
      BY <1>3, <2>2
    <3>2. m + i \in 1 .. m + n /\ ~(m + i <= m) /\ (m + i) - m = i
      BY <1>1
    <3>3. c[m + i] = x
      BY <1>1, <3>1, <3>2
    <3> QED
      BY <1>4, <3>2, <3>3
  <2> QED
    BY <2>1, <2>2
<1>7. ToSet(c) = ToSet(a) \cup ToSet(b)
  <2>1. ASSUME NEW x \in ToSet(c)
        PROVE  x \in ToSet(a) \cup ToSet(b)
    <3>1. PICK i \in 1 .. m + n : c[i] = x
      BY <1>4
    <3> QED
      BY <1>5, <3>1
  <2> QED
    BY <1>6, <2>1
<1>8. Distinct(c)
  <2>0. Distinct(a) /\ Distinct(b)
    BY SeqSets
  <2>00. Distinct(a) = (\A i, j \in 1 .. m : a[i] = a[j] => i = j)
        /\ Distinct(b) = (\A i, j \in 1 .. n : b[i] = b[j] => i = j)
    BY DEF Distinct, m, n
  <2> SUFFICES ASSUME NEW i \in 1 .. m + n, NEW j \in 1 .. m + n, c[i] = c[j]
               PROVE  i = j
    BY <1>1 DEF Distinct, m, n
  <2>1. CASE i \in 1 .. m /\ c[i] = a[i] /\ a[i] \in ToSet(a)
    <3>1. j \in 1 .. m /\ c[j] = a[j]
      BY <1>5, <2>1
    <3> QED
      BY <2>0, <2>00, <2>1, <3>1
  <2>2. CASE i > m /\ i - m \in 1 .. n /\ c[i] = b[i - m] /\ b[i - m] \in ToSet(b)
    <3>1. j > m /\ j - m \in 1 .. n /\ c[j] = b[j - m]
      BY <1>5, <2>2
    <3>2. i - m = j - m
      BY <2>0, <2>00, <2>2, <3>1
    <3> QED
      BY <1>1, <3>2
  <2> QED
    BY <1>5, <2>1, <2>2
<1> QED
  BY <1>1, <1>7, <1>8, SeqSets

LEMMA ReorderedRow ==
    ASSUME NEW o, Listing(o)
    PROVE  /\ Listing(Reordered(CardSeq, o)) /\ ToSet(Reordered(CardSeq, o)) = Card
           /\ ToSet(o) = Card => Reordered(CardSeq, o) = o
<1> DEFINE a == Kept(CardSeq, Card \ ToSet(o))
           b == Kept(o, ToSet(CardSeq))
<1>0. CardSeq \in Seq(Card) /\ IsInjective(CardSeq) /\ ToSet(CardSeq) = Card
  BY LayoutAssumption DEF Card
<1>1. o \in Seq(Card) /\ IsInjective(o) /\ ToSet(o) \subseteq Card
  BY SeqSets DEF Listing
<1>2. a \in Seq(Card) /\ IsInjective(a) /\ ToSet(a) = Card \ ToSet(o)
      /\ (Card \subseteq ToSet(o) => a = <<>>)
  BY <1>0, KeptFacts
<1>3. b \in Seq(Card) /\ IsInjective(b) /\ ToSet(b) = ToSet(o) /\ b = o
  BY <1>0, <1>1, KeptFacts
<1> DEFINE c == Reordered(CardSeq, o)
<1>4. c = a \o b /\ Join(a, b, c)
  BY DEF Reordered, Join
<1> HIDE DEF a, b, c
<1>5. ToSet(a) \cap ToSet(b) = {}
  BY <1>2, <1>3
<1>6. c \in Seq(Card) /\ IsInjective(c) /\ ToSet(c) = ToSet(a) \cup ToSet(b)
  BY <1>2, <1>3, <1>4, <1>5, Joined
<1>7. ToSet(c) = Card
  BY <1>1, <1>2, <1>3, <1>6
<1>8. ToSet(o) = Card => c = o
  <2> SUFFICES ASSUME ToSet(o) = Card PROVE c = o
    OBVIOUS
  <2>1. a = <<>>
    BY <1>2
  <2> QED
    BY <1>1, <1>3, <1>4, <2>1
<1> QED
  BY <1>6, <1>7, <1>8 DEF Listing, c

(* A card put into a row that lacks it. *)
LEMMA Inserted ==
    ASSUME NEW T, NEW s \in Seq(T), IsInjective(s), NEW d \in T, d \notin ToSet(s),
           NEW k \in 1 .. Len(s) + 1
    PROVE  /\ InsertAt(s, k, d) \in Seq(T) /\ IsInjective(InsertAt(s, k, d))
           /\ ToSet(InsertAt(s, k, d)) = ToSet(s) \cup {d}
<1> DEFINE l == SubSeq(s, 1, k - 1)
           r == SubSeq(s, k, Len(s))
           n == Len(s)
<1>0. n \in Nat /\ k \in Nat /\ k >= 1 /\ k <= n + 1
  OBVIOUS
<1>1. l \in Seq(T) /\ Len(l) = k - 1 /\ \A i \in 1 .. k - 1 : l[i] = s[i]
  BY <1>0
<1>2. r \in Seq(T) /\ Len(r) = n - k + 1 /\ \A i \in 1 .. n - k + 1 : r[i] = s[k + i - 1]
  BY <1>0
<1> HIDE DEF l, r
<1>3. InsertAt(s, k, d) = (l \o <<d>>) \o r
  BY DEF InsertAt, l, r
<1>4. Distinct(s) /\ \A x : x \in ToSet(s) <=> \E i \in 1 .. n : s[i] = x
  BY SeqSets
<1>5. \A x : x \in ToSet(l) <=> \E i \in 1 .. k - 1 : l[i] = x
  BY <1>1, SeqSets
<1>6. \A x : x \in ToSet(r) <=> \E i \in 1 .. n - k + 1 : r[i] = x
  BY <1>2, SeqSets
<1>7. IsInjective(l)
  <2>1. Distinct(l)
    BY <1>0, <1>1, <1>4 DEF Distinct
  <2> QED
    BY <1>1, <2>1, SeqSets
<1>8. IsInjective(r)
  <2>1. ASSUME NEW i \in 1 .. n - k + 1, NEW j \in 1 .. n - k + 1, r[i] = r[j]
        PROVE  i = j
    <3>1. k + i - 1 \in 1 .. n /\ k + j - 1 \in 1 .. n /\ s[k + i - 1] = s[k + j - 1]
      BY <1>0, <1>2, <2>1
    <3>2. k + i - 1 = k + j - 1
      BY <1>4, <3>1 DEF Distinct
    <3> QED
      BY <1>0, <3>2
  <2>2. Distinct(r)
    BY <1>2, <2>1 DEF Distinct
  <2> QED
    BY <1>2, <2>2, SeqSets
<1>9. ToSet(l) \cap ToSet(r) = {}
  <2> SUFFICES ASSUME NEW x, x \in ToSet(l), x \in ToSet(r) PROVE FALSE
    OBVIOUS
  <2>1. PICK i \in 1 .. k - 1 : l[i] = x
    BY <1>5
  <2>2. PICK j \in 1 .. n - k + 1 : r[j] = x
    BY <1>6
  <2>3. s[i] = x /\ s[k + j - 1] = x /\ i \in 1 .. n /\ k + j - 1 \in 1 .. n
    BY <1>0, <1>1, <1>2, <2>1, <2>2
  <2>4. i = k + j - 1
    BY <1>4, <2>3 DEF Distinct
  <2> QED
    BY <1>0, <2>4
<1>10. ToSet(l) \cup ToSet(r) = ToSet(s)
  <2>1. ASSUME NEW x \in ToSet(l) PROVE x \in ToSet(s)
    <3>1. PICK i \in 1 .. k - 1 : l[i] = x
      BY <1>5
    <3>2. i \in 1 .. n /\ s[i] = x
      BY <1>0, <1>1, <3>1
    <3> QED
      BY <1>4, <3>2
  <2>2. ASSUME NEW x \in ToSet(r) PROVE x \in ToSet(s)
    <3>1. PICK i \in 1 .. n - k + 1 : r[i] = x
      BY <1>6
    <3>2. k + i - 1 \in 1 .. n /\ s[k + i - 1] = x
      BY <1>0, <1>2, <3>1
    <3> QED
      BY <1>4, <3>2
  <2>3. ASSUME NEW x \in ToSet(s) PROVE x \in ToSet(l) \cup ToSet(r)
    <3>1. PICK i \in 1 .. n : s[i] = x
      BY <1>4
    <3>2. CASE i <= k - 1
      <4>1. i \in 1 .. k - 1
        BY <1>0, <3>2
      <4> QED
        BY <1>1, <1>5, <3>1, <4>1
    <3>3. CASE ~(i <= k - 1)
      <4>1. i - k + 1 \in 1 .. n - k + 1 /\ k + (i - k + 1) - 1 = i
        BY <1>0, <3>3
      <4>2. r[i - k + 1] = x
        BY <1>2, <3>1, <4>1
      <4> QED
        BY <1>6, <4>1, <4>2
    <3> QED
      BY <3>2, <3>3
  <2> QED
    BY <2>1, <2>2, <2>3
<1>11. <<d>> \in Seq(T) /\ IsInjective(<<d>>) /\ ToSet(<<d>>) = {d}
  <2>1. <<d>> \in Seq(T) /\ Len(<<d>>) = 1 /\ <<d>>[1] = d
    OBVIOUS
  <2> DEFINE e == <<d>>
  <2> HIDE DEF e
  <2>2. e \in Seq(T) /\ Len(e) = 1 /\ e[1] = d
    BY <2>1 DEF e
  <2>3. Distinct(e)
    BY <2>2 DEF Distinct
  <2>4. IsInjective(e)
    BY <2>2, <2>3, SeqSets
  <2>5. \A x : x \in ToSet(e) <=> x = d
    BY <2>2, SeqSets
  <2>6. ToSet(e) = {d}
    BY <2>5
  <2> QED
    BY <2>2, <2>4, <2>6 DEF e
<1>12. ToSet(l) \cap ToSet(<<d>>) = {}
  BY <1>10, <1>11
<1> DEFINE h == l \o <<d>>
           e == <<d>>
<1>130. Join(l, e, h) /\ e \in Seq(T) /\ IsInjective(e) /\ ToSet(e) = {d} /\ ToSet(l) \cap ToSet(e) = {}
  BY <1>11, <1>12 DEF Join
<1> HIDE DEF h, e
<1>13. h \in Seq(T) /\ IsInjective(h) /\ ToSet(h) = ToSet(l) \cup {d}
  BY <1>1, <1>7, <1>130, Joined
<1>14. ToSet(h) \cap ToSet(r) = {}
  BY <1>9, <1>10, <1>13
<1> DEFINE c == InsertAt(s, k, d)
<1>140. Join(h, r, c)
  BY <1>3 DEF h, Join
<1> HIDE DEF c
<1>15. c \in Seq(T) /\ IsInjective(c) /\ ToSet(c) = ToSet(h) \cup ToSet(r)
  <2>1. h \in Seq(T) /\ r \in Seq(T) /\ IsInjective(h)
    BY <1>2, <1>13
  <2> QED
    BY <1>8, <1>14, <1>140, <2>1, Joined
<1> QED
  BY <1>10, <1>13, <1>15 DEF c

-----------------------------------------------------------------------------
(* The layout.  Order, widths and heights in memory describe what is shown *)
(* except for the card under a gesture.                                    *)
Described(s) ==
    /\ Listing(s.order)
    /\ s = [order |-> s.order, width |-> s.width, height |-> s.height]
    /\ s.width \in [Card -> {Unset} \cup MinW .. MaxW]
    /\ s.height \in [Card -> {Unset} \cup MinH .. MaxPx]

LayoutInv ==
    /\ Listing(row) /\ ToSet(row) = Card
    /\ width \in [Card -> MinW .. MaxW]
    /\ height \in [Card -> {AutoHeight} \cup MinH .. MaxPx]
    /\ Described(state) /\ Described(stored)
    /\ full \in BOOLEAN /\ mine \in BOOLEAN /\ editing \in BOOLEAN
    /\ dragEl \in Card \cup {NoCard}
    /\ resizing \in [card: Card \cup {NoCard}, mode: {"w", "h", "wh"}]
    /\ mine => stored = state
    /\ dragEl = NoCard => Reordered(CardSeq, state.order) = row
    /\ \A c \in Card : c # resizing.card =>
          /\ ShownWidth(state, c) = width[c]
          /\ height[c] # AutoHeight => ShownHeight(state, c) = height[c]

LEMMA Boundary ==
    /\ \A n \in Int : Bounded(MinW, MaxW, n) \in MinW .. MaxW
    /\ \A n \in Int : Bounded(MinH, MaxPx, n) \in MinH .. MaxPx
    /\ \A n \in MinW .. MaxW : n # Unset /\ Bounded(MinW, MaxW, n) = n
    /\ \A n \in MinH .. MaxPx : n # Unset /\ n # AutoHeight /\ Bounded(MinH, MaxPx, n) = n
  BY LayoutAssumption DEF Bounded, Unset, AutoHeight

LEMMA ShownInBounds ==
    ASSUME NEW s, Described(s), NEW c \in Card
    PROVE  /\ ShownWidth(s, c) \in MinW .. MaxW
           /\ ShownHeight(s, c) \in {AutoHeight} \cup MinH .. MaxPx
<1>1. s.width[c] \in Int /\ s.height[c] \in Int
  BY LayoutAssumption DEF Described, Unset
<1>2. MaxW \in MinW .. MaxW
  BY LayoutAssumption
<1> QED
  BY <1>1, <1>2, Boundary DEF ShownWidth, ShownHeight

LEMMA EmptyDescribed == Described(Empty) /\ Listing(<<>>)
<1>1. Listing(<<>>)
  BY DEF Listing, IsInjective
<1> QED
  BY <1>1 DEF Described, Empty

LEMMA StoredOrderDescribed ==
    ASSUME NEW o \in StoredOrders \cup {<<>>}
    PROVE  Described([Empty EXCEPT !.order = o])
<1>1. Listing(o)
  <2>1. CASE o \in StoredOrders
    <3>1. o \in SeqOf(Card, Len(CardSeq)) /\ IsInjective(o)
      BY <2>1, LayoutAssumption DEF Arrangement
    <3>2. Len(CardSeq) \in Nat
      BY LayoutAssumption
    <3>3. PICK m \in 0 .. Len(CardSeq) : o \in [1 .. m -> Card]
      BY <3>1 DEF SeqOf
    <3>4. o \in Seq(Card)
      BY <3>2, <3>3
    <3> QED
      BY <3>1, <3>4 DEF Listing
  <2>2. CASE o = <<>>
    BY <2>2, EmptyDescribed
  <2> QED
    BY <2>1, <2>2
<1> QED
  BY <1>1 DEF Described, Empty

(* What a page shows that applies s. *)
LEMMA Applied ==
    ASSUME NEW s, Described(s)
    PROVE  LET r == Reordered(CardSeq, s.order)
               w == [c \in Card |-> ShownWidth(s, c)]
               h == [c \in Card |-> ShownHeight(s, c)]
           IN  /\ Listing(r) /\ ToSet(r) = Card
               /\ w \in [Card -> MinW .. MaxW]
               /\ h \in [Card -> {AutoHeight} \cup MinH .. MaxPx]
               /\ \A c \in Card : w[c] = ShownWidth(s, c) /\ h[c] = ShownHeight(s, c)
  BY ReorderedRow, ShownInBounds DEF Described

LEMMA LayoutStart == LayoutInit => LayoutInv
<1> SUFFICES ASSUME LayoutInit PROVE LayoutInv
  OBVIOUS
<1>1. Described(stored) /\ state = stored
  BY StoredOrderDescribed DEF LayoutInit
<1>2. NoResize.card = NoCard
  BY DEF NoResize
<1> QED
  BY <1>1, <1>2, Applied DEF LayoutInit, LayoutInv, NoResize

LEMMA ReloadKeeps == ASSUME LayoutInv, Reload PROVE LayoutInv'
<1>1. Described(stored)
  BY DEF LayoutInv
<1>2. state' = stored /\ stored' = stored
  BY DEF Reload
<1>3. /\ Listing(row') /\ ToSet(row') = Card /\ row' = Reordered(CardSeq, stored.order)
      /\ width' \in [Card -> MinW .. MaxW]
      /\ height' \in [Card -> {AutoHeight} \cup MinH .. MaxPx]
      /\ \A c \in Card : width'[c] = ShownWidth(stored, c) /\ height'[c] = ShownHeight(stored, c)
  BY <1>1, Applied DEF Reload, ApplyAll
<1>4. \A c \in Card : ShownWidth(state', c) = width'[c] /\ ShownHeight(state', c) = height'[c]
  BY <1>2, <1>3
<1> QED
  BY <1>1, <1>2, <1>3, <1>4 DEF Reload, LayoutInv, NoResize, ShownWidth, ShownHeight, Described, Listing

LEMMA ResetKeeps == ASSUME LayoutInv, ResetLayout PROVE LayoutInv'
<1>1. Described(Empty)
  BY EmptyDescribed
<1>2. state' = Empty /\ (stored' = Empty \/ stored' = stored) /\ (mine' => stored' = Empty) /\ mine' \in BOOLEAN
  BY DEF ResetLayout, SaveState
<1>3. /\ Listing(row') /\ ToSet(row') = Card /\ row' = Reordered(CardSeq, Empty.order)
      /\ width' \in [Card -> MinW .. MaxW]
      /\ height' \in [Card -> {AutoHeight} \cup MinH .. MaxPx]
      /\ \A c \in Card : width'[c] = ShownWidth(Empty, c) /\ height'[c] = ShownHeight(Empty, c)
  BY <1>1, Applied DEF ResetLayout, ApplyAll
<1>4. \A c \in Card : ShownWidth(state', c) = width'[c] /\ ShownHeight(state', c) = height'[c]
  BY <1>2, <1>3
<1> QED
  BY <1>1, <1>2, <1>3, <1>4 DEF ResetLayout, LayoutInv, Described, Listing

LEMMA DragOverKeeps ==
    ASSUME LayoutInv, NEW target \in Card, NEW after \in BOOLEAN, OnDragOver(target, after)
    PROVE  LayoutInv'
<1> DEFINE others == Kept(row, Card \ {dragEl})
           at == CHOOSE i \in DOMAIN others : others[i] = target
           k == IF after THEN at + 1 ELSE at
<1>1. dragEl \in Card /\ target # dragEl
  BY DEF LayoutInv, OnDragOver
<1>2. row \in Seq(Card) /\ IsInjective(row) /\ ToSet(row) = Card
  BY DEF LayoutInv, Listing
<1>3. others \in Seq(Card) /\ IsInjective(others) /\ ToSet(others) = Card \ {dragEl}
  BY <1>2, KeptFacts
<1>4. row' = InsertAt(others, k, dragEl)
  BY DEF OnDragOver
<1>5. k \in 1 .. Len(others) + 1
  <2> HIDE DEF others
  <2>1. \E i \in 1 .. Len(others) : others[i] = target
    BY <1>1, <1>3, SeqSets
  <2>2. DOMAIN others = 1 .. Len(others) /\ Len(others) \in Nat
    BY <1>3
  <2>3. at \in 1 .. Len(others)
    BY <2>1, <2>2
  <2> HIDE DEF at
  <2> QED
    BY <2>2, <2>3
<1> HIDE DEF k, others
<1> DEFINE r == InsertAt(others, k, dragEl)
<1>6. r \in Seq(Card) /\ IsInjective(r) /\ ToSet(r) = ToSet(others) \cup {dragEl}
  BY <1>1, <1>3, <1>5, Inserted
<1> HIDE DEF r
<1>7. Listing(row') /\ ToSet(row') = Card
  BY <1>1, <1>3, <1>4, <1>6 DEF r, Listing
<1>8. dragEl' # NoCard
  BY DEF OnDragOver
<1> QED
  BY <1>7, <1>8 DEF OnDragOver, LayoutInv, ShownWidth, ShownHeight

LEMMA DragEndKeeps == ASSUME LayoutInv, OnDragEnd PROVE LayoutInv'
<1> DEFINE s == [state EXCEPT !.order = row]
<1>1. Described(s) /\ s.order = row /\ s.width = state.width /\ s.height = state.height
  BY DEF LayoutInv, Described
<1>2. state' = s /\ (stored' = s \/ stored' = stored) /\ (mine' => stored' = s) /\ mine' \in BOOLEAN
  BY DEF OnDragEnd, SaveState
<1> HIDE DEF s
<1>3. Reordered(CardSeq, row) = row
  BY ReorderedRow DEF LayoutInv
<1>4. \A c : ShownWidth(s, c) = ShownWidth(state, c) /\ ShownHeight(s, c) = ShownHeight(state, c)
  BY <1>1 DEF ShownWidth, ShownHeight
<1>5. UNCHANGED <<row, width, height, full, editing, resizing>> /\ dragEl' = NoCard
  BY DEF OnDragEnd
<1> QED
  BY <1>1, <1>2, <1>3, <1>4, <1>5 DEF LayoutInv

LEMMA ResizeKeeps ==
    ASSUME LayoutInv, NEW n \in Int, NEW px \in Int, OnResize(n, px)
    PROVE  LayoutInv'
<1> DEFINE c == resizing.card
<1>1. c \in Card
  BY DEF LayoutInv, OnResize
<1>2. /\ width' = IF resizing.mode = "h" THEN width ELSE [width EXCEPT ![c] = Bounded(MinW, MaxW, n)]
      /\ height' = IF resizing.mode = "w" THEN height
                   ELSE [height EXCEPT ![c] = IF px = 0 THEN AutoHeight ELSE Bounded(MinH, MaxPx, px)]
      /\ UNCHANGED <<row, state, stored, full, mine, editing, dragEl, resizing>>
  BY DEF OnResize
<1> HIDE DEF c
<1>3. width' \in [Card -> MinW .. MaxW] /\ \A d \in Card : d # c => width'[d] = width[d]
  BY <1>1, <1>2, Boundary DEF LayoutInv
<1>4. /\ height' \in [Card -> {AutoHeight} \cup MinH .. MaxPx]
      /\ \A d \in Card : d # c => height'[d] = height[d]
  BY <1>1, <1>2, Boundary DEF LayoutInv
<1> QED
  BY <1>2, <1>3, <1>4 DEF LayoutInv, c, ShownWidth, ShownHeight

LEMMA SizesTaken ==
    ASSUME NEW o, NEW w, NEW h, NEW c, NEW x, NEW y,
           NEW r, r = [order |-> o, width |-> w, height |-> h]
    PROVE  [r EXCEPT !.width[c] = x, !.height[c] = y] =
              [order |-> o, width |-> [w EXCEPT ![c] = x], height |-> [h EXCEPT ![c] = y]]
<1> DEFINE v == [w EXCEPT ![c] = x]
           a == [r EXCEPT !.width[c] = x]
<1>1. a = [order |-> o, width |-> v, height |-> h]
  OBVIOUS
<1>2. [r EXCEPT !.width[c] = x, !.height[c] = y] = [a EXCEPT !.height[c] = y]
  OBVIOUS
<1> HIDE DEF a, v
<1>3. [a EXCEPT !.height[c] = y] = [order |-> o, width |-> v, height |-> [h EXCEPT ![c] = y]]
  BY <1>1
<1> QED
  BY <1>2, <1>3 DEF v

LEMMA EndResizeKeeps == ASSUME LayoutInv, EndResize PROVE LayoutInv'
<1> DEFINE c == resizing.card
           s == [state EXCEPT !.width[c] = width[c],
                              !.height[c] = IF height[c] = AutoHeight THEN @ ELSE height[c]]
<1>1. c \in Card /\ width[c] \in MinW .. MaxW /\ height[c] \in {AutoHeight} \cup MinH .. MaxPx
  BY DEF LayoutInv, EndResize
<1>2. state' = s /\ (stored' = s \/ stored' = stored) /\ (mine' => stored' = s) /\ mine' \in BOOLEAN
  BY DEF EndResize, SaveState
<1>3. UNCHANGED <<row, width, height, full, editing, dragEl>> /\ resizing' = NoResize
  BY DEF EndResize
<1>4. /\ s.order = state.order
      /\ s.width = [state.width EXCEPT ![c] = width[c]]
      /\ s.height = [state.height EXCEPT ![c] = IF height[c] = AutoHeight THEN state.height[c] ELSE height[c]]
      /\ s = [order |-> s.order, width |-> s.width, height |-> s.height]
  <2> DEFINE x == width[c]
             y == IF height[c] = AutoHeight THEN state.height[c] ELSE height[c]
  <2>1. s = [state EXCEPT !.width[c] = x, !.height[c] = y]
    OBVIOUS
  <2>2. state = [order |-> state.order, width |-> state.width, height |-> state.height]
    BY DEF LayoutInv, Described
  <2> HIDE DEF x, y, s
  <2>3. s = [order |-> state.order, width |-> [state.width EXCEPT ![c] = x],
             height |-> [state.height EXCEPT ![c] = y]]
    BY <2>1, <2>2, SizesTaken
  <2> QED
    BY <2>3 DEF x, y
<1> HIDE DEF c, s
<1>5. Described(s)
  BY <1>1, <1>4 DEF LayoutInv, Described
<1>6. ASSUME NEW d \in Card
      PROVE  /\ ShownWidth(s, d) = width[d]
             /\ height[d] # AutoHeight => ShownHeight(s, d) = height[d]
  <2>1. CASE d = c
    <3>1. s.width[d] = width[d] /\ (height[d] # AutoHeight => s.height[d] = height[d])
      BY <1>1, <1>4, <2>1 DEF LayoutInv, Described
    <3> QED
      BY <1>1, <2>1, <3>1, Boundary DEF ShownWidth, ShownHeight
  <2>2. CASE d # c
    <3>1. s.width[d] = state.width[d] /\ s.height[d] = state.height[d]
      BY <1>4, <2>2 DEF LayoutInv, Described
    <3> QED
      BY <2>2, <3>1 DEF LayoutInv, c, ShownWidth, ShownHeight
  <2> QED
    BY <2>1, <2>2
<1>7. resizing' \in [card: Card \cup {NoCard}, mode: {"w", "h", "wh"}]
  BY <1>3 DEF NoResize
<1> QED
  BY <1>2, <1>3, <1>4, <1>5, <1>6, <1>7 DEF LayoutInv

LEMMA LayoutStep == LayoutInv /\ [LayoutNext]_layoutVars => LayoutInv'
<1> SUFFICES ASSUME LayoutInv, [LayoutNext]_layoutVars
             PROVE  LayoutInv'
  OBVIOUS
<1>1. CASE Reload
  BY <1>1, ReloadKeeps
<1>2. CASE SetEditing
  BY <1>2 DEF SetEditing, LayoutInv, ShownWidth, ShownHeight
<1>3. ASSUME NEW c \in Card, OnDragStart(c)
      PROVE  LayoutInv'
  <2>1. dragEl' = c /\ c # NoCard
    BY <1>3, LayoutAssumption DEF OnDragStart
  <2> QED
    BY <1>3, <2>1 DEF OnDragStart, LayoutInv, ShownWidth, ShownHeight
<1>4. ASSUME NEW c \in Card, NEW after \in BOOLEAN, OnDragOver(c, after)
      PROVE  LayoutInv'
  BY <1>4, DragOverKeeps
<1>5. CASE OnDragEnd
  BY <1>5, DragEndKeeps
<1>6. ASSUME NEW c \in Card, NEW mode \in {"w", "h", "wh"}, StartResize(c, mode)
      PROVE  LayoutInv'
  <2>1. resizing.card = NoCard /\ NoCard \notin Card
    BY <1>6, LayoutAssumption DEF StartResize, NoResize
  <2>2. resizing' = [card |-> c, mode |-> mode]
    BY <1>6 DEF StartResize
  <2>3. \A d \in Card : /\ ShownWidth(state, d) = width[d]
                        /\ height[d] # AutoHeight => ShownHeight(state, d) = height[d]
    BY <2>1 DEF LayoutInv
  <2> QED
    BY <1>6, <2>2, <2>3 DEF StartResize, LayoutInv
<1>7. ASSUME NEW n \in MinW - 1 .. MaxW + 1, NEW px \in -1 .. MaxPx, OnResize(n, px)
      PROVE  LayoutInv'
  <2>1. n \in Int /\ px \in Int
    BY LayoutAssumption
  <2> QED
    BY <1>7, <2>1, ResizeKeeps
<1>8. CASE EndResize
  BY <1>8, EndResizeKeeps
<1>9. CASE ResetLayout
  BY <1>9, ResetKeeps
<1>10. CASE OtherTabResets
  BY <1>10, EmptyDescribed DEF OtherTabResets, LayoutInv, ShownWidth, ShownHeight
<1>11. CASE UNCHANGED layoutVars
  BY <1>11 DEF layoutVars, LayoutInv, ShownWidth, ShownHeight
<1> QED
  BY <1>1, <1>2, <1>3, <1>4, <1>5, <1>6, <1>7, <1>8, <1>9, <1>10, <1>11 DEF LayoutNext

(* Whatever is dragged, resized, reset and reloaded, and whatever earlier  *)
(* orders the storage holds, a reload shows the arrangement on the screen  *)
(* while this tab wrote the storage last: layout.js:30-49, 146-161.        *)
THEOREM ReloadShowsTheScreen == LayoutSpec => []ReloadKeepsArrangement
<1>1. LayoutInv => ReloadKeepsArrangement
  <2> SUFFICES ASSUME LayoutInv, mine, dragEl = NoCard, resizing = NoResize
               PROVE  /\ Reordered(CardSeq, stored.order) = row
                      /\ \A c \in Card :
                            /\ ShownWidth(stored, c) = width[c]
                            /\ height[c] # AutoHeight => ShownHeight(stored, c) = height[c]
    BY DEF ReloadKeepsArrangement
  <2>1. \A c \in Card : c # resizing.card
    BY LayoutAssumption DEF NoResize
  <2> QED
    BY <2>1 DEF LayoutInv
<1> QED
  BY <1>1, LayoutStart, LayoutStep, PTL DEF LayoutSpec

LEMMA ListingShort == ASSUME NEW s, Listing(s) PROVE s \in Arrangement
<1> DEFINE n == Len(s)
           m == Len(CardSeq)
<1>1. s \in Seq(Card) /\ n \in Nat /\ s \in [1 .. n -> Card] /\ IsInjective(s)
  BY DEF Listing
<1>2. CardSeq \in Seq(Card) /\ m \in Nat /\ CardSeq \in [1 .. m -> Card]
  BY LayoutAssumption
<1>3. IsFiniteSet(1 .. m) /\ Cardinality(1 .. m) = m /\ Cardinality(1 .. n) = n
  <2> HIDE DEF n, m
  <2>1. IsFiniteSet(1 .. m)
    BY <1>2, FS_Interval
  <2> QED
    BY <1>1, <1>2, <2>1, Interval
<1>4. CardSeq \in Surjection(1 .. m, Card)
  <2>1. \A c \in Card : \E i \in 1 .. m : CardSeq[i] = c
    BY <1>2, SeqSets DEF Card
  <2> QED
    BY <1>2, <2>1 DEF Surjection
<1>5. s \in Injection(1 .. n, Card)
  BY <1>1 DEF Injection
<1> HIDE DEF n, m
<1>6. IsFiniteSet(Card) /\ Cardinality(Card) <= m
  BY <1>3, <1>4, FS_Surjection
<1>7. n <= Cardinality(Card)
  BY <1>3, <1>5, <1>6, FS_Injection
<1>8. Cardinality(Card) \in Nat
  BY <1>6, FS_CardinalityType
<1>9. n \in 0 .. m
  BY <1>1, <1>2, <1>6, <1>7, <1>8
<1>10. s \in SeqOf(Card, m)
  BY <1>1, <1>9 DEF SeqOf
<1> QED
  BY <1>1, <1>10 DEF Arrangement, m

LEMMA LayoutTyped == LayoutInv => LayoutTypeOK
<1>1. ASSUME NEW s, Described(s)
      PROVE  s \in Layout
  BY <1>1, ListingShort DEF Described, Layout
<1> QED
  BY <1>1, ListingShort DEF LayoutInv, LayoutTypeOK
=============================================================================
