----------------------------- MODULE ChartView -----------------------------
(***************************************************************************)
(* The candle chart of the dashboard, chart.js: which bars are shown while *)
(* polls replace the bars and the user zooms, pans and points.  A bar is   *)
(* its opening time; pixels are reduced to the bar they fall on.           *)
(***************************************************************************)
EXTENDS Integers, Sequences, FiniteSets

CONSTANTS
    LastTime,       \* bound: bars open at 1 .. LastTime
    DefCount,       \* DEF_COUNT, the bars shown at first
    MinZoom,        \* the least number of bars the wheel zooms to (10)
    MarkTimes,      \* times of the executions a page may hand over
    PointedSlots    \* bound: slots of the window the pointer may be on

ASSUME ChartAssumption ==
    /\ LastTime \in Nat \ {0}
    /\ DefCount \in Nat \ {0}
    /\ MinZoom \in Nat \ {0}
    /\ PointedSlots \subseteq Nat

VARIABLES
    bars,       \* the bars, by time
    i0, i1,     \* the window: bars i0 .. i1 - 1, counted from 0
    drag,       \* the window at pointerdown, when a drag is on
    chartMarks, \* the executions to draw (marks)
    cursor,     \* the slot of the window the pointer is on
    raf,        \* a frame is requested
    frame       \* what the last frame drew

chartVars == <<bars, i0, i1, drag, chartMarks, cursor, raf, frame>>

NoDrag == [on |-> FALSE, i0 |-> 0, i1 |-> 0]
NoCursor == -1

Least(a, b) == IF a < b THEN a ELSE b
Greatest(a, b) == IF a < b THEN b ELSE a
Clamp(lo, hi, n) == Greatest(lo, Least(hi, n))

(* Bars a request may answer with: consecutive ones, up to the newest. *)
Feed == UNION {{[k \in 1 .. n |-> first + k] : n \in 0 .. LastTime - first} :
                  first \in 0 .. LastTime}

ChartTypeOK ==
    /\ bars \in Feed
    /\ i0 \in Nat
    /\ i1 \in Nat
    /\ drag \in [on: BOOLEAN, i0: Nat, i1: Nat]
    /\ chartMarks \subseteq MarkTimes
    /\ cursor \in Nat \cup {NoCursor}
    /\ raf \in BOOLEAN

-----------------------------------------------------------------------------
(* Algorithms *)

(* Fault: an execution at the opening time of a bar goes to the bar before. *)
BarIndexBefore(s, t) == Cardinality({i \in DOMAIN s : s[i] < t}) - 1

(* Index of the bar a time falls in, -1 before the first: a binary search. *)
BarIndexAt(s, t) ==
    LET search[w \in [lo: 0 .. Len(s), hi: -1 .. Len(s) - 1, best: -1 .. Len(s) - 1]] ==
            LET m == (w.lo + w.hi) \div 2
            IN  IF w.lo > w.hi THEN w.best
                ELSE IF s[m + 1] <= t THEN search[[w EXCEPT !.lo = m + 1, !.best = m]]
                ELSE search[[w EXCEPT !.hi = m - 1]]
    IN  search[[lo |-> 0, hi |-> Len(s) - 1, best |-> -1]]

(* The running sums of sma: at i, the sum of the last p values up to i. *)
RunningSum(s, p) ==
    LET sum[i \in 0 .. Len(s)] ==
            IF i = 0 THEN 0
            ELSE sum[i - 1] + s[i] - (IF i > p THEN s[i - p] ELSE 0)
    IN  [i \in {k \in 1 .. Len(s) : k >= p} |-> sum[i]]

-----------------------------------------------------------------------------
(* draw: the bars of the window, the executions that fall in it, and the   *)
(* bar the legend describes.                                               *)
Drawn(b, ms, from, to, cur) ==
    LET view == {k \in from .. to - 1 : k < Len(b)}
        slots == Greatest(1, to - from)
        pointed == from + Clamp(0, slots - 1, cur)
        legend == IF cur # NoCursor THEN pointed ELSE to - 1
    IN  [candles |-> {b[k + 1] : k \in view},
         marks |-> {t \in ms : BarIndexAt(b, t) \in from .. to - 1},
         legend |-> IF legend \in 0 .. Len(b) - 1 /\ (cur # NoCursor \/ view # {})
                    THEN b[legend + 1] ELSE 0]

ChartInit ==
    /\ bars = <<>>
    /\ i0 = 0 /\ i1 = 0
    /\ drag = NoDrag
    /\ chartMarks = {}
    /\ cursor = NoCursor
    /\ raf = FALSE
    /\ frame = Drawn(<<>>, {}, 0, 0, NoCursor)

Schedule == raf' = TRUE

ShowLast(b, n) == i1' = Len(b) /\ i0' = Greatest(0, Len(b) - Least(Len(b), n))

(* Bars of another stock or period. *)
SetData(b) ==
    /\ bars' = b
    /\ ShowLast(b, DefCount)
    /\ cursor' = NoCursor
    /\ Schedule
    /\ UNCHANGED <<drag, chartMarks, frame>>

(* Fault: a window beyond the new bars is only cut at its end. *)
WindowKept(b) ==
    /\ i1' = IF i1 >= Len(bars) THEN Len(b) ELSE Least(i1, Len(b))
    /\ i0' = i0

(* What a poll brings: the window follows the newest bar when it showed it. *)
UpdatedWindow(b) ==
    IF i1 >= Len(bars)
    THEN /\ i1' = Len(b)
         /\ i0' = Greatest(0, Len(b) - Greatest(1, i1 - i0))
    ELSE /\ i1' = Least(i1, Len(b))
         /\ i0' = Greatest(0, Least(i0, Least(i1, Len(b)) - 1))

Update(b) ==
    \/ bars = <<>> /\ SetData(b)
    \/ /\ bars # <<>>
       /\ bars' = b
       /\ UpdatedWindow(b)
       /\ Schedule
       /\ UNCHANGED <<drag, cursor, chartMarks, frame>>

SetVisibleCount(n) ==
    /\ ShowLast(bars, n)
    /\ Schedule
    /\ UNCHANGED <<bars, drag, cursor, chartMarks, frame>>

(* The executions of the stock come with a request of their own. *)
SetMarkers(ms) ==
    /\ chartMarks' = ms
    /\ Schedule
    /\ UNCHANGED <<bars, i0, i1, drag, cursor, frame>>

(* Factor of a turn of the wheel, rounded to whole bars. *)
Zoomed(count, in) == (count * (IF in THEN 85 ELSE 118) + 50) \div 100

(* at: the pointer at the left edge, the middle or the right edge. *)
OnWheel(in, at) ==
    LET count == i1 - i0
        newCount == Greatest(MinZoom, Least(Len(bars), Zoomed(count, in)))
        n0 == (2 * i0 + at * (count - newCount) + 1) \div 2
    IN  /\ bars # <<>>
        /\ i0' = Greatest(0, Least(Len(bars) - newCount, n0))
        /\ i1' = i0' + newCount
        /\ Schedule
        /\ UNCHANGED <<bars, drag, cursor, chartMarks, frame>>

OnDown ==
    /\ ~drag.on
    /\ drag' = [on |-> TRUE, i0 |-> i0, i1 |-> i1]
    /\ UNCHANGED <<bars, i0, i1, cursor, raf, chartMarks, frame>>

OnUp ==
    /\ drag.on
    /\ drag' = NoDrag
    /\ UNCHANGED <<bars, i0, i1, cursor, raf, chartMarks, frame>>

OnMove(slot) ==
    /\ ~drag.on
    /\ cursor' = slot
    /\ Schedule
    /\ UNCHANGED <<bars, i0, i1, drag, chartMarks, frame>>

(* The pointer moved by shift bars since pointerdown.  With no bar in the  *)
(* window then, the width of a bar is infinite and the shift is none.      *)
OnDrag(shift, slot) ==
    LET count == drag.i1 - drag.i0
        n0 == drag.i0 - (IF count = 0 THEN 0 ELSE shift)
    IN  /\ drag.on
        /\ i0' = Greatest(0, Least(Len(bars) - count, n0))
        /\ i1' = i0' + count
        /\ cursor' = slot
        /\ Schedule
        /\ UNCHANGED <<bars, drag, chartMarks, frame>>

(* Fault: the cross hair is dropped without a new frame. *)
LeaveUndrawn ==
    /\ cursor' = NoCursor
    /\ UNCHANGED <<bars, i0, i1, drag, raf, chartMarks, frame>>

OnLeave ==
    /\ cursor' = NoCursor
    /\ Schedule
    /\ UNCHANGED <<bars, i0, i1, drag, chartMarks, frame>>

(* requestAnimationFrame: one frame for all the changes since the last. *)
Frame ==
    /\ raf
    /\ raf' = FALSE
    /\ frame' = Drawn(bars, chartMarks, i0, i1, cursor)
    /\ UNCHANGED <<bars, i0, i1, drag, chartMarks, cursor>>

ChartNext ==
    \/ \E b \in Feed : SetData(b) \/ Update(b)
    \/ \E n \in {DefCount, LastTime} : SetVisibleCount(n)
    \/ \E ms \in SUBSET MarkTimes : SetMarkers(ms)
    \/ \E in \in BOOLEAN, at \in 0 .. 2 : OnWheel(in, at)
    \/ OnDown
    \/ OnUp
    \/ \E slot \in PointedSlots : OnMove(slot)
    \/ \E shift \in -LastTime .. LastTime, slot \in PointedSlots : OnDrag(shift, slot)
    \/ OnLeave
    \/ Frame

ChartSpec == ChartInit /\ [][ChartNext]_chartVars

-----------------------------------------------------------------------------
(* Whatever polls, zooms and drags overlap, the first slot of the window   *)
(* is an existing bar: a drag that outlives its bars, or a zoom beyond     *)
(* them, never leaves the user on blank space alone.  (chart.js:111-127,   *)
(* 382-411.)                                                               *)
WindowStartsOnBar == i0 <= i1 /\ (bars # <<>> => i0 < Len(bars))

(* Once no frame is due, the canvas shows the current bars, window,        *)
(* executions and pointer: every change asks for a frame, even the ones    *)
(* made while one is already due.  (chart.js:159-162.)                     *)
FrameUpToDate == ~raf => frame = Drawn(bars, chartMarks, i0, i1, cursor)

(* The two algorithms of the chart against what they are for, on inputs as *)
(* long as the chart: the bar of an execution is the last one that opened  *)
(* before it, also when bars are missing in between (chart.js:150-157), a  *)
(* moving sum is the sum of the last p values (chart.js:21-30).            *)
ChartAlgorithms ==
    /\ \A s \in [DOMAIN bars -> 1 .. LastTime + 2], t \in 0 .. LastTime + 3 :
          (\A i, j \in DOMAIN s : i < j => s[i] < s[j]) =>
              BarIndexAt(s, t) = Cardinality({i \in DOMAIN s : s[i] <= t}) - 1
    /\ \A s \in [DOMAIN bars -> 0 .. 2], p \in DOMAIN bars : \A i \in p .. Len(bars) :
          LET total[k \in 0 .. i] == IF k <= i - p THEN 0 ELSE total[k - 1] + s[k]
          IN  RunningSum(s, p)[i] = total[i]
=============================================================================
