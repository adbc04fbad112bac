----------------------------- MODULE CardLayout -----------------------------
(***************************************************************************)
(* The editor of a page's card grid, layout.js: cards are dragged to other *)
(* places and resized by handles; order, widths and heights are kept in    *)
(* memory and written to localStorage, from where the next load of the     *)
(* page restores them.  Other tabs of the page write the same key.         *)
(***************************************************************************)
EXTENDS Integers, Sequences, SequencesExt, FiniteSets

CONSTANTS
    CardSeq,        \* the cards as the page builds them (dataset.cardIndex)
    WithLink,       \* cards that hold a link, which the browser lets one drag
    MinW, MaxW,     \* columns a card may take; every card starts with MaxW
    MinH, MaxPx,    \* least height of a card; bound on pixels
    StoredOrders    \* orders earlier versions of the page may have stored

Card == ToSet(CardSeq)
Arrangement == {s \in SeqOf(Card, Len(CardSeq)) : IsInjective(s)}
AutoHeight == 0     \* no fixed height: h-100
Unset == 0          \* no entry in state.width or state.height
NoCard == "none"

ASSUME LayoutAssumption ==
    /\ CardSeq \in Seq(Card) /\ IsInjective(CardSeq)
    /\ WithLink \subseteq Card /\ NoCard \notin Card
    /\ MinW \in Nat \ {0} /\ MaxW \in Nat /\ MinW <= MaxW
    /\ MinH \in Nat \ {0} /\ MaxPx \in Nat /\ MinH <= MaxPx
    /\ StoredOrders \subseteq Arrangement

VARIABLES
    row,            \* the cards of the row, in document order
    width, height,  \* what the cards show
    state,          \* state: order, width, height
    stored,         \* localStorage
    full,           \* localStorage cannot be written
    mine,           \* the last write to localStorage was by this tab, or read by it
    editing,
    dragEl,
    resizing        \* the card and the mode of the resize that is on

layoutVars == <<row, width, height, state, stored, full, mine, editing, dragEl, resizing>>

Empty == [order |-> <<>>, width |-> [c \in Card |-> Unset], height |-> [c \in Card |-> Unset]]
NoResize == [card |-> NoCard, mode |-> "w"]

Layout == [order: Arrangement,
           width: [Card -> {Unset} \cup MinW .. MaxW],
           height: [Card -> {Unset} \cup MinH .. MaxPx]]

LayoutTypeOK ==
    /\ row \in Arrangement /\ ToSet(row) = Card
    /\ width \in [Card -> MinW .. MaxW]
    /\ height \in [Card -> {AutoHeight} \cup MinH .. MaxPx]
    /\ state \in Layout
    /\ stored \in Layout
    /\ full \in BOOLEAN
    /\ mine \in BOOLEAN
    /\ editing \in BOOLEAN
    /\ dragEl \in Card \cup {NoCard}
    /\ resizing \in [card: Card \cup {NoCard}, mode: {"w", "h", "wh"}]

Bounded(lo, hi, n) == IF n < lo THEN lo ELSE IF n > hi THEN hi ELSE n

(* The elements of s that are in S, in their order. *)
Kept(s, S) ==
    LET kept[i \in 0 .. Len(s)] ==
            IF i = 0 THEN <<>>
            ELSE IF s[i] \in S THEN Append(kept[i - 1], s[i]) ELSE kept[i - 1]
    IN  kept[Len(s)]

(* What applyAll makes of a row: cards the order does not list keep their  *)
(* places before the listed ones.                                          *)
Reordered(r, order) ==
    Kept(r, Card \ ToSet(order)) \o Kept(order, ToSet(r))

ShownWidth(s, c) == IF s.width[c] = Unset THEN MaxW ELSE Bounded(MinW, MaxW, s.width[c])
ShownHeight(s, c) == IF s.height[c] = Unset THEN AutoHeight ELSE Bounded(MinH, MaxPx, s.height[c])

ApplyAll(s) ==
    /\ row' = Reordered(CardSeq, s.order)
    /\ width' = [c \in Card |-> ShownWidth(s, c)]
    /\ height' = [c \in Card |-> ShownHeight(s, c)]

(* saveState; that the storage is full is ignored. *)
SaveState(s) ==
    /\ state' = s
    /\ \/ ~full /\ stored' = s /\ mine' = TRUE
       \/ full /\ stored' = stored /\ mine' = FALSE

LayoutInit ==
    /\ stored \in {[Empty EXCEPT !.order = o] : o \in StoredOrders \cup {<<>>}}
    /\ state = stored
    /\ row = Reordered(CardSeq, stored.order)
    /\ width = [c \in Card |-> ShownWidth(stored, c)]
    /\ height = [c \in Card |-> ShownHeight(stored, c)]
    /\ full \in BOOLEAN
    /\ mine = TRUE
    /\ editing = FALSE
    /\ dragEl = NoCard
    /\ resizing = NoResize

(* Loading the page again: makeLayoutEditable reads the storage. *)
Reload ==
    /\ state' = stored
    /\ ApplyAll(stored)
    /\ mine' = TRUE
    /\ editing' = FALSE
    /\ dragEl' = NoCard
    /\ resizing' = NoResize
    /\ UNCHANGED <<stored, full>>

SetEditing ==
    /\ editing' = ~editing
    /\ UNCHANGED <<row, width, height, state, stored, full, mine, dragEl, resizing>>

(* Cards are draggable while editing; a link in a card always is. *)
OnDragStart(c) ==
    /\ editing \/ c \in WithLink
    /\ dragEl = NoCard /\ resizing = NoResize
    /\ dragEl' = c
    /\ UNCHANGED <<row, width, height, state, stored, full, mine, editing, resizing>>

(* The dragged card moves while it is over another one, to its near side. *)
OnDragOver(target, after) ==
    /\ dragEl # NoCard /\ target # dragEl
    /\ LET others == Kept(row, Card \ {dragEl})
           at == CHOOSE i \in DOMAIN others : others[i] = target
       IN  row' = InsertAt(others, IF after THEN at + 1 ELSE at, dragEl)
    /\ UNCHANGED <<width, height, state, stored, full, mine, editing, dragEl, resizing>>

(* Fault: the order is not saved when the card is dropped. *)
DropUnsaved ==
    /\ dragEl # NoCard
    /\ dragEl' = NoCard
    /\ UNCHANGED <<row, width, height, state, stored, full, mine, editing, resizing>>

(* persistOrder: whole state of this tab, the order as the row has it. *)
OnDragEnd ==
    /\ dragEl # NoCard
    /\ dragEl' = NoCard
    /\ SaveState([state EXCEPT !.order = row])
    /\ UNCHANGED <<row, width, height, full, editing, resizing>>

StartResize(c, mode) ==
    /\ editing /\ dragEl = NoCard /\ resizing = NoResize
    /\ resizing' = [card |-> c, mode |-> mode]
    /\ UNCHANGED <<row, width, height, state, stored, full, mine, editing, dragEl>>

(* Fault: the size under the pointer is taken as it is. *)
ResizeUnbounded(n, px) ==
    LET c == resizing.card
    IN  /\ c # NoCard
        /\ width' = IF resizing.mode = "h" THEN width ELSE [width EXCEPT ![c] = n]
        /\ height' = IF resizing.mode = "w" THEN height ELSE [height EXCEPT ![c] = px]
        /\ UNCHANGED <<row, state, stored, full, mine, editing, dragEl, resizing>>

(* n columns and px pixels under the pointer; zero pixels means no fixed   *)
(* height (applyHeight).                                                   *)
OnResize(n, px) ==
    LET c == resizing.card
    IN  /\ c # NoCard
        /\ width' = IF resizing.mode = "h" THEN width
                    ELSE [width EXCEPT ![c] = Bounded(MinW, MaxW, n)]
        /\ height' = IF resizing.mode = "w" THEN height
                     ELSE [height EXCEPT ![c] = IF px = 0 THEN AutoHeight ELSE Bounded(MinH, MaxPx, px)]
        /\ UNCHANGED <<row, state, stored, full, mine, editing, dragEl, resizing>>

(* The width is always taken over, the height when the card has one. *)
EndResize ==
    LET c == resizing.card
    IN  /\ c # NoCard
        /\ resizing' = NoResize
        /\ SaveState([state EXCEPT !.width[c] = width[c],
                                   !.height[c] = IF height[c] = AutoHeight THEN @ ELSE height[c]])
        /\ UNCHANGED <<row, width, height, full, editing, dragEl>>

(* "기본 배치로 초기화": the cards are sorted by dataset.cardIndex. *)
ResetLayout ==
    /\ editing /\ dragEl = NoCard /\ resizing = NoResize
    /\ SaveState(Empty)
    /\ ApplyAll(Empty)
    /\ UNCHANGED <<full, editing, dragEl, resizing>>

(* Another tab of the page, which was never arranged, is reset. *)
OtherTabResets ==
    /\ stored # Empty
    /\ stored' = Empty
    /\ mine' = FALSE
    /\ UNCHANGED <<row, width, height, state, full, editing, dragEl, resizing>>

LayoutNext ==
    \/ Reload
    \/ SetEditing
    \/ \E c \in Card : OnDragStart(c)
    \/ \E c \in Card, after \in BOOLEAN : OnDragOver(c, after)
    \/ OnDragEnd
    \/ \E c \in Card, mode \in {"w", "h", "wh"} : StartResize(c, mode)
    \/ \E n \in MinW - 1 .. MaxW + 1, px \in -1 .. MaxPx : OnResize(n, px)
    \/ EndResize
    \/ ResetLayout
    \/ OtherTabResets

LayoutSpec == LayoutInit /\ [][LayoutNext]_layoutVars

-----------------------------------------------------------------------------
(* Between gestures, and unless another tab or a full storage came in      *)
(* between, a reload shows the arrangement that is on the screen: the      *)
(* order, the widths and every fixed height ("the result is kept across    *)
(* reloads", layout.js:3-4).  A card whose height was dragged to zero is   *)
(* left out: it shows no fixed height and keeps the stored one.            *)
ReloadKeepsArrangement ==
    mine /\ dragEl = NoCard /\ resizing = NoResize =>
        /\ Reordered(CardSeq, stored.order) = row
        /\ \A c \in Card :
              /\ ShownWidth(stored, c) = width[c]
              /\ height[c] # AutoHeight => ShownHeight(stored, c) = height[c]
=============================================================================
