----------------------------- MODULE OrdersCard -----------------------------
(***************************************************************************)
(* The card of orders waiting for approval on the trading page,            *)
(* trading.js: the poll that reads the orders twice (the pending ones and  *)
(* the last fifty), the memo that avoids repainting, the quantities the    *)
(* user edits, and the approve and reject buttons.                         *)
(*                                                                         *)
(* The server (external: src/trading) is reduced to the status of each     *)
(* order and a price that moves.                                           *)
(***************************************************************************)
EXTENDS Integers

CONSTANTS
    Order,
    NoOrder,
    MaxLoads,       \* bound: loads of the card under way
    MaxPrice,       \* bound: price moves
    MaxQty          \* bound: quantities typed

ASSUME OrdersAssumption ==
    /\ NoOrder \notin Order
    /\ MaxLoads \in Nat /\ MaxPrice \in Nat /\ MaxQty \in Nat \ {0}

Load == 1 .. MaxLoads
Status == {"none", "pending", "sent", "rejected"}

VARIABLES
    ordStatus,      \* status of each order on the server
    price,          \* current price, as the server knows it
    ordLoads,       \* loads under way: the two answers they wait for
    ordMemo,        \* _memo.orders
    ordShown,       \* what the card was painted from
    qty,            \* quantity in the input of each row
    focus,          \* the order whose quantity is edited
    disabled,       \* orders whose approve button is disabled
    posts           \* approvals and rejections the server has not answered

ordersVars ==
    <<ordStatus, price, ordLoads, ordMemo, ordShown, qty, focus, disabled, posts>>

Nothing == [pending |-> {}, price |-> 0, done |-> {}, known |-> FALSE]
Data == [pending: SUBSET Order, price: 0 .. MaxPrice, done: SUBSET Order, known: BOOLEAN]
Idle == [pc |-> "idle", data |-> Nothing]

Pending == {o \in Order : ordStatus[o] = "pending"}
Done == {o \in Order : ordStatus[o] \in {"sent", "rejected"}}

OrdersTypeOK ==
    /\ ordStatus \in [Order -> Status]
    /\ price \in 0 .. MaxPrice
    /\ ordLoads \in [Load -> [pc: {"idle", "asked", "half", "answered"}, data: Data]]
    /\ ordMemo \in Data
    /\ ordShown \in Data
    /\ qty \in [Order -> 0 .. MaxQty]
    /\ focus \in Order \cup {NoOrder}
    /\ disabled \subseteq Order
    /\ posts \subseteq [order: Order, qty: 0 .. MaxQty]

OrdersInit ==
    /\ ordStatus = [o \in Order |-> "none"]
    /\ price = 0
    /\ ordLoads = [l \in Load |-> Idle]
    /\ ordMemo = Nothing
    /\ ordShown = Nothing
    /\ qty = [o \in Order |-> 1]
    /\ focus = NoOrder
    /\ disabled = {}
    /\ posts = {}

-----------------------------------------------------------------------------
(* The server *)

Propose(o) ==
    /\ ordStatus[o] = "none"
    /\ ordStatus' = [ordStatus EXCEPT ![o] = "pending"]
    /\ UNCHANGED <<price, ordLoads, ordMemo, ordShown, qty, focus, disabled, posts>>

PriceMoves ==
    /\ price < MaxPrice
    /\ price' = price + 1
    /\ UNCHANGED <<ordStatus, ordLoads, ordMemo, ordShown, qty, focus, disabled, posts>>

(* The two reads of a load reach the server one after the other. *)
ReadPending(l) ==
    /\ ordLoads[l].pc = "asked"
    /\ ordLoads' = [ordLoads EXCEPT ![l] =
            [pc |-> "half", data |-> [pending |-> Pending, price |-> price,
                                      done |-> {}, known |-> TRUE]]]
    /\ UNCHANGED <<ordStatus, price, ordMemo, ordShown, qty, focus, disabled, posts>>

ReadHistory(l) ==
    /\ ordLoads[l].pc = "half"
    /\ ordLoads' = [ordLoads EXCEPT ![l].pc = "answered", ![l].data.done = Done]
    /\ UNCHANGED <<ordStatus, price, ordMemo, ordShown, qty, focus, disabled, posts>>

-----------------------------------------------------------------------------
(* The card *)

StartLoad(loads) ==
    \E l \in Load : loads[l] = Idle /\ ordLoads' = [loads EXCEPT ![l].pc = "asked"]

PollOrders ==
    /\ StartLoad(ordLoads)
    /\ UNCHANGED <<ordStatus, price, ordMemo, ordShown, qty, focus, disabled, posts>>

Paint(d) ==
    /\ ordMemo' = d
    /\ ordShown' = d
    /\ qty' = [o \in Order |-> 1]
    /\ disabled' = {}
    /\ focus' = NoOrder

(* Fault: the answer is remembered before the focus is looked at. *)
MemoFirst(l) ==
    LET d == ordLoads[l].data
    IN  /\ ordLoads[l].pc = "answered"
        /\ ordLoads' = [ordLoads EXCEPT ![l] = Idle]
        /\ ordMemo' = d
        /\ IF focus # NoOrder \/ ordMemo = d
           THEN UNCHANGED <<ordShown, qty, disabled, focus>>
           ELSE Paint(d)
        /\ UNCHANGED <<ordStatus, price, posts>>

(* Fault: the focus is not looked at. *)
PaintOverFocus(l) ==
    LET d == ordLoads[l].data
    IN  /\ ordLoads[l].pc = "answered"
        /\ ordLoads' = [ordLoads EXCEPT ![l] = Idle]
        /\ IF ordMemo = d
           THEN UNCHANGED <<ordMemo, ordShown, qty, disabled, focus>>
           ELSE Paint(d)
        /\ UNCHANGED <<ordStatus, price, posts>>

(* The end of loadOrders: nothing while an input of the card is focused,   *)
(* and the answer is not remembered then; nothing when it says nothing new.*)
LoadOrders(l) ==
    LET d == ordLoads[l].data
    IN  /\ ordLoads[l].pc = "answered"
        /\ ordLoads' = [ordLoads EXCEPT ![l] = Idle]
        /\ IF focus # NoOrder \/ ordMemo = d
           THEN UNCHANGED <<ordMemo, ordShown, qty, disabled, focus>>
           ELSE Paint(d)
        /\ UNCHANGED <<ordStatus, price, posts>>

LoadFails(l) ==
    /\ ordLoads[l].pc # "idle"
    /\ ordLoads' = [ordLoads EXCEPT ![l] = Idle]
    /\ UNCHANGED <<ordStatus, price, ordMemo, ordShown, qty, focus, disabled, posts>>

Focus(o) ==
    /\ o \in ordShown.pending /\ focus # o
    /\ focus' = o
    /\ UNCHANGED <<ordStatus, price, ordLoads, ordMemo, ordShown, qty, disabled, posts>>

Blur ==
    /\ focus # NoOrder
    /\ focus' = NoOrder
    /\ UNCHANGED <<ordStatus, price, ordLoads, ordMemo, ordShown, qty, disabled, posts>>

TypeQty(q) ==
    /\ focus # NoOrder
    /\ qty' = [qty EXCEPT ![focus] = q]
    /\ UNCHANGED <<ordStatus, price, ordLoads, ordMemo, ordShown, focus, disabled, posts>>

(* The confirmed quantity is sent; the click takes the focus. *)
Approve(o) ==
    /\ o \in ordShown.pending \ disabled
    /\ qty[o] >= 1
    /\ posts' = posts \cup {[order |-> o, qty |-> qty[o]]}
    /\ disabled' = disabled \cup {o}
    /\ focus' = NoOrder
    /\ UNCHANGED <<ordStatus, price, ordLoads, ordMemo, ordShown, qty>>

(* The button of a rejection stays enabled; quantity 0 marks the request. *)
Reject(o) ==
    /\ o \in ordShown.pending
    /\ posts' = posts \cup {[order |-> o, qty |-> 0]}
    /\ focus' = NoOrder
    /\ UNCHANGED <<ordStatus, price, ordLoads, ordMemo, ordShown, qty, disabled>>

(* The answer, or the failure, of a request; the card is loaded again.  An *)
(* approval may leave the order pending for lack of margin.                *)
PostAnswered(p) ==
    /\ p \in posts
    /\ posts' = posts \ {p}
    /\ ordStatus' \in
            {ordStatus} \cup
            (IF ordStatus[p.order] # "pending" THEN {}
             ELSE {[ordStatus EXCEPT ![p.order] = s] :
                      s \in IF p.qty = 0 THEN {"rejected"} ELSE {"sent", "rejected"}})
    /\ StartLoad(ordLoads) \/ ((\A l \in Load : ordLoads[l] # Idle) /\ UNCHANGED ordLoads)
    /\ UNCHANGED <<price, ordMemo, ordShown, qty, focus, disabled>>

OrdersNext ==
    \/ \E o \in Order : Propose(o) \/ Focus(o) \/ Approve(o) \/ Reject(o)
    \/ PriceMoves
    \/ \E l \in Load : ReadPending(l) \/ ReadHistory(l) \/ LoadOrders(l) \/ LoadFails(l)
    \/ PollOrders
    \/ Blur
    \/ \E q \in 0 .. MaxQty : TypeQty(q)
    \/ \E p \in posts : PostAnswered(p)

OrdersSpec == OrdersInit /\ [][OrdersNext]_ordersVars

-----------------------------------------------------------------------------
(* The memo never runs ahead of the card: an answer that was not painted   *)
(* because the user was typing is not taken for painted, so the next poll  *)
(* after the user leaves the field repaints the card.  (trading.js:1107-   *)
(* 1110: the focus is looked at before the memo is written.)               *)
MemoIsPainted == ordMemo = ordShown

(* "Do not overwrite a quantity the user is editing" (trading.js:1107): a  *)
(* load that began before the user entered the field and ends while he is  *)
(* in it leaves every typed quantity, and the row it belongs to, in place. *)
TypedQuantityKept ==
    [][focus # NoOrder /\ ordLoads' # ordLoads =>
          qty' = qty /\ ordShown' = ordShown /\ focus' = focus]_ordersVars
=============================================================================
