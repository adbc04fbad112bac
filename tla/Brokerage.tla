------------------------------ MODULE Brokerage ------------------------------
(***************************************************************************)
(* The securities firm as the trading service sees it through its REST     *)
(* client (kiwoom/client.py order, cancel_order, balance): an order book   *)
(* of numbered market orders and the shares in the account.  The firm is   *)
(* external code; everything here is what orders.py and fills.py rely on.  *)
(*   - an accepted order gets the next order number of the day;            *)
(*   - a market order may fill in pieces, and stops when it is cancelled;  *)
(*   - a sell is accepted only for sellable shares: those held and not     *)
(*     tied to another working sell (the "sellable quantity is short"      *)
(*     refusal that orders.py counts on to limit itself).                  *)
(* Each position has a stock of its own (risk.one_position_per_symbol), so *)
(* a position names the stock it is in.                                    *)
(***************************************************************************)
EXTENDS Integers

CONSTANTS
    Pos,        \* positions; the id of a position is the id of its entry order
    None,       \* the null id
    Lot,        \* shares proposed by an entry signal
    MaxOrders   \* bound: order numbers the firm gives out in one behaviour

ASSUME BrokerageAssumption ==
    /\ Lot \in Nat \ {0}
    /\ MaxOrders \in Nat \ {0}
    /\ None \notin Pos

VARIABLES
    book,       \* order number -> order
    nextNo,     \* the next order number
    held,       \* shares in the account, by stock
    free        \* of those, the sellable ones

brokerVars == <<book, nextNo, held, free>>

OrdNo == 1 .. MaxOrders
OrdRef == 0 .. MaxOrders    \* an order number, 0 for none
Sides == {"none", "buy", "sell"}

NoOrder == [side |-> "none", pos |-> None, qty |-> 0, filled |-> 0, live |-> FALSE]

OrderType ==
    [side: Sides, pos: Pos \cup {None}, qty: Nat,
     filled: Nat, live: BOOLEAN]

BrokerTypeOK ==
    /\ book \in [OrdNo -> OrderType]
    /\ nextNo \in 1 .. (MaxOrders + 1)
    /\ held \in [Pos -> Int]
    /\ free \in [Pos -> Int]

BrokerInit ==
    /\ book = [o \in OrdNo |-> NoOrder]
    /\ nextNo = 1
    /\ held = [p \in Pos |-> 0]
    /\ free = [p \in Pos |-> 0]

Remaining(o) == book[o].qty - book[o].filled

IsOrder(o, side, p) == o \in OrdNo /\ book[o].side = side /\ book[o].pos = p

(* The firm takes an order and numbers it. *)
Accept(side, p, q) ==
    /\ nextNo \in OrdNo
    /\ q > 0
    /\ side = "sell" => q <= free[p]
    /\ book' = [book EXCEPT ![nextNo] =
                   [side |-> side, pos |-> p, qty |-> q, filled |-> 0, live |-> TRUE]]
    /\ nextNo' = nextNo + 1
    /\ free' = IF side = "sell" THEN [free EXCEPT ![p] = @ - q] ELSE free
    /\ UNCHANGED held

(* A cancel request ends what is left of a working order. *)
CancelWorking(o) ==
    /\ book[o].live
    /\ book' = [book EXCEPT ![o].live = FALSE]
    /\ free' = IF book[o].side = "sell"
               THEN [free EXCEPT ![book[o].pos] = @ + Remaining(o)] ELSE free
    /\ UNCHANGED <<nextNo, held>>

(* One share of a working order trades. *)
Trade(o) ==
    /\ book[o].live
    /\ book' = [book EXCEPT ![o].filled = @ + 1, ![o].live = Remaining(o) > 1]
    /\ LET p == book[o].pos IN
         IF book[o].side = "buy"
         THEN /\ held' = [held EXCEPT ![p] = @ + 1]
              /\ free' = [free EXCEPT ![p] = @ + 1]
         ELSE /\ held' = [held EXCEPT ![p] = @ - 1]
              /\ UNCHANGED free
    /\ UNCHANGED nextNo
=============================================================================
