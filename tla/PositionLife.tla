---------------------------- MODULE PositionLife ----------------------------
(***************************************************************************)
(* What the trading service promises about a position, whoever acts on it: *)
(* it is opened at most once, after the firm took a buy; nothing of it is  *)
(* sold before it was opened; it is closed at most once, after the firm    *)
(* took a sell; and a void position is out of the ledger for good.         *)
(***************************************************************************)
CONSTANT Pos

VARIABLES
    stage,      \* position -> "none", "open", "closed" or "void"
    bought,     \* positions for which the firm has taken a buy
    sold        \* positions for which the firm has taken a sell

vars == <<stage, bought, sold>>

Init ==
    /\ stage = [p \in Pos |-> "none"]
    /\ bought = {}
    /\ sold = {}

Buy(p) ==
    /\ bought' = bought \cup {p}
    /\ UNCHANGED <<stage, sold>>

Open(p) ==
    /\ stage[p] = "none"
    /\ p \in bought
    /\ stage' = [stage EXCEPT ![p] = "open"]
    /\ UNCHANGED <<bought, sold>>

Sell(p) ==
    /\ stage[p] # "none"
    /\ sold' = sold \cup {p}
    /\ UNCHANGED <<stage, bought>>

Close(p) ==
    /\ stage[p] = "open"
    /\ p \in sold
    /\ stage' = [stage EXCEPT ![p] = "closed"]
    /\ UNCHANGED <<bought, sold>>

Void(p) ==
    /\ stage[p] \in {"open", "closed"}
    /\ stage' = [stage EXCEPT ![p] = "void"]
    /\ UNCHANGED <<bought, sold>>

Next == \E p \in Pos : Buy(p) \/ Open(p) \/ Sell(p) \/ Close(p) \/ Void(p)

Spec == Init /\ [][Next]_vars
=============================================================================
