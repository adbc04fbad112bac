--------------------------- MODULE PositionsCard ---------------------------
(***************************************************************************)
(* The positions card of the trading page, trading.js: what the account    *)
(* holds beside what the ledger tracks, the buttons that sell a position   *)
(* or take one out of the ledger.                                          *)
(*                                                                         *)
(* The server (external: src/trading) asks the firm for the holdings       *)
(* before it sells or voids; it acts on a position that was open when the  *)
(* request came in.                                                        *)
(***************************************************************************)
EXTENDS Integers, FiniteSets

CONSTANTS
    Pos,            \* positions, each of a stock of its own
    MaxPosRuns      \* bound: loads and handlers under way

ASSUME PosAssumption == MaxPosRuns \in Nat

VARIABLES
    ledger,         \* status of each position
    account,        \* positions whose stock the account holds
    posMemo,        \* _memo.positions
    posTable,       \* what the card was painted from
    posLoads,       \* loads under way
    posActs,        \* handlers of the buttons, under way
    warned          \* positions the user excludes although the account holds
                    \* them, or may

posVars == <<ledger, account, posMemo, posTable, posLoads, posActs, warned>>

View == [open: SUBSET Pos, held: SUBSET Pos, ok: BOOLEAN]
NoView == [open |-> {}, held |-> {}, ok |-> FALSE]
PosLoad == [at: {"perf", "acct"}, open: SUBSET Pos]
FirstLoad == [at |-> "perf", open |-> {}]

(* A button's handler: the request it sent, and where that request is.     *)
(* held: what the server learnt of the account, "unknown" if it failed to. *)
Act == [pos: Pos, kind: {"close", "void", "confirmed"},
        at: {"post", "checked", "done", "need_void", "need_confirm", "refused"},
        held: {"yes", "no", "unknown"}]
NewAct(p, kind) == [pos |-> p, kind |-> kind, at |-> "post", held |-> "unknown"]
ActStep(a, b) == posActs' = (posActs \ {a}) \cup {b}
PosRoom == Cardinality(posLoads) + Cardinality(posActs) < MaxPosRuns

PosTypeOK ==
    /\ ledger \in [Pos -> {"open", "closed", "void"}]
    /\ account \subseteq Pos
    /\ posMemo \in View
    /\ posTable \in View
    /\ posLoads \subseteq PosLoad
    /\ posActs \subseteq Act
    /\ warned \subseteq Pos

PosInit ==
    /\ ledger = [p \in Pos |-> "open"]
    /\ account \in SUBSET Pos
    /\ posMemo = NoView
    /\ posTable = NoView
    /\ posLoads = {}
    /\ posActs = {}
    /\ warned = {}

-----------------------------------------------------------------------------
(* The account and the exit loop *)

Fills(p) ==
    /\ p \notin account
    /\ account' = account \cup {p}
    /\ UNCHANGED <<ledger, posMemo, posTable, posLoads, posActs, warned>>

SoldByLoop(p) ==
    /\ ledger[p] = "open" /\ p \in account
    /\ ledger' = [ledger EXCEPT ![p] = "closed"]
    /\ account' = account \ {p}
    /\ UNCHANGED <<posMemo, posTable, posLoads, posActs, warned>>

SoldByHand(p) ==
    /\ p \in account
    /\ account' = account \ {p}
    /\ UNCHANGED <<ledger, posMemo, posTable, posLoads, posActs, warned>>

-----------------------------------------------------------------------------
(* loadPositions *)

PollPositions ==
    /\ PosRoom
    /\ posLoads' = posLoads \cup {FirstLoad}
    /\ UNCHANGED <<ledger, account, posMemo, posTable, posActs, warned>>

PerformanceAnswer(l, ok) ==
    /\ l.at = "perf"
    /\ posLoads' = (posLoads \ {l}) \cup
                   (IF ok THEN {[at |-> "acct", open |-> {p \in Pos : ledger[p] = "open"}]}
                    ELSE {})
    /\ UNCHANGED <<ledger, account, posMemo, posTable, posActs, warned>>

(* Without the account there is no table. *)
LoadPositions(l, ok) ==
    LET view == [open |-> l.open, held |-> IF ok THEN account ELSE {}, ok |-> ok]
    IN  /\ l.at = "acct"
        /\ posLoads' = posLoads \ {l}
        /\ IF posMemo = view
           THEN UNCHANGED <<posMemo, posTable>>
           ELSE posMemo' = view /\ posTable' = view
        /\ UNCHANGED <<ledger, account, posActs, warned>>

(* Positions the ledger tracks and the account does not hold. *)
Ghosts(view) == view.open \ view.held

-----------------------------------------------------------------------------
(* closePos and voidPos.  The buttons are not disabled while they run.     *)

ClickClose(p) ==
    /\ PosRoom
    /\ p \in posTable.open
    /\ posActs' = posActs \cup {NewAct(p, "close")}
    /\ UNCHANGED <<ledger, account, posMemo, posTable, posLoads, warned>>

ClickVoid(p) ==
    /\ PosRoom
    /\ p \in Ghosts(posTable)
    /\ posActs' = posActs \cup {NewAct(p, "void")}
    /\ UNCHANGED <<ledger, account, posMemo, posTable, posLoads, warned>>

(* The server looks the position up and asks for the holdings. *)
ServerChecks(a, known) ==
    /\ a.at = "post"
    /\ ActStep(a, [a EXCEPT
            !.at = IF ledger[a.pos] = "open" THEN "checked" ELSE "refused",
            !.held = IF ~known THEN "unknown" ELSE IF a.pos \in account THEN "yes" ELSE "no"])
    /\ UNCHANGED <<ledger, account, posMemo, posTable, posLoads, warned>>

(* A sale goes out unless the account is known to hold nothing; the firm   *)
(* refuses what it does not hold.                                          *)
ServerCloses(a) ==
    /\ a.at = "checked" /\ a.kind = "close"
    /\ IF a.held = "no"
       THEN ActStep(a, [a EXCEPT !.at = "need_void"]) /\ UNCHANGED <<ledger, account>>
       ELSE IF a.pos \in account /\ ledger[a.pos] = "open"
            THEN /\ ActStep(a, [a EXCEPT !.at = "done"])
                 /\ ledger' = [ledger EXCEPT ![a.pos] = "closed"]
                 /\ account' = account \ {a.pos}
            ELSE ActStep(a, [a EXCEPT !.at = "refused"]) /\ UNCHANGED <<ledger, account>>
    /\ UNCHANGED <<posMemo, posTable, posLoads, warned>>

(* Fault: holdings that could not be read are taken for none. *)
MayVoidUnread(a) == a.kind = "confirmed" \/ a.held # "yes"

(* void_position takes any position that is not void yet. *)
MayVoid(a) == a.kind = "confirmed" \/ a.held = "no"

ServerVoids(a) ==
    /\ a.at = "checked" /\ a.kind # "close"
    /\ IF MayVoid(a)
       THEN ActStep(a, [a EXCEPT !.at = "done"]) /\ ledger' = [ledger EXCEPT ![a.pos] = "void"]
       ELSE ActStep(a, [a EXCEPT !.at = "need_confirm"]) /\ UNCHANGED ledger
    /\ UNCHANGED <<account, posMemo, posTable, posLoads, warned>>

(* The two questions are asked one after the other when the user agrees.   *)
OffersVoid(a, agrees) ==
    /\ a.at = "need_void"
    /\ IF agrees
       THEN ActStep(a, NewAct(a.pos, "void")) /\ UNCHANGED posLoads
       ELSE posActs' = posActs \ {a} /\ posLoads' = posLoads \cup {FirstLoad}
    /\ UNCHANGED <<ledger, account, posMemo, posTable, warned>>

AsksAgain(a, agrees) ==
    /\ a.at = "need_confirm"
    /\ IF agrees
       THEN ActStep(a, NewAct(a.pos, "confirmed")) /\ warned' = warned \cup {a.pos}
       ELSE posActs' = posActs \ {a} /\ UNCHANGED warned
    /\ UNCHANGED <<ledger, account, posMemo, posTable, posLoads>>

(* The card is loaded again after an answer, not after an error. *)
ActEnds(a, ok) ==
    /\ a.at \in {"done", "refused"}
    /\ posActs' = posActs \ {a}
    /\ posLoads' = IF ok THEN posLoads \cup {FirstLoad} ELSE posLoads
    /\ UNCHANGED <<ledger, account, posMemo, posTable, warned>>

PosNext ==
    \/ \E p \in Pos : Fills(p) \/ SoldByLoop(p) \/ SoldByHand(p) \/ ClickClose(p) \/ ClickVoid(p)
    \/ PollPositions
    \/ \E l \in posLoads, ok \in BOOLEAN : PerformanceAnswer(l, ok) \/ LoadPositions(l, ok)
    \/ \E a \in posActs :
          \/ ServerCloses(a) \/ ServerVoids(a)
          \/ \E yes \in BOOLEAN : ServerChecks(a, yes) \/ OffersVoid(a, yes)
                                      \/ AsksAgain(a, yes) \/ ActEnds(a, yes)

PosSpec == PosInit /\ [][PosNext]_posVars

-----------------------------------------------------------------------------
(* Whatever the card showed when the button was clicked, an entry of the   *)
(* ledger whose stock the account held when the server looked, or could    *)
(* not be looked up, is taken out only after the user was told so and      *)
(* insisted: nobody loses the stop of a real holding by a stale row.       *)
(* (trading.js:672-684; main.py:1739-1756.)                                *)
HeldPositionVoidedKnowingly ==
    [][\A a \in posActs :
          ServerVoids(a) /\ a.held # "no" /\ ledger' # ledger => a.pos \in warned]_posVars
=============================================================================
