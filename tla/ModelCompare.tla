---------------------------- MODULE ModelCompare ----------------------------
(***************************************************************************)
(* The comparison of two language models, llm-models.js: a click starts a  *)
(* run at the gateway, and a loop asks for its state every two seconds and *)
(* paints it, until the run is done or the loop has asked often enough.    *)
(***************************************************************************)
EXTENDS Integers

CONSTANTS
    MaxCompares,    \* bound: clicks on "compare"
    MaxPolls        \* how often a comparison asks for its run (300)

ASSUME CompareAssumption == MaxCompares \in Nat /\ MaxPolls \in Nat

VARIABLES
    abRunOff,       \* "compare" is disabled
    abClicks,       \* clicks on it so far
    abLoops,        \* its handlers, under way
    abOut,          \* the comparison that is shown
    runDone         \* runs the gateway has finished

compareVars == <<abRunOff, abClicks, abLoops, abOut, runDone>>

(* A click is known by its number; the run it starts has the same.         *)
AbClick == 1 .. MaxCompares
AbLoop == [click: AbClick, at: {"post", "wait", "ask"}, polls: 0 .. MaxPolls]
NoOut == [click |-> 0, state |-> "empty"]

CompareTypeOK ==
    /\ abRunOff \in BOOLEAN
    /\ abClicks \in 0 .. MaxCompares
    /\ abLoops \subseteq AbLoop
    /\ abOut \in [click: 0 .. MaxCompares, state: {"empty", "running", "done", "failed"}]
    /\ runDone \subseteq AbClick

CompareInit ==
    /\ abRunOff = FALSE
    /\ abClicks = 0
    /\ abLoops = {}
    /\ abOut = NoOut
    /\ runDone = {}

-----------------------------------------------------------------------------
(* Fault: the button is not disabled while a comparison runs. *)
CompareAgain ==
    /\ abClicks < MaxCompares
    /\ abClicks' = abClicks + 1
    /\ abLoops' = abLoops \cup {[click |-> abClicks', at |-> "post", polls |-> 0]}
    /\ abRunOff' = TRUE
    /\ abOut' = NoOut
    /\ UNCHANGED <<runDone>>

(* Two different models are chosen and a prompt is given. *)
ClickCompare ==
    /\ ~abRunOff
    /\ abClicks < MaxCompares
    /\ abClicks' = abClicks + 1
    /\ abLoops' = abLoops \cup {[click |-> abClicks', at |-> "post", polls |-> 0]}
    /\ abRunOff' = TRUE
    /\ abOut' = NoOut
    /\ UNCHANGED <<runDone>>

ShowComparison(k, state) == abOut' = [click |-> k, state |-> state]
EndCompare(l) == abLoops' = abLoops \ {l} /\ abRunOff' = FALSE

(* An answer is painted; the loop goes on if it may and has not asked too  *)
(* often.                                                                  *)
SideAnswered(l, state, more) ==
    /\ l.at \in {"post", "ask"}
    /\ ShowComparison(l.click, state)
    /\ IF more /\ l.polls # MaxPolls
       THEN abLoops' = (abLoops \ {l}) \cup {[l EXCEPT !.at = "wait"]} /\ UNCHANGED abRunOff
       ELSE EndCompare(l)
    /\ UNCHANGED <<abClicks, runDone>>

(* The two sides: the loop goes on while the run is not done. *)
CompareAnswer(l) ==
    IF l.click \in runDone THEN SideAnswered(l, "done", FALSE) ELSE SideAnswered(l, "running", TRUE)

(* An answer without sides is a warning.  The post's has no run either and *)
(* the loop does not begin; a poll's is not "done" and the loop goes on.   *)
CompareRefused(l) == SideAnswered(l, "failed", l.at = "ask")

ComparePolls(l) ==
    /\ l.at = "wait"
    /\ abLoops' = (abLoops \ {l}) \cup {[l EXCEPT !.at = "ask", !.polls = @ + 1]}
    /\ UNCHANGED <<abRunOff, abClicks, abOut, runDone>>

(* The call throws (no connection, HTTP error): the loop ends. *)
CompareFails(l) ==
    /\ l.at \in {"post", "ask"}
    /\ ShowComparison(l.click, "failed")
    /\ EndCompare(l)
    /\ UNCHANGED <<abClicks, runDone>>

RunFinishes(k) ==
    /\ k <= abClicks /\ k \notin runDone
    /\ runDone' = runDone \cup {k}
    /\ UNCHANGED <<abRunOff, abClicks, abLoops, abOut>>

CompareNext ==
    \/ ClickCompare
    \/ \E l \in abLoops : CompareAnswer(l) \/ CompareRefused(l) \/ ComparePolls(l)
                           \/ CompareFails(l)
    \/ \E k \in AbClick : RunFinishes(k)

CompareSpec == CompareInit /\ [][CompareNext]_compareVars

-----------------------------------------------------------------------------
(* The results on the page are of the newest comparison the user started,  *)
(* never of one before it whose loop still asks: two loops would paint     *)
(* over each other every two seconds.  (llm-models.js:762-791.)            *)
ComparisonShowsNewest == abOut.click \in {0, abClicks}
=============================================================================
