--------------------------- MODULE MCLlmScheduler ---------------------------
(* Small instances of LlmScheduler for TLC: jobs of both lanes on a small   *)
(* and a large model, which fit together while two large ones do not, and  *)
(* a model beyond the budget.                                              *)
EXTENDS LlmScheduler, TLC

CONSTANTS i1, b1, b2, b3, small, large, huge

Lanes == [j \in Job |-> IF j = i1 THEN "interactive" ELSE "batch"]
Models == [j \in Job |-> CASE j \in {i1, b1} -> large [] j = b2 -> small [] j = b3 -> huge]
SamePriority == [j \in Job |-> 0]
Sizes == [m \in Model |-> CASE m = small -> 1 [] m = large -> 2 [] m = huge -> 4]
=============================================================================
