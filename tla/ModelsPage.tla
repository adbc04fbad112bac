----------------------------- MODULE ModelsPage -----------------------------
(***************************************************************************)
(* The page of language models, llm-models.js: the list of installed       *)
(* models with its delete buttons, the catalogue with its install buttons, *)
(* and the two models chosen for a comparison among the listed ones.  The  *)
(* search in the catalogue is left out.                                    *)
(*                                                                         *)
(* The gateway (external: llm-gateway) pulls what is installed in the      *)
(* background and refuses to delete a model it needs.                      *)
(***************************************************************************)
EXTENDS Integers, FiniteSets

CONSTANTS
    Model,
    NoModel,
    Needed          \* models with blockers: a role or a job needs them

ASSUME ModelsAssumption == NoModel \notin Model /\ Needed \subseteq Model

VARIABLES
    mdlSrv,         \* models installed at the gateway
    mdlList,        \* the models of the list that is shown
    mdlOptions,     \* the models the two selects offer
    mdlInstall,     \* models with an install button in the catalogue
    mdlLoads,       \* loads under way of the list and of the catalogue
    mdlPosts,       \* deletes and installs under way
    manualOff,      \* "install this name" is disabled
    abA, abB        \* the models chosen for the comparison

modelsVars == <<mdlSrv, mdlList, mdlOptions, mdlInstall, mdlLoads, mdlPosts, manualOff, abA, abB>>

MdlPart == {"list", "catalog"}
MdlLoad == [part: MdlPart, read: BOOLEAN, models: SUBSET Model]
AskFor(part) == [part |-> part, read |-> FALSE, models |-> {}]
MdlPost == [kind: {"delete", "install"}, model: Model]

ModelsTypeOK ==
    /\ mdlSrv \subseteq Model
    /\ mdlList \subseteq Model
    /\ mdlOptions \subseteq Model
    /\ mdlInstall \subseteq Model
    /\ mdlLoads \subseteq MdlLoad
    /\ mdlPosts \subseteq MdlPost
    /\ manualOff \in BOOLEAN
    /\ abA \in Model \cup {NoModel} /\ abB \in Model \cup {NoModel}

ModelsInit ==
    /\ mdlSrv = Model
    /\ mdlList = {} /\ mdlOptions = {} /\ mdlInstall = {}
    /\ mdlLoads = {AskFor(p) : p \in MdlPart}
    /\ mdlPosts = {}
    /\ manualOff = FALSE
    /\ abA = NoModel /\ abB = NoModel

-----------------------------------------------------------------------------
(* The list and the catalogue *)

ServeModels(l) ==
    /\ ~l.read
    /\ mdlLoads' = (mdlLoads \ {l}) \cup {[l EXCEPT !.read = TRUE, !.models = mdlSrv]}
    /\ UNCHANGED <<mdlSrv, mdlList, mdlOptions, mdlInstall, mdlPosts, manualOff, abA, abB>>

(* Fault: a choice is kept for good. *)
ChosenOnce(cur, models, default) == IF cur # NoModel THEN cur ELSE default

(* fillAbSelects: a choice stays while it is listed, else the default, the *)
(* first model for A and the second for B, is chosen.                      *)
Chosen(cur, models, default) == IF cur \in models THEN cur ELSE default

LoadInstalled(l) ==
    /\ l.part = "list" /\ l.read
    /\ mdlLoads' = mdlLoads \ {l}
    /\ mdlList' = l.models
    /\ IF l.models = {}
       THEN UNCHANGED <<mdlOptions, abA, abB>>
       ELSE /\ mdlOptions' = l.models
            /\ \E first, second \in l.models :
                  /\ first = second <=> Cardinality(l.models) = 1
                  /\ abA' = Chosen(abA, l.models, first)
                  /\ abB' = Chosen(abB, l.models, second)
    /\ UNCHANGED <<mdlSrv, mdlInstall, mdlPosts, manualOff>>

LoadCatalog(l) ==
    /\ l.part = "catalog" /\ l.read
    /\ mdlLoads' = mdlLoads \ {l}
    /\ mdlInstall' = Model \ l.models
    /\ UNCHANGED <<mdlSrv, mdlList, mdlOptions, mdlPosts, manualOff, abA, abB>>

(* A request that is lost changes nothing; an answer without the gateway   *)
(* leaves an error and nothing to click.                                   *)
LoadModelsFails(l, lost) ==
    /\ mdlLoads' = mdlLoads \ {l}
    /\ mdlList' = IF ~lost /\ l.part = "list" THEN {} ELSE mdlList
    /\ mdlInstall' = IF ~lost /\ l.part = "catalog" THEN {} ELSE mdlInstall
    /\ UNCHANGED <<mdlSrv, mdlOptions, mdlPosts, manualOff, abA, abB>>

(* The interval loads the list, the refresh button both. *)
Refresh(parts) ==
    /\ mdlLoads' = mdlLoads \cup {AskFor(p) : p \in parts}
    /\ UNCHANGED <<mdlSrv, mdlList, mdlOptions, mdlInstall, mdlPosts, manualOff, abA, abB>>

(* Confirmed deletes and installs; the button of a name that was typed is  *)
(* not painted again and stays disabled after its first use.               *)
ClickDelete(m) ==
    /\ m \in mdlList \ Needed
    /\ mdlPosts' = mdlPosts \cup {[kind |-> "delete", model |-> m]}
    /\ UNCHANGED <<mdlSrv, mdlList, mdlOptions, mdlInstall, mdlLoads, manualOff, abA, abB>>

ClickInstall(m, typed) ==
    /\ IF typed THEN ~manualOff ELSE m \in mdlInstall
    /\ mdlPosts' = mdlPosts \cup {[kind |-> "install", model |-> m]}
    /\ manualOff' = (manualOff \/ typed)
    /\ UNCHANGED <<mdlSrv, mdlList, mdlOptions, mdlInstall, mdlLoads, abA, abB>>

(* The answer, good or bad: finally loads again. *)
ModelPosted(p) ==
    /\ p \in mdlPosts
    /\ mdlPosts' = mdlPosts \ {p}
    /\ \/ UNCHANGED mdlSrv
       \/ p.kind = "delete" /\ p.model \notin Needed /\ mdlSrv' = mdlSrv \ {p.model}
    /\ mdlLoads' = mdlLoads \cup {AskFor("list")} \cup
                   (IF p.kind = "install" THEN {AskFor("catalog")} ELSE {})
    /\ UNCHANGED <<mdlList, mdlOptions, mdlInstall, manualOff, abA, abB>>

PullFinishes(m) ==
    /\ m \notin mdlSrv
    /\ mdlSrv' = mdlSrv \cup {m}
    /\ UNCHANGED <<mdlList, mdlOptions, mdlInstall, mdlLoads, mdlPosts, manualOff, abA, abB>>

(* The user picks from the two selects. *)
ChooseModels(a, b) ==
    /\ a \in mdlOptions /\ b \in mdlOptions
    /\ abA' = a /\ abB' = b
    /\ UNCHANGED <<mdlSrv, mdlList, mdlOptions, mdlInstall, mdlLoads, mdlPosts, manualOff>>

ModelsNext ==
    \/ \E l \in mdlLoads : \/ ServeModels(l) \/ LoadInstalled(l) \/ LoadCatalog(l)
                           \/ \E lost \in BOOLEAN : LoadModelsFails(l, lost)
    \/ Refresh({"list"}) \/ Refresh(MdlPart)
    \/ \E m \in Model : ClickDelete(m) \/ PullFinishes(m) \/ \E typed \in BOOLEAN : ClickInstall(m, typed)
    \/ \E p \in mdlPosts : ModelPosted(p)
    \/ \E a, b \in Model : ChooseModels(a, b)

ModelsSpec == ModelsInit /\ [][ModelsNext]_modelsVars

-----------------------------------------------------------------------------
(* While a list is shown the comparison names two models of it: one that   *)
(* was chosen and then deleted, here or elsewhere, is not kept beyond the  *)
(* answer that no longer lists it.  An empty list is the exception, the    *)
(* code leaves the choice alone then.  (llm-models.js:211-277, 699-707.)   *)
ChosenAreListed == mdlList # {} => abA \in mdlList /\ abB \in mdlList
=============================================================================
