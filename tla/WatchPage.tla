----------------------------- MODULE WatchPage -----------------------------
(***************************************************************************)
(* The watch list and the candidates of the discovery page, scout.js,      *)
(* renderWatchSection: a candidate's row says whether it is watched, which *)
(* is known from the answer of another request than the one the row is     *)
(* painted from; each table is repainted only when its own answer changed. *)
(*                                                                         *)
(* The server (external: src/trading) keeps the list, which the engine     *)
(* changes too, refuses additions below its criteria unless forced, and    *)
(* publishes candidates that change now and then.                          *)
(***************************************************************************)
EXTENDS Integers, FiniteSets

CONSTANTS
    WatchCode,      \* stocks
    MaxScan,        \* bound: versions of the candidates
    MaxSourceLoads, \* bound: loads of the candidates under way
    MaxPosts        \* bound: requests of the buttons under way

ASSUME WatchAssumption ==
    MaxScan \in Nat \ {0} /\ MaxSourceLoads \in Nat /\ MaxPosts \in Nat

VARIABLES
    srvWatch,       \* the list on the server
    scanVersion,    \* the candidates on the server
    watch,          \* watch
    codesMemo,      \* the memo of watchCodes
    scanMemo,       \* the memos of source:scan and source:nightly
    marks,          \* codes shown as watched, by each candidate table
    watchLoads,     \* loads under way
    sourceLoads,
    addPosts        \* additions, removals and changes of mode under way

watchVars == <<srvWatch, scanVersion, watch, codesMemo, scanMemo, marks,
               watchLoads, sourceLoads, addPosts>>
watchServer == <<srvWatch, scanVersion>>

Source == {"scan", "nightly"}
NoCodes == [known |-> FALSE, codes |-> {}]
CodesMemo == [known: BOOLEAN, codes: SUBSET WatchCode]
Unread == 0         \* a memo that was invalidated

WatchLoad == [at: {"ask", "read"}, codes: SUBSET WatchCode]
AskWatch == [at |-> "ask", codes |-> {}]

(* loadNightly writes its memo, then waits for the market regime before it *)
(* paints: "paint".                                                        *)
SourceLoad == [src: Source, at: {"ask", "read", "paint"}, version: 0 .. MaxScan]
Ask(src) == [src |-> src, at |-> "ask", version |-> 0]
AskSources == {Ask(src) : src \in Source}
SourceRoom == Cardinality(sourceLoads \cup AskSources) <= MaxSourceLoads

PostKind == {"add", "remove", "mode"}
AddPost == [kind: PostKind, code: WatchCode, force: BOOLEAN,
            at: {"post", "gate", "done"}]
NewPost(kind, c) == [kind |-> kind, code |-> c, force |-> FALSE, at |-> "post"]
PostRoom == Cardinality(addPosts) < MaxPosts
PostStep(p, q) == addPosts' = (addPosts \ {p}) \cup {q}

WatchTypeOK ==
    /\ srvWatch \subseteq WatchCode
    /\ scanVersion \in 1 .. MaxScan
    /\ watch \subseteq WatchCode
    /\ codesMemo \in CodesMemo
    /\ scanMemo \in [Source -> 0 .. MaxScan]
    /\ marks \in [Source -> SUBSET WatchCode]
    /\ watchLoads \subseteq WatchLoad
    /\ sourceLoads \subseteq SourceLoad
    /\ addPosts \subseteq AddPost

WatchInit ==
    /\ srvWatch \in SUBSET WatchCode
    /\ scanVersion = 1
    /\ watch = {}
    /\ codesMemo = NoCodes
    /\ scanMemo = [src \in Source |-> Unread]
    /\ marks = [src \in Source |-> {}]
    /\ watchLoads = {AskWatch}
    /\ sourceLoads = AskSources
    /\ addPosts = {}

-----------------------------------------------------------------------------
(* The server *)

EngineChanges(c) ==
    /\ srvWatch' = IF c \in srvWatch THEN srvWatch \ {c} ELSE srvWatch \cup {c}
    /\ UNCHANGED <<scanVersion, watch, codesMemo, scanMemo, marks, watchLoads,
                   sourceLoads, addPosts>>

ScanChanges ==
    /\ scanVersion < MaxScan
    /\ scanVersion' = scanVersion + 1
    /\ UNCHANGED <<srvWatch, watch, codesMemo, scanMemo, marks, watchLoads,
                   sourceLoads, addPosts>>

ServeWatch(l) ==
    /\ l.at = "ask"
    /\ watchLoads' = (watchLoads \ {l}) \cup {[at |-> "read", codes |-> srvWatch]}
    /\ UNCHANGED <<watchServer, watch, codesMemo, scanMemo, marks, sourceLoads, addPosts>>

ServeSource(l) ==
    /\ l.at = "ask"
    /\ sourceLoads' = (sourceLoads \ {l}) \cup
                          {[src |-> l.src, at |-> "read", version |-> scanVersion]}
    /\ UNCHANGED <<watchServer, watch, codesMemo, scanMemo, marks, watchLoads, addPosts>>

ServePost(p, meets) ==
    /\ p.at = "post"
    /\ \/ /\ p.kind = "remove"
          /\ srvWatch' = srvWatch \ {p.code} /\ PostStep(p, [p EXCEPT !.at = "done"])
       \/ /\ p.kind = "mode"
          /\ UNCHANGED srvWatch /\ PostStep(p, [p EXCEPT !.at = "done"])
       \/ /\ p.kind = "add" /\ (meets \/ p.force)
          /\ srvWatch' = srvWatch \cup {p.code} /\ PostStep(p, [p EXCEPT !.at = "done"])
       \/ /\ p.kind = "add" /\ ~(meets \/ p.force)
          /\ UNCHANGED srvWatch /\ PostStep(p, [p EXCEPT !.at = "gate"])
    /\ UNCHANGED <<scanVersion, watch, codesMemo, scanMemo, marks, watchLoads, sourceLoads>>

-----------------------------------------------------------------------------
(* The loads; a load already asked for stands for a second one. *)

PollWatch ==
    /\ watchLoads' = watchLoads \cup {AskWatch}
    /\ UNCHANGED <<watchServer, watch, codesMemo, scanMemo, marks, sourceLoads, addPosts>>

PollSource(src) ==
    /\ SourceRoom
    /\ sourceLoads' = sourceLoads \cup {Ask(src)}
    /\ UNCHANGED <<watchServer, watch, codesMemo, scanMemo, marks, watchLoads, addPosts>>

(* Fault: the memos of the candidate tables are left alone. *)
SourcesKept == UNCHANGED scanMemo

InvalidateSources == scanMemo' = [src \in Source |-> Unread]

(* loadWatch: other codes than before make both candidate tables stale. *)
LoadWatch(l) ==
    /\ l.at = "read" /\ SourceRoom
    /\ watchLoads' = watchLoads \ {l}
    /\ watch' = l.codes
    /\ IF codesMemo = [known |-> TRUE, codes |-> l.codes]
       THEN UNCHANGED <<codesMemo, scanMemo, sourceLoads>>
       ELSE /\ codesMemo' = [known |-> TRUE, codes |-> l.codes]
            /\ InvalidateSources
            /\ sourceLoads' = sourceLoads \cup AskSources
    /\ UNCHANGED <<watchServer, marks, addPosts>>

(* loadScanner, and loadNightly up to its second request. *)
LoadSource(l) ==
    /\ l.at = "read"
    /\ IF scanMemo[l.src] = l.version
       THEN sourceLoads' = sourceLoads \ {l} /\ UNCHANGED <<scanMemo, marks>>
       ELSE /\ scanMemo' = [scanMemo EXCEPT ![l.src] = l.version]
            /\ IF l.src = "scan"
               THEN /\ marks' = [marks EXCEPT !["scan"] = watch]
                    /\ sourceLoads' = sourceLoads \ {l}
               ELSE /\ UNCHANGED marks
                    /\ sourceLoads' = (sourceLoads \ {l}) \cup {[l EXCEPT !.at = "paint"]}
    /\ UNCHANGED <<watchServer, watch, codesMemo, watchLoads, addPosts>>

PaintNightly(l) ==
    /\ l.at = "paint"
    /\ sourceLoads' = sourceLoads \ {l}
    /\ marks' = [marks EXCEPT !["nightly"] = watch]
    /\ UNCHANGED <<watchServer, watch, codesMemo, scanMemo, watchLoads, addPosts>>

LoadLost ==
    /\ \/ \E l \in watchLoads : watchLoads' = watchLoads \ {l} /\ UNCHANGED sourceLoads
       \/ \E l \in sourceLoads : /\ l.at # "paint"
                                 /\ sourceLoads' = sourceLoads \ {l} /\ UNCHANGED watchLoads
    /\ UNCHANGED <<watchServer, watch, codesMemo, scanMemo, marks, addPosts>>

-----------------------------------------------------------------------------
(* The buttons *)

(* watchBtn of a candidate that is not marked. *)
ClickAdd(src, c) ==
    /\ c \notin marks[src] /\ PostRoom
    /\ addPosts' = addPosts \cup {NewPost("add", c)}
    /\ UNCHANGED <<watchServer, watch, codesMemo, scanMemo, marks, watchLoads, sourceLoads>>

(* addByQuery adds whatever stock was typed. *)
AddByQuery(c) ==
    /\ PostRoom
    /\ addPosts' = addPosts \cup {NewPost("add", c)}
    /\ UNCHANGED <<watchServer, watch, codesMemo, scanMemo, marks, watchLoads, sourceLoads>>

(* rm and modeBtn of a row of the watch list. *)
ClickWatchRow(kind, c) ==
    /\ c \in watch /\ PostRoom
    /\ addPosts' = addPosts \cup {NewPost(kind, c)}
    /\ UNCHANGED <<watchServer, watch, codesMemo, scanMemo, marks, watchLoads, sourceLoads>>

(* The criteria are not met: the user may insist, at once when watchBtn    *)
(* asks, by another button when addByQuery offers it.                      *)
Gated(p, agrees) ==
    /\ p.at = "gate"
    /\ addPosts' = (addPosts \ {p}) \cup
                   (IF agrees THEN {[p EXCEPT !.force = TRUE, !.at = "post"]} ELSE {})
    /\ UNCHANGED <<watchServer, watch, codesMemo, scanMemo, marks, watchLoads, sourceLoads>>

AfterWatchChange(p) ==
    /\ p.at = "done" /\ SourceRoom
    /\ addPosts' = addPosts \ {p}
    /\ InvalidateSources
    /\ watchLoads' = watchLoads \cup {AskWatch}
    /\ sourceLoads' = sourceLoads \cup AskSources
    /\ UNCHANGED <<watchServer, watch, codesMemo, marks>>

(* Before or after the server did it: an addition that fails only says so, *)
(* a removal or a change of mode loads again all the same.                 *)
PostFails(p) ==
    /\ p.at \in {"post", "done"}
    /\ IF p.kind = "add"
       THEN addPosts' = addPosts \ {p}
       ELSE PostStep(p, [p EXCEPT !.at = "done"])
    /\ UNCHANGED <<watchServer, watch, codesMemo, scanMemo, marks, watchLoads, sourceLoads>>

WatchNext ==
    \/ \E c \in WatchCode : \/ EngineChanges(c) \/ AddByQuery(c)
                           \/ ClickWatchRow("remove", c) \/ ClickWatchRow("mode", c)
    \/ ScanChanges
    \/ \E l \in watchLoads : ServeWatch(l) \/ LoadWatch(l)
    \/ \E l \in sourceLoads : ServeSource(l) \/ LoadSource(l) \/ PaintNightly(l)
    \/ LoadLost
    \/ PollWatch
    \/ \E src \in Source : PollSource(src) \/ \E c \in WatchCode : ClickAdd(src, c)
    \/ \E p \in addPosts, yes \in BOOLEAN : ServePost(p, yes) \/ Gated(p, yes)
    \/ \E p \in addPosts : AfterWatchChange(p) \/ PostFails(p)

WatchSpec == WatchInit /\ [][WatchNext]_watchVars

-----------------------------------------------------------------------------
(* A candidate table that its memo calls painted, with no paint to come,   *)
(* marks the codes the page knows to be watched: an answer about the watch *)
(* list that overtakes the one about the candidates never leaves an "add"  *)
(* button on a watched stock for good.  (scout.js:116-119, 424-439: the    *)
(* memos of both tables are invalidated with the codes.)                   *)
CandidatesMarkWatched ==
    \A src \in Source :
        (scanMemo[src] # Unread /\ ~\E l \in sourceLoads : l.src = src /\ l.at = "paint")
            => marks[src] = watch
=============================================================================
