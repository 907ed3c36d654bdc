---------------------------- MODULE HistoryReads ----------------------------
(***************************************************************************)
(* Reading a branch's history page by page, over REST and over MCP, while  *)
(* commits are added to it, and the byte budget of a diff.  A commit is    *)
(* its position in the order of creation, which is git log's date order.   *)
(***************************************************************************)
EXTENDS Integers, Sequences, FiniteSets, SequencesExt

CONSTANTS
    Readers,          \* clients walking the history
    ServiceCap,       \* Config.MaxLogLimit of the site service
    RestDefault, RestCap,   \* defaultLogLimit and maxLogLimit of the REST handler
    McpCap,           \* MaxLogLimit of the MCP tool
    AskedLimits,      \* limits a client may ask for
    MaxCommits,
    MaxSideCommits,   \* commits of a second branch, to be merged
    DiffBudget,       \* MaxDiffBytes
    PatchSizes,       \* bytes one file's patch may have
    MaxDiffFiles      \* files of one diff

ASSUME HistoryAssumption ==
    /\ ServiceCap \in Nat \ {0} /\ RestCap \in Nat \ {0} /\ McpCap \in Nat \ {0}
    /\ RestDefault \in 1..RestCap /\ McpCap < ServiceCap
    /\ AskedLimits \subseteq Int /\ PatchSizes \subseteq Nat
    /\ DiffBudget \in Nat /\ MaxDiffFiles \in Nat

VARIABLES
    parents,  \* parents[c]: sequence of the parents of commit c = 1, 2, ...
    main, side, \* tips of the branch that is read and of the other one
    walk,     \* walk[r]: [at, via, limit, before, seen, from, cut], before = 0 for
              \* "from the tip", cut: a page was empty because git failed
    diff      \* [sizes, sent, truncated]: the last diff answered over MCP

historyVars == <<parents, main, side, walk, diff>>

NoWalk == [at |-> "idle", via |-> "rest", limit |-> 0, before |-> 0, seen |-> << >>, from |-> 0,
           cut |-> FALSE]

HistoryInit ==
    /\ parents = <<<< >>>>
    /\ main = 1 /\ side = 1
    /\ walk = [r \in Readers |-> NoWalk]
    /\ diff = [sizes |-> << >>, sent |-> {}, truncated |-> FALSE]

-----------------------------------------------------------------------------
(* History *)
Ancestors[c \in Nat] == IF c \notin DOMAIN parents THEN {} ELSE {c} \cup UNION {Ancestors[p] : p \in Range(parents[c])}

Commit ==
    /\ Len(parents) < MaxCommits
    /\ parents' = Append(parents, <<main>>)
    /\ main' = Len(parents) + 1
    /\ UNCHANGED <<side, walk, diff>>

CommitOnSide ==
    /\ Len(parents) < MaxCommits
    /\ Cardinality(Ancestors[side] \ Ancestors[main]) < MaxSideCommits
    /\ parents' = Append(parents, <<side>>)
    /\ side' = Len(parents) + 1
    /\ UNCHANGED <<main, walk, diff>>

MergeSide ==
    /\ side \notin Ancestors[main] /\ Len(parents) < MaxCommits
    /\ parents' = Append(parents, <<main, side>>)
    /\ main' = Len(parents) + 1
    /\ UNCHANGED <<side, walk, diff>>

-----------------------------------------------------------------------------
(* The order of `git log': newest first. *)
NewestFirst(S) == [i \in 1..Cardinality(S) |-> CHOOSE c \in S : Cardinality({d \in S : d >= c}) = i]

(* gitService.GetLog: `git log -n limit' of the branch, or of before^, which is the
   first parent.  Any failure of the command, the parent of the root among them, is an
   empty log and no error. *)
Clamp(limit) == IF limit > ServiceCap THEN ServiceCap ELSE limit

IncludingCursor(branch, before) == IF before = 0 THEN branch ELSE before   \* mutant
Revision(branch, before) ==
    IF before = 0 THEN branch ELSE IF parents[before] = << >> THEN 0 ELSE Head(parents[before])

GetLog(branch, before, limit, failed) ==
    LET log == NewestFirst(Ancestors[Revision(branch, before)]) IN
    IF failed THEN << >>
    ELSE SubSeq(log, 1, IF Len(log) < Clamp(limit) THEN Len(log) ELSE Clamp(limit))

(* REST clamps the limit and asks for one commit more than the page holds. *)
RestLimit(asked) ==
    IF asked < 1 THEN RestDefault ELSE IF asked > RestCap THEN RestCap ELSE asked

RestGetLog(branch, before, limit, failed) ==
    LET commits == GetLog(branch, before, limit + 1, failed) IN
    IF Len(commits) > limit
    THEN [page |-> SubSeq(commits, 1, limit), nextBefore |-> commits[limit]]
    ELSE [page |-> commits, nextBefore |-> 0]

(* MCP refuses other limits; a full page has a cursor. *)
McpLimitOk(asked) == asked \in 1..McpCap

McpGetLog(branch, before, limit, failed) ==
    LET commits == GetLog(branch, before, limit, failed) IN
    [page |-> commits, nextBefore |-> IF Len(commits) = limit THEN Last(commits) ELSE 0]

-----------------------------------------------------------------------------
StartWalk(r, via, asked) ==
    /\ walk[r].at = "idle"
    /\ via = "mcp" => McpLimitOk(asked)
    /\ walk' = [walk EXCEPT ![r] =
          [NoWalk EXCEPT !.at = "walking", !.via = via,
                         !.limit = IF via = "rest" THEN RestLimit(asked) ELSE asked]]
    /\ UNCHANGED <<parents, main, side, diff>>

NextPage(r, failed) ==
    LET w == walk[r]
        answer == IF w.via = "rest" THEN RestGetLog(main, w.before, w.limit, failed)
                  ELSE McpGetLog(main, w.before, w.limit, failed)
    IN
    /\ w.at = "walking"
    /\ walk' = [walk EXCEPT ![r] =
          [w EXCEPT !.seen = @ \o answer.page, !.before = answer.nextBefore,
                    !.from = IF w.before = 0 THEN main ELSE @,
                    !.at = IF answer.nextBefore = 0 THEN "done" ELSE "walking", !.cut = failed]]
    /\ UNCHANGED <<parents, main, side, diff>>

(* get_diff: patches are taken in order as long as each fits what is left. *)
PatchesSent(sizes) ==
    LET sent[i \in 0..Len(sizes)] ==
          IF i = 0 THEN [files |-> {}, left |-> DiffBudget]
          ELSE IF sizes[i] <= sent[i - 1].left
               THEN [files |-> sent[i - 1].files \cup {i}, left |-> sent[i - 1].left - sizes[i]]
               ELSE sent[i - 1]
    IN  sent[Len(sizes)].files

GetDiff(sizes) ==
    /\ diff' = [sizes |-> sizes, sent |-> PatchesSent(sizes),
                truncated |-> PatchesSent(sizes) # DOMAIN sizes]
    /\ UNCHANGED <<parents, main, side, walk>>

HistoryNext ==
    \/ Commit \/ CommitOnSide \/ MergeSide
    \/ \E r \in Readers :
          \/ \E via \in {"rest", "mcp"}, asked \in AskedLimits : StartWalk(r, via, asked)
          \/ \E failed \in BOOLEAN : NextPage(r, failed)
    \/ \E n \in 0..MaxDiffFiles : \E sizes \in [1..n -> PatchSizes] : GetDiff(sizes)

HistorySpec == HistoryInit /\ [][HistoryNext]_historyVars

-----------------------------------------------------------------------------
Linear(c) == \A a \in Ancestors[c] : Len(parents[a]) <= 1

(* Walking the pages of a linear history to the end lists every commit that was on
   the branch when the walk began, newest first and once, whatever is committed
   meanwhile, for every page size but the largest the REST API accepts.  A walk that a
   failing git cut short, which its reader cannot tell from the end of the history,
   has listed the newest of them without a gap. *)
PagesListHistory ==
    \A r \in Readers : LET w == walk[r] IN
        w.at = "done" /\ Linear(w.from) /\ (w.via = "rest" => w.limit < ServiceCap) =>
            /\ ~w.cut => w.seen = NewestFirst(Ancestors[w.from])
            /\ w.cut => w.seen = NewestFirst({c \in Ancestors[w.from] :
                                              \E i \in DOMAIN w.seen : w.seen[i] <= c})

(* The patches of one diff answer fit the budget together, and the answer says so
   when one was left out. *)
DiffWithinBudget ==
    /\ FoldSet(LAMBDA i, n : diff.sizes[i] + n, 0, diff.sent) <= DiffBudget
    /\ diff.truncated <=> \E i \in DOMAIN diff.sizes : i \notin diff.sent

(* What a reader is told is complete: history page by page, unless git failed on one
   of the pages (and then without a gap), and the patches of a diff under its budget or
   marked as truncated. *)
ReadsAreComplete == PagesListHistory /\ DiffWithinBudget
=============================================================================
