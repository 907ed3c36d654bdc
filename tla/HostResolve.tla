---------------------------- MODULE HostResolve -----------------------------
(***************************************************************************)
(* From host names to sites and back: DefaultResolver.Resolve, and the     *)
(* names the control plane builds (previewSubdomain, preview grants).  A   *)
(* name is a sequence of symbols; the words "published" and "www" stand    *)
(* for themselves and count as one letter, "A" is an upper-case letter.    *)
(***************************************************************************)
EXTENDS Naturals, Sequences, SequencesExt

CONSTANTS
    MaxLabel,      \* labelMaxLen, HandleMaxLen
    MaxNameLen,    \* length of the host names asked for
    ControlLabel   \* the control plane's label, << >> when it is the bare domain

(* The control label is no preview's name; newDataResolver leaves it empty. *)
ASSUME ResolveAssumption ==
    /\ MaxLabel \in Nat \ {0} /\ MaxNameLen \in Nat
    /\ ~\E i \in 1..(Len(ControlLabel) - 1) : ControlLabel[i] = "-" /\ ControlLabel[i + 1] = "-"

Alnum    == {"a", "published", "www"}
Symbols  == Alnum \cup {"A", "-", "."}
Reserved == {<<"published">>, <<"www">>}
NamesOf(S, n) == UNION {[1..k -> S] : k \in 0..n}

(* A request: the name left of the base domain (<< >> for the domain itself), or a
   name under no base domain. *)
Hosts == [under : BOOLEAN, name : NamesOf(Symbols, MaxNameLen)]

VARIABLES
    asked,   \* the host of the last request
    meant,   \* <<handle, branch>> when it came from a preview grant, or << >>
    target   \* what Resolve answered: [class, handle, branch] or [class |-> an error]

resolveVars == <<asked, meant, target>>

-----------------------------------------------------------------------------
(* lowerStripPort (ports are left out), labelRe with the separate "--" check. *)
Lower(s) == [i \in 1..Len(s) |-> IF s[i] = "A" THEN "a" ELSE s[i]]
DoubleHyphens(s) == {i \in 1..(Len(s) - 1) : s[i] = "-" /\ s[i + 1] = "-"}

LooseLabel(s) ==                                 \* mutant: a hyphen may end a label
    /\ Len(s) \in 1..MaxLabel /\ DoubleHyphens(s) = {}
    /\ s[1] \in Alnum /\ \A i \in 1..Len(s) : s[i] \in Alnum \cup {"-"}
LabelOK(s) ==
    /\ Len(s) \in 1..MaxLabel /\ DoubleHyphens(s) = {}
    /\ s[1] \in Alnum /\ s[Len(s)] \in Alnum
    /\ \A i \in 1..Len(s) : s[i] \in Alnum \cup {"-"}

ValidateHandle(h) == LabelOK(h) /\ h \notin Reserved
ValidateBranch(b) == LabelOK(b)

PublishedBranch == <<"published">>

(* previewSubdomain *)
PreviewSubdomain(h, b) == IF b = PublishedBranch THEN h ELSE h \o <<"-", "-">> \o b

(* splitLabel: at the first "--". *)
SplitLabel(label) ==
    IF DoubleHyphens(label) = {} THEN [handle |-> label, branch |-> PublishedBranch, preview |-> FALSE]
    ELSE LET i == CHOOSE j \in DoubleHyphens(label) : \A k \in DoubleHyphens(label) : j <= k
         IN  [handle |-> SubSeq(label, 1, i - 1), branch |-> SubSeq(label, i + 2, Len(label)), preview |-> TRUE]

Refused(class) == [class |-> class, handle |-> << >>, branch |-> << >>]

Addressable(b) == b # PublishedBranch

ResolveProjectLabel(label) ==
    LET p == SplitLabel(label)
    IN  IF ~ValidateHandle(p.handle) THEN Refused(IF p.handle \in Reserved THEN "404" ELSE "400")
        ELSE IF p.preview /\ (~Addressable(p.branch) \/ ~ValidateBranch(p.branch)
                                \/ Len(p.handle) + 2 + Len(p.branch) > MaxLabel) THEN Refused("400")
        ELSE [class |-> "project", handle |-> p.handle, branch |-> p.branch]

ClassifyHost(h) ==
    LET label == Lower(h.name)
    IN  IF ~h.under THEN Refused("421")
        ELSE IF label = << >> THEN IF ControlLabel = << >> THEN Refused("control") ELSE Refused("404")
        ELSE IF Contains(label, ".") THEN Refused("404")
        ELSE IF label = ControlLabel THEN Refused("control")
        ELSE ResolveProjectLabel(label)

-----------------------------------------------------------------------------
BareHost == [under |-> TRUE, name |-> << >>]

ResolveInit ==
    asked = BareHost /\ meant = << >> /\ target = Refused("none")

(* The resolver keeps no state: every request starts afresh. *)
Resolve(h) == asked' = h /\ target' = ClassifyHost(h)
Done == target.class # "none" /\ target' = Refused("none") /\ meant' = << >> /\ asked' = BareHost

Ask(h) == Resolve(h) /\ meant' = << >>

(* previewGrant: a branch that passes ValidateBranchName gets a URL and a grant. *)
OpenPreview(h, b) ==
    /\ ValidateHandle(h) /\ ValidateBranch(b) /\ b # PublishedBranch
    /\ Resolve([under |-> TRUE, name |-> PreviewSubdomain(h, b)])
    /\ meant' = <<h, b>>

ResolveNext ==
    \/ Done
    \/ /\ target.class = "none"
       /\ \/ \E h \in Hosts : Ask(h)
          \/ \E h, b \in NamesOf(Alnum \cup {"-"}, MaxLabel) : OpenPreview(h, b)

ResolveSpec == ResolveInit /\ [][ResolveNext]_resolveVars

-----------------------------------------------------------------------------
(* Each site and branch is served under one name only (up to case), and the name
   says which: no second origin for the same content. *)
OneNamePerTarget ==
    target.class = "project" => Lower(asked.name) = PreviewSubdomain(target.handle, target.branch)

(* A preview URL the control plane hands out opens that branch of that site and no
   other if handle and branch, each within the limit on a label, fit into one label
   together; previewGrant does not ask whether they do. *)
PreviewOpens ==
    meant # << >> /\ Len(asked.name) <= MaxLabel =>
        target = [class |-> "project", handle |-> meant[1], branch |-> meant[2]]

(* The resolver and the control plane agree on names, in both directions. *)
NamesAgree == OneNamePerTarget /\ PreviewOpens
=============================================================================
