--------------------------- MODULE SiteRepoProofs ---------------------------
(***************************************************************************)
(* SiteRepo's invariants and history preservation, for every set of        *)
(* branches, files and contents and every bound on commits and faults.     *)
(***************************************************************************)
EXTENDS SiteRepo, TLAPS

(* Abbreviations of SiteRepo that the proofs always read expanded. *)
USE DEF BaseMatches, StagedPath, WrittenFromIndex, CommitParents,
        Deletable, PublishedIsAncestorOf, MergeParents

(* Creating a commit from existing parents keeps the object store well typed
   and reachability reflexive and transitive; old commits are untouched. *)
LEMMA NewCommitOK ==
    ASSUME TypeOK, AncestryOK,
           NEW parents \in SUBSET (1..n), NEW t \in Trees,
           NEW m \in [parent : 0..n, on : Branches, req : Requests],
           NewCommit(parents, t, m)
    PROVE  /\ n' = n + 1 /\ n' \in Nat \ {0}
           /\ tree' \in [1..n' -> Trees]
           /\ anc' \in [1..n' -> SUBSET (1..n')]
           /\ made' \in [1..n' -> [parent : 0..n', on : Branches, req : Requests]]
           /\ \A c \in 1..n : anc'[c] = anc[c] /\ made'[c] = made[c] /\ tree'[c] = tree[c]
           /\ made'[n + 1] = m
           /\ \A p \in parents : anc[p] \subseteq anc'[n + 1] /\ p \in anc'[n + 1]
           /\ AncestryOK'
<1> USE DEF TypeOK
<1>1. n' = n + 1 /\ n' \in Nat \ {0} /\ n + 1 \in 1..n'
    BY DEF NewCommit
<1>2. tree' \in [1..n' -> Trees]
    BY <1>1 DEF NewCommit
<1>3. UNION {anc[p] : p \in parents} \subseteq 1..n
  <2>1. \A p \in parents : anc[p] \subseteq 1..n
    OBVIOUS
  <2>2. ASSUME NEW x \in UNION {anc[p] : p \in parents} PROVE x \in 1..n
    <3>1. PICK p \in parents : x \in anc[p]
        OBVIOUS
    <3> QED BY <2>1, <3>1
  <2> QED BY <2>2
<1>4. anc' \in [1..n' -> SUBSET (1..n')]
  <2>1. \A c \in 1..n : anc[c] \subseteq 1..n'
    BY <1>1
  <2>2. {n + 1} \cup UNION {anc[p] : p \in parents} \subseteq 1..n'
    BY <1>1, <1>3
  <2> QED BY <1>1, <2>1, <2>2 DEF NewCommit
<1>5. made' \in [1..n' -> [parent : 0..n', on : Branches, req : Requests]]
  <2>1. \A x \in [parent : 0..n, on : Branches, req : Requests] :
            x \in [parent : 0..n', on : Branches, req : Requests]
    BY <1>1
  <2> QED BY <1>1, <2>1 DEF NewCommit
<1>6. \A c \in 1..n : anc'[c] = anc[c] /\ made'[c] = made[c] /\ tree'[c] = tree[c]
    BY <1>1 DEF NewCommit
<1>7. made'[n + 1] = m
    BY <1>1 DEF NewCommit
<1>8. anc'[n + 1] = {n + 1} \cup UNION {anc[p] : p \in parents}
    BY <1>1 DEF NewCommit
<1>9. \A p \in parents : anc[p] \subseteq anc'[n + 1] /\ p \in anc'[n + 1]
    BY <1>8 DEF AncestryOK
<1>10. AncestryOK'
  <2>1. ASSUME NEW c \in 1..n PROVE c \in anc'[c] /\ \A d \in anc'[c] : anc'[d] \subseteq anc'[c]
    BY <1>6 DEF AncestryOK
  <2>2. n + 1 \in anc'[n + 1]
    BY <1>8
  <2>3. ASSUME NEW d \in anc'[n + 1] PROVE anc'[d] \subseteq anc'[n + 1]
    <3>1. CASE d = n + 1
        BY <3>1
    <3>2. CASE d \in UNION {anc[p] : p \in parents}
      <4>1. PICK p \in parents : d \in anc[p]
        BY <3>2
      <4>2. d \in 1..n /\ anc[d] \subseteq anc[p]
        BY <4>1 DEF AncestryOK
      <4> QED BY <4>1, <4>2, <1>6, <1>9
    <3> QED BY <3>1, <3>2, <1>8
  <2>4. 1..n' = 1..n \cup {n + 1}
    BY <1>1
  <2> QED BY <2>1, <2>2, <2>3, <2>4 DEF AncestryOK
<1> QED BY <1>1, <1>2, <1>4, <1>5, <1>6, <1>7, <1>9, <1>10

-----------------------------------------------------------------------------
(* The parts of the invariant that speak only of the object store, the refs,
   the acknowledgements and the pointer. *)
StoreInv == AncestryOK /\ AckedOnItsBase /\ AckedNeverLost /\ PointerInPublishedHistory

(* A step that touches none of those keeps them. *)
LEMMA QuietStep ==
    ASSUME StoreInv, UNCHANGED <<repo, refs, acked, pointer>>
    PROVE  StoreInv'
BY DEF StoreInv, AncestryOK, AckedOnItsBase, AckedNeverLost, PointerInPublishedHistory, repo

(* The placeholders are requests. *)
LEMMA NoRequestTyped == NoRequest \in Requests /\ FetchRequest \in Requests
BY EntryAssumption DEF NoRequest, FetchRequest, Request, Requests, Branches, NoCommit

(* The free lock is a section record. *)
LEMMA FreeTyped == ASSUME n \in Nat PROVE Free \in [stage : Stages, req : Requests, sha : 0..n]
BY NoRequestTyped DEF Free, Stages, NoCommit

(* Freeing the section is always consistent. *)
LEMMA FreeSection == cur' = Free => SectionOK'
BY DEF SectionOK, Free

(* The initial state is a freshly seeded site. *)
LEMMA InitInv == Init => IndInv
<1> SUFFICES ASSUME Init PROVE IndInv
    OBVIOUS
<1> USE DEF Init
<1>1. SeedTree \in Trees
    BY EntryAssumption DEF SeedTree, Trees, Values
<1>2. Draft \in Branches /\ Published \in Branches /\ Draft \in Working
    BY BranchAssumption DEF Branches, Working
<1>3. TypeOK
  <2>1. cur \in [stage : Stages, req : Requests, sha : 0..n]
    BY FreeTyped
  <2>2. wt \in [Paths -> Values] /\ served \in [Branches -> Values]
    BY <1>1 DEF Trees, Entries, Values
  <2>3. made \in [1..n -> [parent : 0..n, on : Branches, req : Requests]]
    BY <1>2, NoRequestTyped DEF NoCommit
  <2>4. anc \in [1..n -> SUBSET (1..n)] /\ tree \in [1..n -> Trees]
    BY <1>1
  <2>5. refs \in [Branches -> 0..n] /\ pointer \in 0..n /\ origin \in 0..n
    BY DEF NoCommit
  <2>6. /\ n \in Nat \ {0} /\ head \in Branches /\ index \in Trees
        /\ refreshing \in SUBSET Branches /\ acked \in SUBSET Acks
        /\ faults \in Nat
    BY <1>1, <1>2
  <2>7. live \in BOOLEAN /\ indexLock \in BOOLEAN
    BY Zenon
  <2> HIDE DEF Init
  <2> QED BY <2>1, <2>2, <2>3, <2>4, <2>5, <2>6, <2>7, Zenon DEF TypeOK
<1>4. AncestryOK
    BY DEF AncestryOK
<1>5. HeadIsWorkingBranch
    BY <1>2 DEF HeadIsWorkingBranch, NoCommit
<1>6. SectionOK
    BY DEF SectionOK, Free
<1>7. AckedOnItsBase /\ AckedNeverLost /\ PointerInPublishedHistory
    BY DEF AckedOnItsBase, AckedNeverLost, PointerInPublishedHistory
<1> QED BY <1>3, <1>4, <1>5, <1>6, <1>7 DEF IndInv

-----------------------------------------------------------------------------
(***************************************************************************)
(* Every action keeps the inductive invariant: one lemma per action, or    *)
(* per group of actions that disturb the same conjuncts.                   *)
(***************************************************************************)

(* Switching branches replaces entries of index, files and served directories by
   entries of another commit's tree. *)
LEMMA SwitchTyped ==
    ASSUME TypeOK, NEW b \in Branches, refs[b] # NoCommit, HeadIsWorkingBranch,
           NEW e \in Entries, NEW old \in Values
    PROVE  SwitchEntry(b, e, old) \in Values
<1>1. refs[b] \in 1..n
    BY DEF TypeOK, NoCommit
<1>2. tree[refs[b]] \in Trees
    BY <1>1 DEF TypeOK
<1> QED BY <1>2 DEF SwitchEntry, Trees

(* A write that finds its base and checks the branch out. *)
LEMMA CheckoutForWriteInv ==
    ASSUME IndInv, NEW q \in Requests, CheckoutForWrite(q)
    PROVE  IndInv'
<1> USE DEF IndInv
<1>1. q.branch \in Branches /\ q.branch # Published /\ refs[q.branch] # NoCommit
    BY DEF CheckoutForWrite, Requests, Tip
<1>2. StoreInv'
    BY QuietStep DEF StoreInv, CheckoutForWrite
<1>3. index' \in Trees /\ wt' \in [Paths -> Values] /\ served' \in [Branches -> Values]
  <2>1. CASE UNCHANGED area
    BY <2>1 DEF area, TypeOK
  <2>2. CASE /\ index'  = [e \in Entries  |-> SwitchEntry(q.branch, e, index[e])]
             /\ wt'     = [p \in Paths    |-> SwitchEntry(q.branch, p, wt[p])]
             /\ served' = [b \in Branches |-> SwitchEntry(q.branch, b, served[b])]
    <3>1. \A e \in Entries, old \in Values : SwitchEntry(q.branch, e, old) \in Values
        BY <1>1, SwitchTyped
    <3> QED BY <2>2, <3>1 DEF TypeOK, Trees, Entries
  <2> QED BY <2>1, <2>2 DEF CheckoutForWrite
<1>4. cur' = [stage |-> "out", req |-> q, sha |-> NoCommit]
    BY DEF CheckoutForWrite, Enter
<1>5. TypeOK'
  <2>1. cur' \in [stage : Stages, req : Requests, sha : 0..n]
    BY <1>4 DEF Stages, NoCommit, TypeOK
  <2> QED BY <1>1, <1>3, <2>1 DEF TypeOK, Acks, CheckoutForWrite, repo, env
<1>6. HeadIsWorkingBranch'
    BY <1>1 DEF HeadIsWorkingBranch, Working, CheckoutForWrite
<1>7. SectionOK'
  <2>1. q.op = "Rollback" => q.target \in 1..n
    <3>1. refs[q.branch] \in 1..n
        BY <1>1 DEF TypeOK, NoCommit
    <3> QED BY <3>1 DEF CheckoutForWrite, Tip, TypeOK
  <2> QED BY <1>1, <1>4, <2>1 DEF SectionOK, CheckoutForWrite, Tip, repo
<1> QED BY <1>2, <1>5, <1>6, <1>7 DEF StoreInv

(* A checkout cut half way. *)
LEMMA CheckoutKilledInv ==
    ASSUME IndInv, NEW q \in Requests, CheckoutKilled(q)
    PROVE  IndInv'
<1> USE DEF IndInv
<1>1. q.branch \in Branches /\ refs[q.branch] # NoCommit
    BY DEF CheckoutKilled, Requests, Tip
<1>2. StoreInv'
    BY QuietStep DEF StoreInv, CheckoutKilled
<1>3. wt' \in [Paths -> Values] /\ served' \in [Branches -> Values]
  <2>1. \A e \in Entries, old \in Values : SwitchEntry(q.branch, e, old) \in Values
    BY <1>1, SwitchTyped
  <2> QED BY <2>1 DEF CheckoutKilled, TypeOK, Entries
<1>4. indexLock' \in BOOLEAN
    BY Zenon DEF CheckoutKilled
<1>5. TypeOK'
    BY <1>3, <1>4 DEF TypeOK, Acks, CheckoutKilled, repo, env
<1>6. HeadIsWorkingBranch' /\ SectionOK'
    BY DEF HeadIsWorkingBranch, SectionOK, CheckoutKilled, repo
<1> QED BY <1>2, <1>5, <1>6 DEF StoreInv

(* An import to a branch that does not exist. *)
LEMMA ImportWithoutBranchInv ==
    ASSUME IndInv, NEW q \in Requests, ImportWithoutBranch(q)
    PROVE  IndInv'
<1> USE DEF IndInv
<1>1. cur' = [stage |-> "out", req |-> q, sha |-> NoCommit]
    BY DEF ImportWithoutBranch, Enter
<1>2. StoreInv'
    BY QuietStep DEF StoreInv, ImportWithoutBranch
<1>3. TypeOK'
  <2>1. cur' \in [stage : Stages, req : Requests, sha : 0..n]
    BY <1>1 DEF Stages, NoCommit, TypeOK
  <2> QED BY <2>1 DEF TypeOK, Acks, ImportWithoutBranch, repo, area, env
<1>4. HeadIsWorkingBranch'
    BY DEF HeadIsWorkingBranch, ImportWithoutBranch
<1>5. SectionOK'
    BY <1>1 DEF SectionOK, ImportWithoutBranch, Tip, WriteOps
<1> QED BY <1>2, <1>3, <1>4, <1>5 DEF StoreInv

(* The commands between checkout and commit change only index, worktree and the
   section's stage. *)
LEMMA AreaStep ==
    ASSUME IndInv,
           NEW st \in {"edited", "loaded", "written", "staged"}, Move(st),
           cur.stage \in {"out", "edited", "loaded", "written"},
           UNCHANGED <<repo, refs, head, refreshing, acked, pointer, env, indexLock, faults>>,
           index' \in Trees, wt' \in [Paths -> Values], served' \in [Branches -> Values]
    PROVE  IndInv'
<1> USE DEF IndInv
<1>1. cur' = [stage |-> st, req |-> cur.req, sha |-> cur.sha]
    BY DEF Move, TypeOK
<1>2. cur' \in [stage : Stages, req : Requests, sha : 0..n]
    BY <1>1 DEF TypeOK, Stages
<1>3. TypeOK'
    BY <1>2 DEF TypeOK, Acks, repo, env
<1>4. StoreInv'
    BY QuietStep DEF StoreInv
<1>5. HeadIsWorkingBranch' /\ SectionOK'
    BY <1>1 DEF HeadIsWorkingBranch, SectionOK, repo
<1> QED BY <1>3, <1>4, <1>5 DEF StoreInv

(* The worktree with its exports is a tree. *)
LEMMA WorktreeTyped == ASSUME TypeOK PROVE Worktree \in Trees
BY DEF TypeOK, Worktree, Trees, Entries

(* The commands that change index and worktree only. *)
LEMMA AreaStepsInv ==
    ASSUME IndInv,
           EditWorktree \/ AddPath \/ AddAll \/ RemovePath \/ ReadTree \/ CheckoutIndex \/ Clean
    PROVE  IndInv'
<1> USE DEF IndInv
<1>0. /\ cur.req \in Requests /\ cur.req.path \in Paths /\ cur.req.content \in Contents
      /\ Absent \in Values /\ Contents \subseteq Values
      /\ \A p \in Paths : index[p] \in Values /\ wt[p] \in Values
      /\ \A b \in Branches : index[b] \in Values /\ served[b] \in Values
    BY DEF TypeOK, Requests, Values, Trees, Entries
<1>1. CASE EditWorktree
  <2>1. wt' \in [Paths -> Values]
    BY <1>0, <1>1 DEF EditWorktree, Archive, TypeOK
  <2> QED BY <1>1, <2>1, AreaStep DEF EditWorktree, TypeOK
<1>2. CASE AddPath
  <2>1. index' \in Trees
    BY <1>0, <1>2 DEF AddPath, TypeOK, Trees
  <2> QED BY <1>2, <2>1, AreaStep DEF AddPath, TypeOK
<1>3. CASE AddAll
  <2>1. index' \in Trees
    BY <1>3, WorktreeTyped DEF AddAll
  <2> QED BY <1>3, <2>1, AreaStep DEF AddAll, TypeOK
<1>4. CASE RemovePath
  <2>1. index' \in Trees /\ wt' \in [Paths -> Values]
    BY <1>0, <1>4 DEF RemovePath, TypeOK, Trees
  <2> QED BY <1>4, <2>1, AreaStep DEF RemovePath, TypeOK
<1>5. CASE ReadTree
  <2>1. index' \in Trees
    BY <1>5 DEF ReadTree, TypeOK, SectionOK
  <2> QED BY <1>5, <2>1, AreaStep DEF ReadTree, TypeOK
<1>6. CASE CheckoutIndex
  <2>1. wt' \in [Paths -> Values] /\ served' \in [Branches -> Values]
    BY <1>0, <1>6 DEF CheckoutIndex
  <2> QED BY <1>6, <2>1, AreaStep DEF CheckoutIndex, TypeOK
<1>7. CASE Clean
  <2>1. wt' \in [Paths -> Values] /\ served' \in [Branches -> Values]
    BY <1>0, <1>7 DEF Clean
  <2> QED BY <1>7, <2>1, AreaStep DEF Clean, TypeOK
<1> QED BY <1>1, <1>2, <1>3, <1>4, <1>5, <1>6, <1>7

(* The object store only grows: old commits keep their ancestry and origin. *)
StoreGrows ==
    /\ n' \in Nat /\ n <= n'
    /\ \A c \in 1..n : anc'[c] = anc[c] /\ made'[c] = made[c]

(* Branches move to descendants of their old tips. *)
Forward ==
    \A b \in Branches :
        refs[b] # NoCommit /\ refs'[b] # NoCommit => refs[b] \in anc'[refs'[b]]

(* The general shape of a ref move: one branch goes to a commit whose ancestry
   contains the old tip. *)
LEMMA RefMove ==
    ASSUME TypeOK, StoreInv, StoreGrows, AncestryOK', anc' \in [1..n' -> SUBSET (1..n')],
           NEW b \in Branches, NEW c \in 1..n',
           refs' = [refs EXCEPT ![b] = c],
           refs[b] # NoCommit => refs[b] \in anc'[c],
           UNCHANGED <<acked, pointer>>
    PROVE  StoreInv' /\ Forward
<1> USE DEF StoreInv
<1>1. \A x \in Branches : refs[x] # NoCommit => refs[x] \in 1..n /\ refs[x] \in 1..n'
    BY DEF TypeOK, NoCommit, StoreGrows
<1>2. \A x \in Branches : x # b => refs'[x] = refs[x]
    BY DEF TypeOK
<1>3. refs'[b] = c /\ c # NoCommit
    BY DEF TypeOK, NoCommit
<1>4. Forward
    BY <1>1, <1>2, <1>3 DEF Forward, AncestryOK
<1>5. ASSUME NEW x \in Branches, refs[x] # NoCommit, NEW d \in anc[refs[x]]
      PROVE  refs'[x] # NoCommit /\ d \in anc'[refs'[x]]
  <2>1. d \in anc'[refs[x]] /\ refs'[x] # NoCommit /\ refs[x] \in anc'[refs'[x]]
    BY <1>1, <1>2, <1>3, <1>4, <1>5 DEF StoreGrows, Forward
  <2>2. refs'[x] \in 1..n'
    BY <1>1, <1>2, <1>3, <1>5
  <2> QED BY <2>1, <2>2 DEF AncestryOK
<1>6. AckedNeverLost'
    BY <1>5 DEF AckedNeverLost, TypeOK, Acks
<1>7. AckedOnItsBase'
  <2>1. \A a \in acked : a.sha \in 1..n
    <3> SUFFICES ASSUME NEW a \in acked PROVE a.sha \in 1..n
        OBVIOUS
    <3>1. a.on \in Branches
        BY DEF TypeOK, Acks
    <3> QED BY <1>1, <3>1 DEF AckedNeverLost, TypeOK
  <2> QED BY <2>1 DEF AckedOnItsBase, StoreGrows
<1>8. PointerInPublishedHistory'
    BY <1>5 DEF PointerInPublishedHistory, Branches
<1> QED BY <1>4, <1>6, <1>7, <1>8

(* When no ref moves, branches trivially stay on descendants of themselves. *)
LEMMA StillForward ==
    ASSUME TypeOK, AncestryOK, StoreGrows, UNCHANGED refs
    PROVE  Forward
<1> SUFFICES ASSUME NEW b \in Branches, refs[b] # NoCommit PROVE refs[b] \in anc'[refs[b]]
    BY DEF Forward
<1>1. refs[b] \in 1..n
    BY DEF TypeOK, NoCommit
<1> QED BY <1>1 DEF StoreGrows, AncestryOK

(* What callers were told of stays there. *)
LEMMA AcksGrow ==
    ASSUME n \in Nat, n' \in Nat, n <= n', acked \in SUBSET Acks, acked' = acked
    PROVE  acked' \in SUBSET Acks'
<1>1. 1..n \subseteq 1..n'
    OBVIOUS
<1> QED BY <1>1 DEF Acks

(* An unchanged store has grown by nothing. *)
LEMMA UnchangedGrows == ASSUME TypeOK, UNCHANGED repo PROVE StoreGrows
BY DEF TypeOK, StoreGrows, repo

(* The commit made from the index. *)
LEMMA CommitStagedInv ==
    ASSUME IndInv, CommitStaged
    PROVE  IndInv' /\ Forward
<1> USE DEF IndInv
<1> DEFINE m == [parent |-> refs[head], on |-> head, req |-> cur.req]
<1>1. head \in Branches /\ refs[head] \in 1..n /\ cur.req \in Requests
    BY DEF HeadIsWorkingBranch, TypeOK, NoCommit
<1>2. m \in [parent : 0..n, on : Branches, req : Requests] /\ index \in Trees
      /\ {refs[head]} \in SUBSET (1..n)
    BY <1>1 DEF TypeOK
<1>3. NewCommit({refs[head]}, index, m)
    BY DEF CommitStaged
<1>4. /\ n' = n + 1 /\ n' \in Nat \ {0}
      /\ tree' \in [1..n' -> Trees]
      /\ anc' \in [1..n' -> SUBSET (1..n')]
      /\ made' \in [1..n' -> [parent : 0..n', on : Branches, req : Requests]]
      /\ \A c \in 1..n : anc'[c] = anc[c] /\ made'[c] = made[c] /\ tree'[c] = tree[c]
      /\ made'[n + 1] = m
      /\ refs[head] \in anc'[n + 1]
      /\ AncestryOK'
  <2> HIDE DEF m
  <2>1. TypeOK /\ AncestryOK
    OBVIOUS
  <2> QED BY <1>2, <1>3, <2>1, NewCommitOK
<1>5. refs' = [refs EXCEPT ![head] = n + 1] /\ n + 1 \in 1..n'
    BY <1>4 DEF CommitStaged
<1>6. StoreInv' /\ Forward
  <2>1. StoreGrows
    BY <1>4 DEF StoreGrows, TypeOK
  <2>2. UNCHANGED <<acked, pointer>>
    BY DEF CommitStaged
  <2> QED BY <1>1, <1>4, <1>5, <2>1, <2>2, RefMove DEF StoreInv
<1>7. cur' = [stage |-> "committed", req |-> cur.req, sha |-> cur.sha]
    BY DEF CommitStaged, Move, TypeOK
<1>8. TypeOK'
  <2>1. refs' \in [Branches -> 0..n']
    BY <1>4, <1>5 DEF TypeOK
  <2>2. cur' \in [stage : Stages, req : Requests, sha : 0..n']
    BY <1>4, <1>7 DEF TypeOK, Stages
  <2>3. pointer' \in 0..n' /\ origin' \in 0..n'
    BY <1>4 DEF TypeOK, CommitStaged, env
  <2>4. acked' \in SUBSET Acks'
    BY <1>4, AcksGrow DEF CommitStaged, TypeOK
  <2> QED BY <1>4, <2>1, <2>2, <2>3, <2>4 DEF TypeOK, CommitStaged, area, env
<1>9. HeadIsWorkingBranch'
    BY <1>1, <1>5 DEF HeadIsWorkingBranch, CommitStaged, NoCommit, TypeOK
<1>10. SectionOK'
  <2>1. cur.req.op \in WriteOps
    BY DEF SectionOK, CommitStaged
  <2>2. refs'[head] = n + 1 /\ \A b \in Branches : b # head => refs'[b] = refs[b]
    BY <1>1, <1>5 DEF TypeOK
  <2>3. ASSUME refs'[cur.req.branch] # NoCommit
        PROVE  /\ made'[refs'[cur.req.branch]].parent = cur.req.base
               /\ made'[refs'[cur.req.branch]].on = cur.req.branch
    <3>1. cur.req.branch \in Branches
        BY <1>1 DEF Requests
    <3>2. head = cur.req.branch /\ refs[head] = cur.req.base
        BY <1>1, <2>2, <2>3, <3>1 DEF SectionOK, CommitStaged, NoCommit
    <3> QED BY <1>4, <2>2, <3>2
  <2> QED BY <1>7, <2>1, <2>3 DEF SectionOK
<1> QED BY <1>6, <1>8, <1>9, <1>10 DEF StoreInv

(* The answer to the caller. *)
LEMMA AcknowledgeInv ==
    ASSUME IndInv, Acknowledge
    PROVE  IndInv' /\ Forward
<1> USE DEF IndInv
<1> DEFINE b == cur.req.branch
           a == [on |-> b, sha |-> refs[b], base |-> cur.req.base, op |-> cur.req.op]
<1>1. b \in Branches /\ cur.req \in Requests /\ refs[b] \in 1..n /\ cur.req.op \in WriteOps
    BY DEF TypeOK, Requests, Acknowledge, ReadBack, Tip, NoCommit, SectionOK
<1>2. acked' = acked \cup {a}
    BY DEF Acknowledge, Tip
<1>3. a \in Acks
    BY <1>1 DEF Acks, Requests
<1>4. TypeOK'
  <2>1. cur' \in [stage : Stages, req : Requests, sha : 0..n]
    BY FreeTyped DEF Acknowledge, TypeOK
  <2>2. acked' \in SUBSET Acks /\ refreshing' \in SUBSET Branches
    BY <1>1, <1>2, <1>3 DEF TypeOK, Acknowledge
  <2> QED BY <2>1, <2>2 DEF TypeOK, Acks, Acknowledge, repo, area, env
<1>5. AckedOnItsBase'
    BY <1>1, <1>2 DEF AckedOnItsBase, SectionOK, Acknowledge, ReadBack, repo, Tip
<1>6. AckedNeverLost'
    BY <1>1, <1>2 DEF AckedNeverLost, AncestryOK, Acknowledge, repo, NoCommit
<1>7. AncestryOK' /\ PointerInPublishedHistory' /\ HeadIsWorkingBranch'
    BY DEF AncestryOK, PointerInPublishedHistory, HeadIsWorkingBranch, Acknowledge, repo
<1>8. SectionOK'
    BY FreeSection DEF Acknowledge
<1>9. Forward
    BY UnchangedGrows, StillForward DEF Acknowledge
<1> QED BY <1>4, <1>5, <1>6, <1>7, <1>8, <1>9

(* A section that ends in an error only frees the lock. *)
LEMMA ErrorInv ==
    ASSUME IndInv, GiveUp \/ Fault
    PROVE  IndInv' /\ Forward
<1> USE DEF IndInv
<1>1. cur' = Free /\ UNCHANGED <<repo, refs, head, area, refreshing, acked, pointer, env>>
    BY DEF GiveUp, Fault
<1>2. indexLock' \in BOOLEAN
  <2>1. CASE GiveUp
    BY <2>1 DEF GiveUp, TypeOK
  <2>2. CASE Fault
    BY <2>2, Zenon DEF Fault, TypeOK
  <2> QED BY <2>1, <2>2
<1>3. faults' \in Nat
    BY DEF GiveUp, Fault, TypeOK
<1>4. cur' \in [stage : Stages, req : Requests, sha : 0..n]
    BY <1>1, FreeTyped DEF TypeOK
<1>5. TypeOK'
    BY <1>1, <1>2, <1>3, <1>4 DEF TypeOK, Acks, repo, area, env
<1>6. StoreInv'
    BY <1>1, QuietStep DEF StoreInv
<1>7. HeadIsWorkingBranch' /\ SectionOK'
    BY <1>1, FreeSection DEF HeadIsWorkingBranch
<1>8. Forward
    BY <1>1, UnchangedGrows, StillForward
<1> QED BY <1>5, <1>6, <1>7, <1>8 DEF StoreInv

(* A branch is created or deleted. *)
LEMMA BranchInv ==
    ASSUME IndInv, NEW b \in Branches,
           DeleteBranch(b) \/ \E from \in 1..n : CreateBranch(b, from)
    PROVE  IndInv' /\ Forward
<1> USE DEF IndInv
<1>1. CASE DeleteBranch(b)
  <2>1. b # Published /\ b # head /\ refs' = [refs EXCEPT ![b] = NoCommit]
    BY <1>1, BranchAssumption DEF DeleteBranch
  <2>2. \A x \in Branches : x # b => refs'[x] = refs[x]
    BY <2>1 DEF TypeOK
  <2>3. refs'[b] = NoCommit
    BY <2>1 DEF TypeOK
  <2>4. TypeOK'
    <3>1. refs' \in [Branches -> 0..n] /\ served' \in [Branches -> Values]
        BY <1>1, <2>1 DEF TypeOK, NoCommit, DeleteBranch, Values
    <3> QED BY <1>1, <3>1 DEF TypeOK, Acks, DeleteBranch, repo, env
  <2>5. AckedOnItsBase' /\ AckedNeverLost'
    BY <1>1, <2>2 DEF AckedOnItsBase, AckedNeverLost, DeleteBranch, repo, TypeOK, Acks
  <2>6. AncestryOK' /\ PointerInPublishedHistory' /\ HeadIsWorkingBranch'
    BY <1>1, <2>1, <2>2 DEF AncestryOK, PointerInPublishedHistory, HeadIsWorkingBranch,
        DeleteBranch, repo, Branches, Working
  <2>7. SectionOK'
    BY <1>1, FreeSection DEF DeleteBranch
  <2>8. Forward
    <3>1. StoreGrows
        BY <1>1, UnchangedGrows DEF DeleteBranch
    <3>2. ASSUME NEW x \in Branches, refs[x] # NoCommit, refs'[x] # NoCommit
          PROVE  refs[x] \in anc'[refs'[x]]
      <4>1. refs'[x] = refs[x] /\ refs[x] \in 1..n
        BY <2>2, <2>3, <3>2 DEF TypeOK, NoCommit
      <4> QED BY <3>1, <4>1 DEF StoreGrows, AncestryOK
    <3> QED BY <3>2 DEF Forward
  <2> QED BY <2>4, <2>5, <2>6, <2>7, <2>8
<1>2. CASE \E from \in 1..n : CreateBranch(b, from)
  <2>1. PICK from \in 1..n : CreateBranch(b, from)
    BY <1>2
  <2>2. refs[b] = NoCommit /\ refs' = [refs EXCEPT ![b] = from] /\ UNCHANGED repo
    BY <2>1 DEF CreateBranch
  <2>3. StoreInv' /\ Forward
    <3>1. StoreGrows /\ AncestryOK' /\ anc' \in [1..n' -> SUBSET (1..n')] /\ from \in 1..n'
        BY <2>2, UnchangedGrows DEF TypeOK, AncestryOK, repo
    <3>2. UNCHANGED <<acked, pointer>>
        BY <2>1 DEF CreateBranch
    <3> QED BY <2>2, <3>1, <3>2, RefMove DEF StoreInv
  <2>4. TypeOK'
    <3>1. refs' \in [Branches -> 0..n]
        BY <2>2 DEF TypeOK
    <3> QED BY <2>1, <3>1 DEF TypeOK, Acks, CreateBranch, repo, area, env
  <2>5. HeadIsWorkingBranch'
    BY <2>1, <2>2 DEF HeadIsWorkingBranch, CreateBranch, Working, TypeOK
  <2>6. SectionOK'
    BY <2>1, FreeSection DEF CreateBranch
  <2> QED BY <2>3, <2>4, <2>5, <2>6 DEF StoreInv
<1> QED BY <1>1, <1>2

(* A ref move of published that opens the finishing stage of Publish or Fetch:
   enough that the new tip descends from the old one. *)
LEMMA PublishedMove ==
    ASSUME IndInv, StoreGrows, AncestryOK',
           n' \in Nat \ {0}, tree' \in [1..n' -> Trees],
           anc' \in [1..n' -> SUBSET (1..n')],
           made' \in [1..n' -> [parent : 0..n', on : Branches, req : Requests]],
           NEW q \in Requests, NEW st \in {"moved", "synced"}, NEW c \in 1..n',
           refs' = [refs EXCEPT ![Published] = c],
           refs[Published] # NoCommit => refs[Published] \in anc'[c],
           q.op = "Publish" => q.base \in anc'[c],
           cur' = [stage |-> st, req |-> q, sha |-> c],
           UNCHANGED <<head, area, refreshing, acked, pointer, env, indexLock, faults>>
    PROVE  IndInv' /\ Forward
<1> USE DEF IndInv
<1>1. Published \in Branches
    BY DEF Branches
<1>2. StoreInv' /\ Forward
    BY <1>1, RefMove DEF StoreInv
<1>3. TypeOK'
  <2>1. refs' \in [Branches -> 0..n'] /\ pointer' \in 0..n' /\ origin' \in 0..n'
    BY <1>1 DEF TypeOK, StoreGrows, env
  <2>2. cur' \in [stage : Stages, req : Requests, sha : 0..n']
    BY DEF Stages
  <2>3. acked' \in SUBSET Acks'
    BY AcksGrow DEF TypeOK, StoreGrows
  <2> QED BY <2>1, <2>2, <2>3 DEF TypeOK, area, env
<1>4. HeadIsWorkingBranch'
    BY DEF HeadIsWorkingBranch, Working, TypeOK
<1>5. SectionOK'
  <2>1. refs'[Published] = c /\ c # NoCommit
    BY <1>1 DEF TypeOK, NoCommit
  <2> QED BY <2>1 DEF SectionOK
<1> QED BY <1>2, <1>3, <1>4, <1>5 DEF StoreInv

(* A publish that finds nothing to do. *)
LEMMA PublishNoOpInv ==
    ASSUME IndInv, NEW q \in Requests, PublishNoOp(q)
    PROVE  IndInv' /\ Forward
<1> USE DEF IndInv
<1> DEFINE a == [on |-> Published, sha |-> q.base, base |-> q.base, op |-> "Publish"]
<1>1. /\ Published \in Branches /\ refs[Published] = q.base /\ refs[Published] \in 1..n
      /\ acked' = acked \cup {a}
    BY DEF PublishNoOp, PublishGuard, Acked, Tip, TypeOK, NoCommit, Branches, Requests
<1>2. TypeOK'
    BY <1>1 DEF TypeOK, PublishNoOp, repo, area, env, Acks
<1>3. AckedOnItsBase'
    BY <1>1 DEF AckedOnItsBase, PublishNoOp, repo, WriteOps
<1>4. AckedNeverLost'
    BY <1>1 DEF AckedNeverLost, PublishNoOp, repo, AncestryOK, NoCommit
<1>5. AncestryOK' /\ PointerInPublishedHistory' /\ HeadIsWorkingBranch' /\ SectionOK'
    BY DEF AncestryOK, PointerInPublishedHistory, HeadIsWorkingBranch, SectionOK,
           PublishNoOp, repo
<1>6. Forward
    BY UnchangedGrows, StillForward DEF PublishNoOp
<1> QED BY <1>2, <1>3, <1>4, <1>5, <1>6

(* A request that passes Publish's guard names an existing commit. *)
LEMMA PublishGuardOK ==
    ASSUME TypeOK, NEW q \in Requests, PublishGuard(q)
    PROVE  q.base \in 1..n
<1>1. q.base = refs[q.branch] /\ refs[q.branch] # 0
    BY DEF PublishGuard, Tip, NoCommit
<1>2. q.branch \in Branches /\ n \in Nat
    BY DEF Requests, TypeOK
<1>3. refs[q.branch] \in 0..n
    BY <1>2 DEF TypeOK
<1> QED BY <1>1, <1>2, <1>3

(* A publish that fast-forwards. *)
LEMMA PublishForwardInv ==
    ASSUME IndInv, NEW q \in Requests, PublishForward(q)
    PROVE  IndInv' /\ Forward
<1> USE DEF IndInv
<1>0. q.base \in 1..n
    BY PublishGuardOK DEF PublishForward
<1>1. q.base \in 1..n /\ q.base \in anc[q.base]
    BY <1>0 DEF AncestryOK
<1>2. StoreGrows
    BY UnchangedGrows DEF PublishForward
<1>3. /\ AncestryOK' /\ n' \in Nat \ {0} /\ tree' \in [1..n' -> Trees]
      /\ anc' \in [1..n' -> SUBSET (1..n')]
      /\ made' \in [1..n' -> [parent : 0..n', on : Branches, req : Requests]]
      /\ q.base \in 1..n' /\ anc' = anc
    BY <1>1 DEF PublishForward, TypeOK, AncestryOK, repo
<1>4. /\ refs' = [refs EXCEPT ![Published] = q.base]
      /\ refs[Published] # NoCommit => refs[Published] \in anc'[q.base]
      /\ cur' = [stage |-> "moved", req |-> q, sha |-> q.base]
      /\ UNCHANGED <<head, area, refreshing, acked, pointer, env, indexLock, faults>>
    BY <1>3 DEF PublishForward, Moved, Tip
<1> QED BY <1>1, <1>2, <1>3, <1>4, PublishedMove

(* A publish that merges. *)
LEMMA PublishMergeInv ==
    ASSUME IndInv, NEW q \in Requests, PublishMerge(q)
    PROVE  IndInv' /\ Forward
<1> USE DEF IndInv
<1> DEFINE pub == refs[Published]
           m == [parent |-> pub, on |-> Published, req |-> q]
<1>1. q.base \in 1..n /\ pub \in 1..n /\ Published \in Branches
  <2>1. q.base \in 1..n
    BY PublishGuardOK DEF PublishMerge
  <2>2. pub # 0 /\ Published \in Branches
    BY DEF PublishMerge, Tip, NoCommit, Branches
  <2>3. pub \in 0..n /\ n \in Nat
    BY <2>2 DEF TypeOK
  <2> QED BY <2>1, <2>2, <2>3
<1>2. UNCHANGED <<head, area, refreshing, acked, pointer, env, indexLock, faults>>
    BY DEF PublishMerge
<1>3. PICK b \in MergeBases(pub, q.base) :
        \/ /\ NewCommit({pub, q.base}, Merged(tree[pub], tree[q.base], tree[b]), m)
           /\ refs' = [refs EXCEPT ![Published] = n + 1]
           /\ cur' = [stage |-> "moved", req |-> q, sha |-> n + 1]
        \/ /\ q.base \in anc[pub]
           /\ cur' = [stage |-> "moved", req |-> q, sha |-> pub]
           /\ UNCHANGED <<repo, refs>>
    BY DEF PublishMerge, Tip, Moved
<1>4. CASE /\ NewCommit({pub, q.base}, Merged(tree[pub], tree[q.base], tree[b]), m)
           /\ refs' = [refs EXCEPT ![Published] = n + 1]
           /\ cur' = [stage |-> "moved", req |-> q, sha |-> n + 1]
  <2>1. Merged(tree[pub], tree[q.base], tree[b]) \in Trees
    <3>1. tree[pub] \in Trees /\ tree[q.base] \in Trees
        BY <1>1 DEF TypeOK
    <3> HIDE DEF pub
    <3> QED BY <3>1 DEF Merged, Trees
  <2>2. m \in [parent : 0..n, on : Branches, req : Requests] /\ {pub, q.base} \in SUBSET (1..n)
    BY <1>1 DEF TypeOK
  <2>3. TypeOK /\ AncestryOK
    OBVIOUS
  <2>4. /\ n' = n + 1 /\ n' \in Nat \ {0}
        /\ tree' \in [1..n' -> Trees]
        /\ anc' \in [1..n' -> SUBSET (1..n')]
        /\ made' \in [1..n' -> [parent : 0..n', on : Branches, req : Requests]]
        /\ \A c \in 1..n : anc'[c] = anc[c] /\ made'[c] = made[c] /\ tree'[c] = tree[c]
        /\ pub \in anc'[n + 1] /\ q.base \in anc'[n + 1]
        /\ AncestryOK'
    <3> DEFINE t == Merged(tree[pub], tree[q.base], tree[b])
               ps == {pub, q.base}
    <3>1. t \in Trees /\ ps \in SUBSET (1..n) /\ NewCommit(ps, t, m) /\ pub \in ps /\ q.base \in ps
        BY <1>4, <2>1, <2>2
    <3> HIDE DEF m, t, ps
    <3>2. /\ n' = n + 1 /\ n' \in Nat \ {0}
          /\ tree' \in [1..n' -> Trees]
          /\ anc' \in [1..n' -> SUBSET (1..n')]
          /\ made' \in [1..n' -> [parent : 0..n', on : Branches, req : Requests]]
          /\ \A c \in 1..n : anc'[c] = anc[c] /\ made'[c] = made[c] /\ tree'[c] = tree[c]
          /\ \A p \in ps : p \in anc'[n + 1]
          /\ AncestryOK'
        BY <2>2, <2>3, <3>1, NewCommitOK
    <3> QED BY <3>1, <3>2
  <2>5. StoreGrows /\ n + 1 \in 1..n'
    BY <2>4 DEF StoreGrows, TypeOK
  <2> QED BY <1>2, <1>4, <2>4, <2>5, PublishedMove
<1>5. CASE /\ q.base \in anc[pub]
           /\ cur' = [stage |-> "moved", req |-> q, sha |-> pub]
           /\ UNCHANGED <<repo, refs>>
  <2>1. StoreGrows
    BY <1>5, UnchangedGrows
  <2>2. /\ AncestryOK' /\ n' \in Nat \ {0} /\ tree' \in [1..n' -> Trees]
        /\ anc' \in [1..n' -> SUBSET (1..n')]
        /\ made' \in [1..n' -> [parent : 0..n', on : Branches, req : Requests]]
        /\ pub \in 1..n' /\ anc' = anc /\ pub \in anc[pub]
    BY <1>1, <1>5 DEF TypeOK, AncestryOK, repo
  <2>3. refs' = [refs EXCEPT ![Published] = pub]
    BY <1>1, <1>5 DEF TypeOK
  <2> QED BY <1>2, <1>5, <2>1, <2>2, <2>3, PublishedMove
<1> QED BY <1>3, <1>4, <1>5

(* A delivery that creates or fast-forwards published. *)
LEMMA FetchInv ==
    ASSUME IndInv, FetchCreate \/ FetchForward
    PROVE  IndInv' /\ Forward
<1> USE DEF IndInv
<1>1. origin \in 1..n /\ FetchRequest \in Requests /\ FetchRequest.op # "Publish"
    BY NoRequestTyped DEF FetchCreate, FetchForward, TypeOK, NoCommit, FetchRequest, Request
<1>2. UNCHANGED repo /\ StoreGrows
    BY UnchangedGrows DEF FetchCreate, FetchForward
<1>3. /\ AncestryOK' /\ n' \in Nat \ {0} /\ tree' \in [1..n' -> Trees]
      /\ anc' \in [1..n' -> SUBSET (1..n')]
      /\ made' \in [1..n' -> [parent : 0..n', on : Branches, req : Requests]]
      /\ origin \in 1..n' /\ anc' = anc
    BY <1>1, <1>2 DEF TypeOK, AncestryOK, repo
<1>4. PICK st \in {"moved", "synced"} :
        /\ refs' = [refs EXCEPT ![Published] = origin]
        /\ refs[Published] # NoCommit => refs[Published] \in anc'[origin]
        /\ cur' = [stage |-> st, req |-> FetchRequest, sha |-> origin]
        /\ UNCHANGED <<head, area, refreshing, acked, pointer, env, indexLock, faults>>
    BY <1>3 DEF FetchCreate, FetchForward, Moved, Tip
<1> HIDE DEF FetchRequest
<1> QED BY <1>1, <1>2, <1>3, <1>4, PublishedMove

(* A served tree that is replaced by a branch's export keeps its type. *)
LEMMA ServedTyped ==
    ASSUME TypeOK, NEW b \in Branches,
           served' \in {served, [served EXCEPT ![b] = refs[b]]}
    PROVE  served' \in [Branches -> Values]
<1>1. n \in Nat /\ refs[b] \in 0..n /\ served \in [Branches -> Values]
    BY DEF TypeOK
<1>2. refs[b] \in Nat
    BY <1>1
<1>3. refs[b] \in Values
    BY <1>2 DEF Values
<1>4. CASE served' = served
    BY <1>1, <1>4
<1>5. CASE served' = [served EXCEPT ![b] = refs[b]]
    BY <1>1, <1>3, <1>5
<1> QED BY <1>4, <1>5

(* The end of a publish: export and pointer. *)
LEMMA FinishPublishInv ==
    ASSUME IndInv, FinishPublish
    PROVE  IndInv' /\ Forward
<1> USE DEF IndInv
<1> DEFINE a == [on |-> Published, sha |-> cur.req.base, base |-> cur.req.base, op |-> "Publish"]
<1>1. /\ Published \in Branches /\ refs[Published] \in 1..n /\ cur.sha = refs[Published]
      /\ cur.req.base \in anc[refs[Published]] /\ cur.req \in Requests
    BY DEF FinishPublish, SectionOK, TypeOK, NoCommit, Branches
<1>2. acked' = acked \cup {a} /\ a \in Acks /\ a.op \notin WriteOps
  <2>1. cur.req.base \in 1..n /\ cur.req.base \in Nat
    BY <1>1 DEF TypeOK, Requests
  <2> QED BY <1>1, <2>1 DEF FinishPublish, Acked, Acks, WriteOps
<1>3. served' \in [Branches -> Values]
    BY <1>1, ServedTyped DEF FinishPublish, Tip
<1>4. cur' \in [stage : Stages, req : Requests, sha : 0..n] /\ pointer' \in 0..n
    BY <1>1, FreeTyped DEF FinishPublish, TypeOK
<1>5. TypeOK'
    BY <1>2, <1>3, <1>4 DEF TypeOK, Acks, FinishPublish, repo, env
<1>6. AckedOnItsBase'
    BY <1>2 DEF AckedOnItsBase, FinishPublish, repo
<1>7. AckedNeverLost'
    BY <1>1, <1>2 DEF AckedNeverLost, FinishPublish, repo, NoCommit
<1>8. PointerInPublishedHistory'
    BY <1>1 DEF PointerInPublishedHistory, FinishPublish, repo, AncestryOK, NoCommit
<1>9. AncestryOK' /\ HeadIsWorkingBranch' /\ SectionOK'
    BY FreeSection DEF AncestryOK, HeadIsWorkingBranch, FinishPublish, repo
<1>10. Forward
    BY UnchangedGrows, StillForward DEF FinishPublish
<1> QED BY <1>5, <1>6, <1>7, <1>8, <1>9, <1>10

(* The end of a delivery: export and pointer. *)
LEMMA FinishFetchInv ==
    ASSUME IndInv, FinishFetch
    PROVE  IndInv' /\ Forward
<1> USE DEF IndInv
<1>1. /\ Published \in Branches /\ refs[Published] \in 1..n
      /\ pointer' \in {pointer, refs[Published]}
    BY DEF FinishFetch, SectionOK, TypeOK, NoCommit, Branches
<1>2. served' \in [Branches -> Values]
    BY <1>1, ServedTyped DEF FinishFetch, Tip
<1>3. cur' \in [stage : Stages, req : Requests, sha : 0..n] /\ pointer' \in 0..n
    BY <1>1, FreeTyped DEF FinishFetch, TypeOK
<1>4. TypeOK'
    BY <1>2, <1>3 DEF TypeOK, Acks, FinishFetch, repo, env
<1>5. PointerInPublishedHistory'
    BY <1>1 DEF PointerInPublishedHistory, FinishFetch, repo, AncestryOK, NoCommit
<1>6. AckedOnItsBase' /\ AckedNeverLost' /\ AncestryOK' /\ HeadIsWorkingBranch'
    BY DEF AckedOnItsBase, AckedNeverLost, AncestryOK, HeadIsWorkingBranch, FinishFetch, repo
<1>7. SectionOK'
    BY FreeSection DEF FinishFetch
<1>8. Forward
    BY UnchangedGrows, StillForward DEF FinishFetch
<1> QED BY <1>4, <1>5, <1>6, <1>7, <1>8

(* Refreshing served trees and deleting the site touch no commit and no ref. *)
LEMMA OutsideInv ==
    ASSUME IndInv, NEW b \in Branches, RefreshServed(b) \/ ServedTree(b) \/ DeleteSite
    PROVE  IndInv' /\ Forward
<1> USE DEF IndInv
<1>1. /\ UNCHANGED <<repo, refs, head, index, wt, cur, acked, pointer, origin, indexLock, faults>>
      /\ served' \in {served, [served EXCEPT ![b] = refs[b]]}
      /\ refreshing' \subseteq refreshing
    BY DEF RefreshServed, ServedTree, DeleteSite, Tip, area, env
<1>2. live' \in BOOLEAN
  <2>1. CASE RefreshServed(b) \/ ServedTree(b)
    BY <2>1 DEF RefreshServed, ServedTree, env, TypeOK
  <2>2. CASE DeleteSite
    BY <2>2, Zenon DEF DeleteSite
  <2> QED BY <2>1, <2>2
<1>3. TypeOK'
  <2>1. served' \in [Branches -> Values]
    BY <1>1, ServedTyped
  <2> QED BY <1>1, <1>2, <2>1 DEF TypeOK, Acks, repo
<1>4. StoreInv'
    BY <1>1, QuietStep DEF StoreInv
<1>5. HeadIsWorkingBranch' /\ SectionOK'
    BY <1>1 DEF HeadIsWorkingBranch, SectionOK, repo
<1>6. Forward
    BY <1>1, UnchangedGrows, StillForward
<1> QED BY <1>3, <1>4, <1>5, <1>6 DEF StoreInv

(* Somebody pushes to GitHub. *)
LEMMA GitHubPushInv ==
    ASSUME IndInv, NEW from \in 1..n, GitHubPush(from)
    PROVE  IndInv' /\ Forward
<1> USE DEF IndInv
<1> DEFINE q == Request("External", Published, NoCommit, Home, Seed, NoCommit)
           m == [parent |-> from, on |-> Published, req |-> q]
<1>0. UNCHANGED <<refs, head, area, cur, refreshing, acked, pointer, live, indexLock, faults>>
    BY DEF GitHubPush
<1>1. /\ StoreGrows /\ AncestryOK' /\ n' \in Nat \ {0} /\ tree' \in [1..n' -> Trees]
      /\ anc' \in [1..n' -> SUBSET (1..n')]
      /\ made' \in [1..n' -> [parent : 0..n', on : Branches, req : Requests]]
      /\ origin' \in 0..n'
  <2>1. CASE origin' = from /\ UNCHANGED repo
    <3>1. TypeOK /\ from \in 0..n /\ n' = n /\ tree' = tree /\ anc' = anc /\ made' = made
        BY <2>1 DEF TypeOK, repo
    <3>2. StoreGrows
        BY <3>1, UnchangedGrows, <2>1
    <3>3. AncestryOK'
        BY <3>1 DEF AncestryOK
    <3> QED BY <2>1, <3>1, <3>2, <3>3 DEF TypeOK
  <2>2. CASE \E p \in Paths, c \in Contents :
               /\ NewCommit({from}, [tree[from] EXCEPT ![p] = c], m)
               /\ origin' = n + 1
    <3>1. PICK p \in Paths, c \in Contents :
               /\ NewCommit({from}, [tree[from] EXCEPT ![p] = c], m)
               /\ origin' = n + 1
        BY <2>2
    <3>2. m \in [parent : 0..n, on : Branches, req : Requests]
        BY EntryAssumption DEF Request, Requests, Branches, NoCommit, TypeOK
    <3> DEFINE t == [tree[from] EXCEPT ![p] = c]
               ps == {from}
    <3>3. t \in Trees /\ ps \in SUBSET (1..n) /\ NewCommit(ps, t, m)
        BY <3>1 DEF TypeOK, Trees, Values
    <3>4. TypeOK /\ AncestryOK
        OBVIOUS
    <3> HIDE DEF m, t, ps
    <3>5. /\ n' = n + 1 /\ n' \in Nat \ {0}
          /\ tree' \in [1..n' -> Trees]
          /\ anc' \in [1..n' -> SUBSET (1..n')]
          /\ made' \in [1..n' -> [parent : 0..n', on : Branches, req : Requests]]
          /\ \A d \in 1..n : anc'[d] = anc[d] /\ made'[d] = made[d] /\ tree'[d] = tree[d]
          /\ AncestryOK'
        BY <3>2, <3>3, <3>4, NewCommitOK
    <3> QED BY <3>1, <3>5 DEF StoreGrows, TypeOK
  <2> QED BY <2>1, <2>2 DEF GitHubPush
<1>2. TypeOK'
  <2>1. n <= n' /\ n \in Nat
    BY <1>1 DEF StoreGrows, TypeOK
  <2>2. /\ refs' \in [Branches -> 0..n'] /\ pointer' \in 0..n'
        /\ cur' \in [stage : Stages, req : Requests, sha : 0..n']
    <3>1. 0..n \subseteq 0..n'
        BY <1>1, <2>1
    <3>2. refs' = refs /\ pointer' = pointer /\ cur' = cur
        BY <1>0
    <3>3. /\ refs \in [Branches -> 0..n] /\ pointer \in 0..n
          /\ cur \in [stage : Stages, req : Requests, sha : 0..n]
        BY DEF TypeOK
    <3>4. refs \in [Branches -> 0..n']
        BY <3>1, <3>3
    <3>5. cur \in [stage : Stages, req : Requests, sha : 0..n']
        BY <3>1, <3>3
    <3> QED BY <3>1, <3>2, <3>3, <3>4, <3>5
  <2>3. acked' \in SUBSET Acks'
    BY <1>0, <1>1, AcksGrow DEF TypeOK, StoreGrows
  <2> QED BY <1>0, <1>1, <2>2, <2>3 DEF TypeOK, area
<1>3. \A b \in Branches : refs[b] # NoCommit => refs[b] \in 1..n
    BY DEF TypeOK, NoCommit
<1>4. \A a \in acked : a.on \in Branches /\ a.sha \in 1..n
    BY <1>3 DEF AckedNeverLost, TypeOK, Acks
<1>5. AckedOnItsBase'
    BY <1>0, <1>1, <1>4 DEF AckedOnItsBase, StoreGrows
<1>6. AckedNeverLost'
    BY <1>0, <1>1, <1>3, <1>4 DEF AckedNeverLost, StoreGrows
<1>7. PointerInPublishedHistory'
    BY <1>0, <1>1, <1>3 DEF PointerInPublishedHistory, StoreGrows, Branches
<1>8. HeadIsWorkingBranch'
    BY <1>0 DEF HeadIsWorkingBranch
<1>9. SectionOK'
  <2>1. cur.req.branch \in Branches /\ Published \in Branches /\ n <= n' /\ n \in Nat /\ n' \in Nat
    BY <1>1 DEF TypeOK, Requests, StoreGrows, Branches
  <2> QED BY <1>0, <1>1, <1>3, <2>1 DEF SectionOK, StoreGrows
<1>10. Forward
    BY <1>0, <1>1, StillForward
<1> QED BY <1>1, <1>2, <1>5, <1>6, <1>7, <1>8, <1>9, <1>10

-----------------------------------------------------------------------------
(* Every step keeps the inductive invariant and moves branches forward only. *)
LEMMA NextInv ==
    ASSUME IndInv, [Next]_vars
    PROVE  IndInv' /\ Forward
<1>0. TypeOK /\ AncestryOK
    BY DEF IndInv
<1>1. CASE UNCHANGED vars
  <2>1. UNCHANGED <<repo, refs>>
    BY <1>1 DEF vars
  <2>2. IndInv'
    BY <1>1 DEF IndInv, TypeOK, Acks, AncestryOK, HeadIsWorkingBranch, SectionOK, AckedOnItsBase,
        AckedNeverLost, PointerInPublishedHistory, vars, repo, area, env
  <2> QED BY <1>0, <2>1, <2>2, UnchangedGrows, StillForward
<1>2. ASSUME NEW q \in Requests, ClientStep(q) PROVE IndInv' /\ Forward
  <2>1. CASE CheckoutForWrite(q)
    BY <1>0, <2>1, CheckoutForWriteInv, UnchangedGrows, StillForward DEF CheckoutForWrite
  <2>2. CASE CheckoutKilled(q)
    BY <1>0, <2>2, CheckoutKilledInv, UnchangedGrows, StillForward DEF CheckoutKilled
  <2>3. CASE ImportWithoutBranch(q)
    BY <1>0, <2>3, ImportWithoutBranchInv, UnchangedGrows, StillForward DEF ImportWithoutBranch
  <2> QED BY <1>2, <2>1, <2>2, <2>3, PublishNoOpInv, PublishForwardInv, PublishMergeInv
        DEF ClientStep
<1>3. ASSUME NEW op \in WriteOps \cup {"Publish"}, NEW b \in Branches, NEW base \in 0..n,
             NEW p \in Paths, NEW c \in Contents, NEW t \in 0..n
      PROVE  Request(op, b, base, p, c, t) \in Requests
    BY <1>0 DEF TypeOK, Request, Requests
<1>4. CASE SectionStep
  <2>1. CASE EditWorktree \/ AddPath \/ AddAll \/ RemovePath \/ ReadTree \/ CheckoutIndex \/ Clean
    <3>1. UNCHANGED <<repo, refs>>
        BY <2>1 DEF EditWorktree, AddPath, AddAll, RemovePath, ReadTree, CheckoutIndex, Clean
    <3> QED BY <1>0, <2>1, <3>1, AreaStepsInv, UnchangedGrows, StillForward
  <2> QED BY <1>4, <2>1, CommitStagedInv, AcknowledgeInv, ErrorInv, FinishPublishInv,
        FinishFetchInv DEF SectionStep
<1>5. CASE Fault
    BY <1>5, ErrorInv
<1>6. CASE (\E b \in Branches : RefreshServed(b)) \/ (\E b \in Branches : ServedTree(b)) \/ DeleteSite
  <2>1. Draft \in Branches
    BY DEF Branches
  <2> QED BY <1>6, <2>1, OutsideInv
<1>7. CASE BranchStep
    BY <1>7, BranchInv DEF BranchStep
<1>8. CASE GitHubStep
    BY <1>8, FetchInv, GitHubPushInv DEF GitHubStep
<1>9. CASE \E op \in Ops \cap (WriteOps \cup {"Publish"}), b \in Branches, base \in 0..n,
             p \in Paths, c \in Contents, t \in 0..n :
             /\ Canonical(Request(op, b, base, p, c, t))
             /\ ClientStep(Request(op, b, base, p, c, t))
  <2>1. PICK op \in Ops \cap (WriteOps \cup {"Publish"}), b \in Branches, base \in 0..n,
             p \in Paths, c \in Contents, t \in 0..n :
             ClientStep(Request(op, b, base, p, c, t))
    BY <1>9
  <2>2. Request(op, b, base, p, c, t) \in Requests
    BY <1>3
  <2> QED BY <1>2, <2>1, <2>2
<1> QED BY <1>1, <1>4, <1>5, <1>6, <1>7, <1>8, <1>9 DEF Next

(* The inductive invariant holds throughout every behaviour, whatever fails. *)
THEOREM IndInvHolds == Spec => []IndInv
<1>1. IndInv /\ [Next]_vars => IndInv'
    BY NextInv
<1> QED BY InitInv, <1>1, PTL DEF Spec

(* Type correctness of the repository model. *)
THEOREM TypeCorrect == Spec => []TypeOK
<1>1. IndInv => TypeOK
    BY DEF IndInv
<1> QED BY IndInvHolds, <1>1, PTL

(* The optimistic lock: an acknowledged write sits directly on the base SHA its
   caller sent (checkBaseSHA under withWriteLock). *)
THEOREM OptimisticLock == Spec => []AckedOnItsBase
<1>1. IndInv => AckedOnItsBase
    BY DEF IndInv
<1> QED BY IndInvHolds, <1>1, PTL

(* Acknowledged writes and publishes are never lost while their branch exists. *)
THEOREM Durability == Spec => []AckedNeverLost
<1>1. IndInv => AckedNeverLost
    BY DEF IndInv
<1> QED BY IndInvHolds, <1>1, PTL

(* HEAD never names published, so update-ref on published cannot leave a stale
   index behind. *)
THEOREM HeadStaysOnWorkingBranch == Spec => []HeadIsWorkingBranch
<1>1. IndInv => HeadIsWorkingBranch
    BY DEF IndInv
<1> QED BY IndInvHolds, <1>1, PTL

(* The database pointer stays inside published's history. *)
THEOREM PointerSound == Spec => []PointerInPublishedHistory
<1>1. IndInv => PointerInPublishedHistory
    BY DEF IndInv
<1> QED BY IndInvHolds, <1>1, PTL

(* No operation rewrites the history of a branch. *)
THEOREM NoHistoryRewrite == Spec => HistoryPreserved
<1>1. IndInv /\ [Next]_vars =>
        [\A b \in Branches :
            refs[b] # NoCommit /\ refs'[b] # NoCommit => refs[b] \in anc'[refs'[b]]]_vars
    BY NextInv DEF Forward
<1> QED BY IndInvHolds, <1>1, PTL DEF Spec, HistoryPreserved


-----------------------------------------------------------------------------
(***************************************************************************)
(* Whatever has failed before: what index and worktree hold of the request *)
(* in progress at each stage of its section.                               *)
(***************************************************************************)
RequestArea ==
    LET q == cur.req IN
    /\ cur.stage = "edited" =>
          /\ q.op = "WriteFile" => wt[q.path] = q.content
          /\ q.op = "ImportZip" => \A p \in Paths : wt[p] = Archive(q)[p]
    /\ cur.stage \in {"loaded", "written"} => q.op = "Rollback" /\ index = tree[q.target]
    /\ cur.stage = "staged" => AsAsked(q, index)

(* What the commits' records name exists. *)
RecordsOK ==
    \A c \in 1..n :
        /\ made[c].req.op \in WriteOps => made[c].parent \in 1..n
        /\ made[c].req.op = "Rollback" => made[c].req.target \in 1..n

AskedInv == RequestArea /\ RecordsOK /\ CommitsAsAsked

(* The commits stay as they were while none is added. *)
LEMMA AskedKept ==
    ASSUME RecordsOK, CommitsAsAsked, UNCHANGED repo
    PROVE  RecordsOK' /\ CommitsAsAsked'
BY DEF RecordsOK, CommitsAsAsked, AsAsked, Archive, repo

(* They stay as asked when the added commit is. *)
LEMMA AskedGrow ==
    ASSUME TypeOK, AncestryOK, RecordsOK, CommitsAsAsked,
           NEW parents \in SUBSET (1..n), NEW t \in Trees,
           NEW m \in [parent : 0..n, on : Branches, req : Requests],
           NewCommit(parents, t, m),
           m.req.op \in WriteOps => m.parent \in 1..n,
           m.req.op = "Rollback" => m.req.target \in 1..n,
           AsAsked(m.req, t)
    PROVE  RecordsOK' /\ CommitsAsAsked' /\ \A c \in 1..n : tree'[c] = tree[c]
<1>1. n' = n + 1 /\ made'[n + 1] = m /\ \A c \in 1..n : made'[c] = made[c] /\ tree'[c] = tree[c]
  BY NewCommitOK
<1>2. tree'[n + 1] = t /\ n \in Nat /\ 1..n' = 1..n \cup {n + 1}
  BY <1>1 DEF NewCommit, TypeOK
<1>3. RecordsOK'
  BY <1>1, <1>2 DEF RecordsOK
<1>4. ASSUME NEW c \in 1..n'
      PROVE  /\ made'[c].req.op = "WriteFile"  => tree'[c][made'[c].req.path] = made'[c].req.content
             /\ made'[c].req.op = "DeleteFile" => tree'[c][made'[c].req.path] = Absent
             /\ made'[c].req.op = "ImportZip"  => \A p \in Paths : tree'[c][p] = Archive(made'[c].req)[p]
             /\ made'[c].req.op = "Rollback"   => tree'[c] = tree'[made'[c].req.target]
  <2>1. CASE c \in 1..n
    <3>1. AsAsked(made[c].req, tree[c]) /\ made'[c] = made[c] /\ tree'[c] = tree[c]
      BY <1>1, <2>1 DEF CommitsAsAsked
    <3>2. made[c].req.op = "Rollback" => tree'[made[c].req.target] = tree[made[c].req.target]
      BY <1>1, <2>1 DEF RecordsOK
    <3> QED BY <3>1, <3>2 DEF AsAsked
  <2>2. CASE c = n + 1
    <3>1. m.req.op = "Rollback" => tree'[m.req.target] = tree[m.req.target]
      BY <1>1
    <3> QED BY <1>1, <1>2, <2>2, <3>1 DEF AsAsked
  <2> QED BY <1>2, <2>1, <2>2
<1> QED BY <1>1, <1>3, <1>4 DEF CommitsAsAsked, AsAsked, Archive

-----------------------------------------------------------------------------
(***************************************************************************)
(* While no command has failed: index and worktree hold nothing beside it. *)
(***************************************************************************)
Calm == {"free", "out", "committed", "moved", "synced"}

SectionArea ==
    LET q == cur.req IN
    /\ cur.stage \in Calm => index = HeadTree /\ \A p \in Paths : wt[p] = HeadTree[p]
    /\ cur.stage = "edited" =>
          /\ index = HeadTree
          /\ q.op = "WriteFile" => \A p \in Paths : p # q.path => wt[p] = HeadTree[p]
    /\ cur.stage \in {"loaded", "written"} => q.op = "Rollback"
    /\ cur.stage = "written" => \A p \in Paths : index[p] # Absent => wt[p] = index[p]
    /\ cur.stage = "staged" =>
          /\ \A p \in Paths : wt[p] = index[p]
          /\ q.op \in {"WriteFile", "DeleteFile"} => \A e \in Entries : e # q.path => index[e] = HeadTree[e]
          /\ q.op = "Commit" => \A p \in Paths : index[p] = HeadTree[p]

Exact == ~indexLock /\ SectionArea /\ NothingElseChanged
ExactInv == faults = 0 => Exact

(* The commits stay exact while no commit is added. *)
LEMMA ExactKept ==
    ASSUME NothingElseChanged, UNCHANGED repo
    PROVE  NothingElseChanged'
BY DEF NothingElseChanged, repo

(* They stay exact when the added commit changes nothing its request did not name. *)
LEMMA ExactGrow ==
    ASSUME TypeOK, AncestryOK, RecordsOK, NothingElseChanged,
           NEW parents \in SUBSET (1..n), NEW t \in Trees,
           NEW m \in [parent : 0..n, on : Branches, req : Requests],
           NewCommit(parents, t, m),
           m.req.op \in WriteOps => m.parent \in 1..n,
           m.req.op \in {"WriteFile", "DeleteFile"} =>
               \A e \in Entries : e # m.req.path => t[e] = tree[m.parent][e],
           m.req.op = "Commit" => \A p \in Paths : t[p] = tree[m.parent][p]
    PROVE  NothingElseChanged'
<1>1. n' = n + 1 /\ made'[n + 1] = m /\ \A c \in 1..n : made'[c] = made[c] /\ tree'[c] = tree[c]
  BY NewCommitOK
<1>2. tree'[n + 1] = t /\ n \in Nat /\ 1..n' = 1..n \cup {n + 1}
  BY <1>1 DEF NewCommit, TypeOK
<1>3. ASSUME NEW c \in 1..n'
      PROVE  /\ made'[c].req.op \in {"WriteFile", "DeleteFile"} =>
                  \A e \in Entries : e # made'[c].req.path => tree'[c][e] = tree'[made'[c].parent][e]
             /\ made'[c].req.op = "Commit" => \A p \in Paths : tree'[c][p] = tree'[made'[c].parent][p]
  <2>1. CASE c \in 1..n
    <3>1. made[c].req.op \in WriteOps => tree'[made[c].parent] = tree[made[c].parent]
      BY <1>1, <2>1 DEF RecordsOK
    <3> QED BY <1>1, <2>1, <3>1 DEF NothingElseChanged, WriteOps
  <2>2. CASE c = n + 1
    <3>1. m.req.op \in WriteOps => tree'[m.parent] = tree[m.parent]
      BY <1>1
    <3> QED BY <1>1, <1>2, <2>2, <3>1 DEF WriteOps
  <2> QED BY <1>2, <2>1, <2>2
<1> QED BY <1>3 DEF NothingElseChanged

(* HEAD's tree stays while HEAD's branch does not move. *)
LEMMA HeadTreeKept ==
    ASSUME TypeOK, HeadIsWorkingBranch, head' = head, refs'[head] = refs[head],
           \A c \in 1..n : tree'[c] = tree[c]
    PROVE  HeadTree' = HeadTree
<1>1. refs[head] \in 1..n
  BY DEF TypeOK, HeadIsWorkingBranch, Working, NoCommit
<1> QED BY <1>1 DEF HeadTree

(* Between two calm stages nothing need change. *)
LEMMA CalmStep ==
    ASSUME SectionArea, cur.stage \in Calm, cur'.stage \in Calm, UNCHANGED <<index, wt>>, HeadTree' = HeadTree
    PROVE  SectionArea'
BY DEF SectionArea, Calm

(* What runs outside the section leaves its area alone. *)
LEMMA OutsideStep ==
    ASSUME SectionArea, UNCHANGED <<index, wt, cur>>, HeadTree' = HeadTree
    PROVE  SectionArea'
BY DEF SectionArea

(* A new site is exact. *)
LEMMA ExactInit == Init => AskedInv /\ ExactInv
<1> SUFFICES ASSUME Init PROVE AskedInv /\ Exact
  BY DEF ExactInv
<1>1. HeadTree = SeedTree /\ cur.stage = "free" /\ index = SeedTree /\ \A p \in Paths : wt[p] = SeedTree[p]
  <2>1. head = Draft /\ refs[Draft] = 1 /\ tree[1] = SeedTree
    BY DEF Init, Branches
  <2>2. index = SeedTree /\ \A p \in Paths : wt[p] = SeedTree[p]
    BY DEF Init
  <2> QED BY <2>1, <2>2 DEF Init, HeadTree, Free
<1>2. SectionArea /\ RequestArea
  BY <1>1 DEF SectionArea, RequestArea, Calm
<1>3. n = 1 /\ made[1].req.op = "Init"
  BY DEF Init, NoRequest, Request
<1> QED BY <1>2, <1>3 DEF Init, Exact, AskedInv, RecordsOK, CommitsAsAsked, AsAsked, NothingElseChanged, WriteOps

(* The commands of a section on index and worktree do what the request asks. *)
LEMMA AreaAsked ==
    ASSUME IndInv, AskedInv,
           EditWorktree \/ AddPath \/ AddAll \/ RemovePath \/ ReadTree \/ CheckoutIndex \/ Clean
    PROVE  AskedInv'
<1>1. UNCHANGED repo /\ tree' = tree
  BY DEF EditWorktree, AddPath, AddAll, RemovePath, ReadTree, CheckoutIndex, Clean, repo
<1>2. RecordsOK' /\ CommitsAsAsked'
  BY <1>1, AskedKept DEF AskedInv
<1>3. RequestArea /\ TypeOK
  BY DEF AskedInv, IndInv
<1>4. cur.req \in Requests /\ index \in Trees /\ wt \in [Paths -> Values] /\ cur'.req = cur.req
  BY <1>3 DEF TypeOK, EditWorktree, AddPath, AddAll, RemovePath, ReadTree, CheckoutIndex, Clean, Move
<1>5. cur.req.path \in Paths /\ Paths \subseteq Entries
  BY <1>4 DEF Requests, Entries
<1>6. CASE EditWorktree
  <2>1. cur'.stage = "edited"
    BY <1>3, <1>6 DEF EditWorktree, Move, TypeOK
  <2>2. cur.req.op = "WriteFile" => wt'[cur.req.path] = cur.req.content
    BY <1>4, <1>5, <1>6 DEF EditWorktree
  <2>3. cur.req.op = "ImportZip" => wt' = Archive(cur.req)
    BY <1>6 DEF EditWorktree
  <2>4. RequestArea'
    BY <1>4, <2>1, <2>2, <2>3 DEF RequestArea, Archive
  <2> QED BY <1>2, <2>4 DEF AskedInv
<1>7. CASE AddPath
  <2>1. cur'.stage = "staged" /\ cur.req.op = "WriteFile" /\ index' = [index EXCEPT ![cur.req.path] = wt[cur.req.path]]
        /\ wt[cur.req.path] = cur.req.content
    BY <1>3, <1>7 DEF AddPath, Move, TypeOK, RequestArea
  <2>2. index'[cur.req.path] = cur.req.content
    BY <1>4, <1>5, <2>1 DEF Trees
  <2>3. RequestArea'
    BY <1>4, <2>1, <2>2 DEF RequestArea, AsAsked
  <2> QED BY <1>2, <2>3 DEF AskedInv
<1>8. CASE AddAll
  <2>1. cur'.stage = "staged" /\ cur.req.op \in {"ImportZip", "Commit"} /\ index' = Worktree
    BY <1>3, <1>8 DEF AddAll, Move, TypeOK
  <2>2. cur.req.op = "ImportZip" => \A p \in Paths : wt[p] = Archive(cur.req)[p]
    BY <1>3, <1>8 DEF AddAll, RequestArea
  <2>3. \A p \in Paths : index'[p] = wt[p]
    BY <1>5, <2>1 DEF Worktree
  <2>4. RequestArea'
    BY <1>4, <2>1, <2>2, <2>3 DEF RequestArea, AsAsked, Archive
  <2> QED BY <1>2, <2>4 DEF AskedInv
<1>9. CASE RemovePath
  <2>1. cur'.stage = "staged" /\ cur.req.op = "DeleteFile" /\ index' = [index EXCEPT ![cur.req.path] = Absent]
    BY <1>3, <1>9 DEF RemovePath, Move, TypeOK
  <2>2. index'[cur.req.path] = Absent
    BY <1>4, <1>5, <2>1 DEF Trees
  <2>3. RequestArea'
    BY <1>4, <2>1, <2>2 DEF RequestArea, AsAsked
  <2> QED BY <1>2, <2>3 DEF AskedInv
<1>10. CASE ReadTree
  <2>1. cur'.stage = "loaded" /\ cur.req.op = "Rollback" /\ index' = tree[cur.req.target]
    BY <1>3, <1>10 DEF ReadTree, Move, TypeOK
  <2>2. RequestArea'
    BY <1>1, <1>4, <2>1 DEF RequestArea
  <2> QED BY <1>2, <2>2 DEF AskedInv
<1>11. CASE CheckoutIndex \/ Clean
  <2>1. /\ cur.stage \in {"loaded", "written"} /\ index' = index
        /\ cur'.stage \in {"written", "staged"}
    BY <1>3, <1>11 DEF CheckoutIndex, Clean, Move, TypeOK
  <2>2. cur.req.op = "Rollback" /\ index = tree[cur.req.target]
    BY <1>3, <2>1 DEF RequestArea
  <2>3. RequestArea'
    BY <1>1, <1>4, <2>1, <2>2 DEF RequestArea, AsAsked
  <2> QED BY <1>2, <2>3 DEF AskedInv
<1> QED BY <1>6, <1>7, <1>8, <1>9, <1>10, <1>11

(* Steps that add no commit and work on no area keep what was asked. *)
LEMMA QuietAsked ==
    ASSUME IndInv, AskedInv, UNCHANGED repo,
           \/ UNCHANGED <<index, wt, cur>>
           \/ cur'.stage \in {"free", "out", "committed", "moved", "synced"}
    PROVE  AskedInv'
<1>1. RecordsOK' /\ CommitsAsAsked' /\ tree' = tree
  BY AskedKept DEF AskedInv, repo
<1>2. RequestArea'
  <2>1. CASE UNCHANGED <<index, wt, cur>>
    BY <1>1, <2>1 DEF AskedInv, RequestArea, AsAsked, Archive
  <2>2. CASE cur'.stage \in {"free", "out", "committed", "moved", "synced"}
    BY <2>2 DEF RequestArea
  <2> QED BY <2>1, <2>2
<1> QED BY <1>1, <1>2 DEF AskedInv

(* What CommitStaged, PublishMerge and GitHubPush add to the store. *)
LEMMA CommitAdds ==
    ASSUME IndInv, CommitStaged
    PROVE  \E m \in [parent : 0..n, on : Branches, req : Requests] :
              /\ NewCommit({refs[head]}, index, m) /\ m.parent = refs[head] /\ m.req = cur.req
              /\ refs[head] \in 1..n /\ index \in Trees
<1>1. refs[head] \in 1..n /\ head \in Branches /\ n \in Nat /\ cur.req \in Requests /\ index \in Trees
  BY DEF IndInv, TypeOK, HeadIsWorkingBranch, Working, NoCommit
<1> DEFINE k == [parent |-> refs[head], on |-> head, req |-> cur.req]
<1>2. k \in [parent : 0..n, on : Branches, req : Requests] /\ k.parent = refs[head] /\ k.req = cur.req
  BY <1>1
<1>3. NewCommit({refs[head]}, index, k)
  BY DEF CommitStaged
<1> HIDE DEF k
<1> QED BY <1>1, <1>2, <1>3

LEMMA MergeAdds ==
    ASSUME IndInv, NEW q \in Requests, PublishMerge(q), ~UNCHANGED <<repo, refs>>
    PROVE  \E m \in [parent : 0..n, on : Branches, req : Requests], t \in Trees :
              /\ NewCommit(MergeParents(q), t, m) /\ m.req.op = "Publish"
              /\ MergeParents(q) \in SUBSET (1..n)
              /\ refs' = [refs EXCEPT ![Published] = n + 1]
<1>1. TypeOK
  BY DEF IndInv
<1>2. /\ q.op = "Publish" /\ q.branch \in Branches
      /\ refs[q.branch] = q.base /\ q.base # NoCommit /\ refs[Published] # NoCommit
  BY DEF PublishMerge, PublishGuard, Tip, Requests
<1>3. Published \in Branches
  BY DEF Branches
<1>4. q.base \in 1..n /\ refs[Published] \in 1..n /\ n \in Nat
  BY <1>1, <1>2, <1>3 DEF TypeOK, NoCommit
<1>5. PICK b \in MergeBases(Tip(Published), q.base) :
         /\ NewCommit(MergeParents(q), Merged(tree[Tip(Published)], tree[q.base], tree[b]),
                      [parent |-> Tip(Published), on |-> Published, req |-> q])
         /\ refs' = [refs EXCEPT ![Published] = n + 1]
  BY DEF PublishMerge
<1> DEFINE t == Merged(tree[Tip(Published)], tree[q.base], tree[b])
           k == [parent |-> Tip(Published), on |-> Published, req |-> q]
<1>6. t \in Trees
  <2>1. tree[Tip(Published)] \in Trees /\ tree[q.base] \in Trees
    BY <1>1, <1>4 DEF Tip, TypeOK
  <2> QED BY <2>1 DEF Merged, Trees
<1>7. k \in [parent : 0..n, on : Branches, req : Requests] /\ k.req = q
  BY <1>3, <1>4 DEF Tip
<1>8. MergeParents(q) \in SUBSET (1..n)
  BY <1>4 DEF MergeParents, Tip
<1>9. NewCommit(MergeParents(q), t, k)
  BY <1>5
<1> HIDE DEF t, k
<1> QED BY <1>2, <1>5, <1>6, <1>7, <1>8, <1>9

LEMMA PushAdds ==
    ASSUME IndInv, NEW from \in 1..n, GitHubPush(from), ~UNCHANGED repo
    PROVE  \E m \in [parent : 0..n, on : Branches, req : Requests], t \in Trees :
              /\ NewCommit({from}, t, m) /\ m.req.op = "External"
<1>1. TypeOK
  BY DEF IndInv
<1>2. PICK p \in Paths, c \in Contents :
         NewCommit({from}, [tree[from] EXCEPT ![p] = c],
              [parent |-> from, on |-> Published,
               req |-> Request("External", Published, NoCommit, Home, Seed, NoCommit)])
  BY DEF GitHubPush
<1> DEFINE t == [tree[from] EXCEPT ![p] = c]
           r == Request("External", Published, NoCommit, Home, Seed, NoCommit)
           k == [parent |-> from, on |-> Published, req |-> r]
<1>3. tree[from] \in Trees
  BY <1>1 DEF TypeOK
<1>4. t \in Trees
  BY <1>3 DEF Trees, Values
<1>5. r \in Requests /\ r.op = "External"
  BY EntryAssumption DEF Request, Requests, Branches, NoCommit
<1>6. NewCommit({from}, t, k)
  BY <1>2
<1> HIDE DEF r
<1>7. n \in Nat /\ Published \in Branches
  BY <1>1 DEF TypeOK, Branches
<1>8. k \in [parent : 0..n, on : Branches, req : Requests] /\ k.req = r
  BY <1>5, <1>7
<1> HIDE DEF t, k
<1> QED BY <1>4, <1>5, <1>6, <1>8

(* Every step, a failing one too, keeps the commits as they were asked for. *)
LEMMA AskedStep ==
    ASSUME IndInv, AskedInv, [Next]_vars
    PROVE  AskedInv'
<1>0. TypeOK /\ AncestryOK /\ SectionOK /\ RecordsOK /\ CommitsAsAsked /\ RequestArea
  BY DEF IndInv, AskedInv
<1>1. CASE UNCHANGED vars
  BY <1>1, QuietAsked DEF vars, area
<1>2. CASE CommitStaged
  <2>1. PICK m \in [parent : 0..n, on : Branches, req : Requests] :
              /\ NewCommit({refs[head]}, index, m) /\ m.parent = refs[head] /\ m.req = cur.req
              /\ refs[head] \in 1..n /\ index \in Trees
    BY <1>2, CommitAdds
  <2>2. AsAsked(m.req, index) /\ (m.req.op = "Rollback" => m.req.target \in 1..n)
    BY <1>0, <1>2, <2>1 DEF CommitStaged, RequestArea, SectionOK
  <2>3. {refs[head]} \in SUBSET (1..n) /\ m.parent \in 1..n
    BY <2>1
  <2>4. RecordsOK' /\ CommitsAsAsked'
    BY <1>0, <2>1, <2>2, <2>3, AskedGrow
  <2>5. cur'.stage = "committed"
    BY <1>0, <1>2 DEF CommitStaged, Move, TypeOK
  <2> QED BY <2>4, <2>5 DEF AskedInv, RequestArea
<1>3. ASSUME NEW q \in Requests, PublishMerge(q) PROVE AskedInv'
  <2>1. cur'.stage = "moved"
    BY <1>3 DEF PublishMerge, Moved
  <2>2. CASE UNCHANGED <<repo, refs>>
    BY <2>1, <2>2, QuietAsked
  <2>3. CASE ~UNCHANGED <<repo, refs>>
    <3>1. PICK m \in [parent : 0..n, on : Branches, req : Requests], t \in Trees :
              /\ NewCommit(MergeParents(q), t, m) /\ m.req.op = "Publish"
              /\ MergeParents(q) \in SUBSET (1..n)
      BY <1>3, <2>3, MergeAdds
    <3>2. AsAsked(m.req, t) /\ m.req.op \notin WriteOps
      BY <3>1 DEF AsAsked, WriteOps
    <3>3. RecordsOK' /\ CommitsAsAsked'
      BY <1>0, <3>1, <3>2, AskedGrow
    <3> QED BY <2>1, <3>3 DEF AskedInv, RequestArea
  <2> QED BY <2>2, <2>3
<1>4. ASSUME NEW from \in 1..n, GitHubPush(from) PROVE AskedInv'
  <2>1. UNCHANGED <<index, wt, cur>>
    BY <1>4 DEF GitHubPush, area
  <2>2. CASE UNCHANGED repo
    BY <2>1, <2>2, QuietAsked
  <2>3. CASE ~UNCHANGED repo
    <3>1. PICK m \in [parent : 0..n, on : Branches, req : Requests], t \in Trees :
              NewCommit({from}, t, m) /\ m.req.op = "External"
      BY <1>4, <2>3, PushAdds
    <3>2. AsAsked(m.req, t) /\ m.req.op \notin WriteOps /\ {from} \in SUBSET (1..n)
      BY <3>1 DEF AsAsked, WriteOps
    <3>3. RecordsOK' /\ CommitsAsAsked' /\ \A c \in 1..n : tree'[c] = tree[c]
      BY <1>0, <3>1, <3>2, AskedGrow
    <3>4. cur.stage \in {"loaded", "written", "staged"} /\ cur.req.op = "Rollback" =>
             tree'[cur.req.target] = tree[cur.req.target]
      BY <1>0, <3>3 DEF SectionOK
    <3>5. RequestArea'
      BY <1>0, <2>1, <3>4 DEF RequestArea, AsAsked, Archive
    <3> QED BY <3>3, <3>5 DEF AskedInv
  <2> QED BY <2>2, <2>3
<1>5. ASSUME NEW q \in Requests, ClientStep(q) PROVE AskedInv'
  <2>1. CASE PublishMerge(q)
    BY <1>3, <2>1
  <2>2. CASE ~PublishMerge(q)
    <3>1. UNCHANGED repo /\ (cur'.stage \in {"free", "out", "committed", "moved", "synced"})
      BY <1>5, <2>2 DEF ClientStep, CheckoutForWrite, CheckoutKilled, ImportWithoutBranch, PublishNoOp,
           PublishForward, PublishGuard, Enter, Moved, Free
    <3> QED BY <3>1, QuietAsked
  <2> QED BY <2>1, <2>2
<1>6. CASE SectionStep
  <2>1. CASE EditWorktree \/ AddPath \/ AddAll \/ RemovePath \/ ReadTree \/ CheckoutIndex \/ Clean
    BY <2>1, AreaAsked
  <2>2. CASE Acknowledge \/ GiveUp \/ FinishPublish \/ FinishFetch
    <3>1. UNCHANGED repo /\ cur'.stage = "free"
      BY <2>2 DEF Acknowledge, GiveUp, FinishPublish, FinishFetch, Free
    <3> QED BY <3>1, QuietAsked
  <2> QED BY <1>2, <1>6, <2>1, <2>2 DEF SectionStep
<1>7. CASE Fault
  BY <1>7, QuietAsked DEF Fault, Free
<1>8. CASE (\E b \in Branches : RefreshServed(b)) \/ (\E b \in Branches : ServedTree(b)) \/ DeleteSite \/ BranchStep
  <2>1. UNCHANGED repo /\ UNCHANGED <<index, wt, cur>>
    BY <1>8 DEF RefreshServed, ServedTree, DeleteSite, BranchStep, CreateBranch, DeleteBranch, area
  <2> QED BY <2>1, QuietAsked
<1>9. CASE GitHubStep
  <2>1. CASE FetchCreate \/ FetchForward
    <3>1. UNCHANGED repo /\ cur'.stage \in {"moved", "synced"}
      BY <2>1 DEF FetchCreate, FetchForward, Moved
    <3> QED BY <3>1, QuietAsked
  <2> QED BY <1>4, <1>9, <2>1 DEF GitHubStep
<1>10. ASSUME NEW op \in WriteOps \cup {"Publish"}, NEW b \in Branches, NEW base \in 0..n,
             NEW p \in Paths, NEW c \in Contents, NEW t \in 0..n
      PROVE  Request(op, b, base, p, c, t) \in Requests
  BY DEF IndInv, TypeOK, Request, Requests
<1>11. CASE \E op \in Ops \cap (WriteOps \cup {"Publish"}), b \in Branches, base \in 0..n,
             p \in Paths, c \in Contents, t \in 0..n :
             /\ Canonical(Request(op, b, base, p, c, t))
             /\ ClientStep(Request(op, b, base, p, c, t))
  <2>1. PICK op \in Ops \cap (WriteOps \cup {"Publish"}), b \in Branches, base \in 0..n,
             p \in Paths, c \in Contents, t \in 0..n :
             ClientStep(Request(op, b, base, p, c, t))
    BY <1>11
  <2>2. Request(op, b, base, p, c, t) \in Requests
    BY <1>10
  <2> QED BY <1>5, <2>1, <2>2
<1> QED BY <1>1, <1>6, <1>7, <1>8, <1>9, <1>11 DEF Next

(* A checkout from a clean area leaves a clean one. *)
LEMMA CheckoutExact ==
    ASSUME IndInv, Exact, NEW q \in Requests, CheckoutForWrite(q)
    PROVE  Exact'
<1>1. cur.stage = "free" /\ cur'.stage = "out" /\ UNCHANGED <<repo, refs, indexLock>> /\ head' = q.branch
  BY DEF CheckoutForWrite, Enter, Free
<1>2. index = HeadTree /\ \A p \in Paths : wt[p] = HeadTree[p]
  BY <1>1 DEF Exact, SectionArea, Calm
<1>3. HeadTree' = tree[refs[q.branch]]
  BY <1>1 DEF HeadTree, repo
<1>4. index' = HeadTree' /\ \A p \in Paths : wt'[p] = HeadTree'[p]
  <2>1. CASE q.branch = head /\ UNCHANGED area
    BY <1>2, <1>3, <2>1 DEF area, HeadTree
  <2>2. CASE ~(q.branch = head /\ UNCHANGED area)
    <3>1. /\ index' = [e \in Entries |-> SwitchEntry(q.branch, e, index[e])]
          /\ wt' = [p \in Paths |-> SwitchEntry(q.branch, p, wt[p])]
      BY <2>2 DEF CheckoutForWrite
    <3>2. \A e \in Entries : SwitchEntry(q.branch, e, HeadTree[e]) = tree[refs[q.branch]][e]
      BY <1>2 DEF SwitchEntry, KeepsEntry
    <3>3. tree[refs[q.branch]] \in Trees
      <4>1. q.branch \in Branches /\ refs[q.branch] # NoCommit
        BY DEF CheckoutForWrite, Tip, Requests
      <4>2. refs[q.branch] \in 1..n
        BY <4>1 DEF IndInv, TypeOK, NoCommit
      <4> QED BY <4>2 DEF IndInv, TypeOK
    <3>4. index' = tree[refs[q.branch]]
      BY <1>2, <3>1, <3>2, <3>3 DEF Trees
    <3>5. \A p \in Paths : wt'[p] = tree[refs[q.branch]][p]
      BY <1>2, <3>1, <3>2 DEF Entries
    <3> QED BY <1>3, <3>4, <3>5
  <2> QED BY <2>1, <2>2
<1>5. SectionArea'
  BY <1>1, <1>4 DEF SectionArea, Calm
<1>6. NothingElseChanged'
  BY <1>1, ExactKept DEF Exact
<1> QED BY <1>1, <1>5, <1>6 DEF Exact

(* The commands of a section on index and worktree keep to their stages. *)
LEMMA AreaExact ==
    ASSUME IndInv, Exact,
           EditWorktree \/ AddPath \/ AddAll \/ RemovePath \/ ReadTree \/ CheckoutIndex \/ Clean
    PROVE  Exact'
<1>1. UNCHANGED <<repo, refs, head, indexLock>>
  BY DEF EditWorktree, AddPath, AddAll, RemovePath, ReadTree, CheckoutIndex, Clean
<1>2. NothingElseChanged' /\ ~indexLock'
  BY <1>1, ExactKept DEF Exact
<1>3. HeadTree' = HeadTree /\ tree' = tree
  BY <1>1 DEF HeadTree, repo
<1>4. SectionArea /\ TypeOK /\ SectionOK
  BY DEF Exact, IndInv
<1>5. cur.stage \in Stages /\ cur.req \in Requests /\ index \in Trees /\ wt \in [Paths -> Values] /\ HeadTree \in Trees
  <2>1. refs[head] \in 1..n
    BY DEF IndInv, TypeOK, HeadIsWorkingBranch, Working, NoCommit
  <2> QED BY <1>4, <2>1 DEF TypeOK, HeadTree
<1>6. cur'.req = cur.req
  BY <1>4 DEF TypeOK, EditWorktree, AddPath, AddAll, RemovePath, ReadTree, CheckoutIndex, Clean, Move
<1>7. cur.req.path \in Paths /\ Paths \subseteq Entries
  BY <1>5 DEF Requests, Entries
<1>8. CASE EditWorktree
  <2>1. cur.stage = "out" /\ cur'.stage = "edited" /\ index' = index
    BY <1>4, <1>8 DEF EditWorktree, Move, TypeOK
  <2>2. index = HeadTree /\ \A p \in Paths : wt[p] = HeadTree[p]
    BY <1>4, <2>1 DEF SectionArea, Calm
  <2>3. cur.req.op = "WriteFile" => wt' = [wt EXCEPT ![cur.req.path] = cur.req.content]
    BY <1>8 DEF EditWorktree
  <2>4. cur.req.op = "WriteFile" => \A p \in Paths : p # cur.req.path => wt'[p] = HeadTree[p]
    BY <1>5, <1>7, <2>2, <2>3
  <2>5. SectionArea'
    BY <1>3, <1>6, <2>1, <2>2, <2>4 DEF SectionArea, Calm
  <2> QED BY <1>2, <2>5 DEF Exact
<1>9. CASE AddPath
  <2>1. cur.stage = "edited" /\ cur'.stage = "staged" /\ cur.req.op = "WriteFile" /\ wt' = wt
        /\ index' = [index EXCEPT ![cur.req.path] = wt[cur.req.path]]
    BY <1>4, <1>9 DEF AddPath, Move, TypeOK
  <2>2. index = HeadTree /\ \A p \in Paths : p # cur.req.path => wt[p] = HeadTree[p]
    BY <1>4, <2>1 DEF SectionArea
  <2>3. \A e \in Entries : e # cur.req.path => index'[e] = HeadTree[e]
    BY <1>5, <2>1, <2>2 DEF Trees
  <2>4. \A p \in Paths : wt'[p] = index'[p]
    BY <1>5, <1>7, <2>1, <2>2 DEF Trees
  <2>5. SectionArea'
    BY <1>3, <1>6, <2>1, <2>3, <2>4 DEF SectionArea, Calm
  <2> QED BY <1>2, <2>5 DEF Exact
<1>10. CASE AddAll
  <2>1. cur'.stage = "staged" /\ cur.req.op \in {"ImportZip", "Commit"} /\ wt' = wt /\ index' = Worktree
    BY <1>4, <1>10 DEF AddAll, Move, TypeOK
  <2>2. \A p \in Paths : wt'[p] = index'[p]
    BY <1>7, <2>1 DEF Worktree
  <2>3. cur.req.op = "Commit" => \A p \in Paths : wt[p] = HeadTree[p]
    BY <1>4, <1>10 DEF AddAll, SectionArea, Calm
  <2>4. SectionArea'
    BY <1>3, <1>6, <2>1, <2>2, <2>3 DEF SectionArea, Calm
  <2> QED BY <1>2, <2>4 DEF Exact
<1>11. CASE RemovePath
  <2>1. /\ cur.stage = "out" /\ cur'.stage = "staged" /\ cur.req.op = "DeleteFile"
        /\ index' = [index EXCEPT ![cur.req.path] = Absent] /\ wt' = [wt EXCEPT ![cur.req.path] = Absent]
    BY <1>4, <1>11 DEF RemovePath, Move, TypeOK
  <2>2. index = HeadTree /\ \A p \in Paths : wt[p] = HeadTree[p]
    BY <1>4, <2>1 DEF SectionArea, Calm
  <2>3. \A e \in Entries : e # cur.req.path => index'[e] = HeadTree[e]
    BY <1>5, <2>1, <2>2 DEF Trees
  <2>4. \A p \in Paths : wt'[p] = index'[p]
    BY <1>5, <1>7, <2>1, <2>2 DEF Trees
  <2>5. SectionArea'
    BY <1>3, <1>6, <2>1, <2>3, <2>4 DEF SectionArea, Calm
  <2> QED BY <1>2, <2>5 DEF Exact
<1>12. CASE ReadTree
  <2>1. cur'.stage = "loaded" /\ cur.req.op = "Rollback" /\ index' = tree[cur.req.target]
    BY <1>4, <1>12 DEF ReadTree, Move, TypeOK
  <2>2. SectionArea'
    BY <1>3, <1>6, <2>1 DEF SectionArea, Calm
  <2> QED BY <1>2, <2>2 DEF Exact
<1>13. CASE CheckoutIndex
  <2>1. cur.stage = "loaded" /\ cur'.stage = "written" /\ index' = index
        /\ wt' = [p \in Paths |-> IF index[p] # Absent THEN index[p] ELSE wt[p]]
    BY <1>4, <1>13 DEF CheckoutIndex, Move, TypeOK
  <2>2. cur.req.op = "Rollback"
    BY <1>4, <2>1 DEF SectionArea
  <2>3. SectionArea'
    BY <1>3, <1>6, <2>1, <2>2 DEF SectionArea, Calm
  <2> QED BY <1>2, <2>3 DEF Exact
<1>14. CASE Clean
  <2>1. cur.stage = "written" /\ cur'.stage = "staged" /\ index' = index
        /\ wt' = [p \in Paths |-> IF index[p] = Absent THEN Absent ELSE wt[p]]
    BY <1>4, <1>14 DEF Clean, Move, TypeOK
  <2>2. cur.req.op = "Rollback" /\ \A p \in Paths : index[p] # Absent => wt[p] = index[p]
    BY <1>4, <2>1 DEF SectionArea
  <2>3. SectionArea'
    BY <1>3, <1>6, <2>1, <2>2 DEF SectionArea, Calm
  <2> QED BY <1>2, <2>3 DEF Exact
<1> QED BY <1>8, <1>9, <1>10, <1>11, <1>12, <1>13, <1>14

(* The commit of a section changes nothing that its request did not name. *)
LEMMA CommitExact ==
    ASSUME IndInv, AskedInv, Exact, CommitStaged
    PROVE  Exact'
<1>1. TypeOK /\ AncestryOK /\ SectionArea /\ RecordsOK /\ NothingElseChanged
  BY DEF IndInv, AskedInv, Exact
<1>2. cur.stage = "staged" /\ cur'.stage = "committed" /\ UNCHANGED <<head, index, wt, indexLock>>
  BY <1>1 DEF CommitStaged, Move, TypeOK, area
<1>3. PICK m \in [parent : 0..n, on : Branches, req : Requests] :
              /\ NewCommit({refs[head]}, index, m) /\ m.parent = refs[head] /\ m.req = cur.req
              /\ refs[head] \in 1..n /\ index \in Trees
  BY CommitAdds
<1>4. {refs[head]} \in SUBSET (1..n) /\ m.parent \in 1..n
  BY <1>3
<1>5. /\ m.req.op \in {"WriteFile", "DeleteFile"} =>
           \A e \in Entries : e # m.req.path => index[e] = tree[m.parent][e]
      /\ m.req.op = "Commit" => \A p \in Paths : index[p] = tree[m.parent][p]
      /\ \A p \in Paths : wt[p] = index[p]
  BY <1>1, <1>2, <1>3 DEF SectionArea, HeadTree
<1>6. NothingElseChanged'
  BY <1>1, <1>3, <1>4, <1>5, ExactGrow
<1>7. tree'[n + 1] = index /\ refs'[head] = n + 1
  <2>1. refs' = [refs EXCEPT ![head] = n + 1] /\ head \in Branches /\ n \in Nat
    BY <1>1 DEF CommitStaged, TypeOK
  <2> QED BY <1>1, <1>3, <2>1 DEF NewCommit, TypeOK
<1>8. HeadTree' = index
  BY <1>2, <1>7 DEF HeadTree
<1>9. SectionArea'
  BY <1>2, <1>5, <1>8 DEF SectionArea, Calm
<1> QED BY <1>1, <1>2, <1>6, <1>9 DEF Exact

(* Ending a section, and what Publish, the webhook, branches and pushes do beside the
   index and the worktree, keeps the area of HEAD's branch. *)
LEMMA RefsExact ==
    ASSUME IndInv, Exact, faults' = faults,
           \/ Acknowledge \/ GiveUp \/ FinishPublish \/ FinishFetch \/ FetchCreate \/ FetchForward \/ BranchStep
           \/ \E q \in Requests : ImportWithoutBranch(q) \/ PublishNoOp(q) \/ PublishForward(q)
    PROVE  Exact'
<1>1. TypeOK /\ HeadIsWorkingBranch /\ SectionArea /\ NothingElseChanged /\ ~indexLock
  BY DEF IndInv, Exact
<1>2. head # Published /\ head \in Branches /\ refs[head] # NoCommit
  BY <1>1 DEF HeadIsWorkingBranch, Working
<1>3. UNCHANGED <<repo, head, index, wt, indexLock>>
  BY DEF Acknowledge, GiveUp, FinishPublish, FinishFetch, FetchCreate, FetchForward, BranchStep, CreateBranch,
         DeleteBranch, ImportWithoutBranch, PublishNoOp, PublishForward, area
<1>4. refs'[head] = refs[head]
  <2>1. CASE Acknowledge \/ GiveUp \/ FinishPublish \/ FinishFetch \/ \E q \in Requests : ImportWithoutBranch(q) \/ PublishNoOp(q)
    BY <2>1 DEF Acknowledge, GiveUp, FinishPublish, FinishFetch, ImportWithoutBranch, PublishNoOp
  <2>2. CASE FetchCreate \/ FetchForward \/ \E q \in Requests : PublishForward(q)
    BY <1>1, <1>2, <2>2 DEF FetchCreate, FetchForward, PublishForward, TypeOK
  <2>3. CASE BranchStep
    BY <1>1, <1>2, <2>3 DEF BranchStep, CreateBranch, DeleteBranch, TypeOK
  <2> QED BY <2>1, <2>2, <2>3
<1>5. HeadTree' = HeadTree
  BY <1>1, <1>3, <1>4, HeadTreeKept DEF repo
<1>6. NothingElseChanged'
  BY <1>1, <1>3, ExactKept
<1>7. SectionArea'
  <2>1. CASE cur.stage \in Calm /\ cur'.stage \in Calm
    BY <1>1, <1>3, <1>5, <2>1, CalmStep
  <2>2. CASE GiveUp /\ cur.stage = "staged"
    <3>1. cur'.stage = "free" /\ index = HeadTree /\ \A p \in Paths : wt[p] = index[p]
      BY <1>1, <2>2 DEF GiveUp, Refused, SectionArea, Free
    <3> QED BY <1>3, <1>5, <3>1 DEF SectionArea, Calm
  <2>3. (GiveUp /\ cur.stage = "staged") \/ (cur.stage \in Calm /\ cur'.stage \in Calm)
    <3>1. CASE GiveUp
      BY <1>1, <3>1 DEF GiveUp, Refused, Free, Calm
    <3>2. CASE Acknowledge \/ FinishPublish \/ FinishFetch
      BY <3>2 DEF Acknowledge, FinishPublish, FinishFetch, Free, Calm
    <3>3. CASE FetchCreate \/ FetchForward \/ BranchStep
      BY <3>3 DEF FetchCreate, FetchForward, BranchStep, CreateBranch, DeleteBranch, Moved, Free, Calm
    <3>4. CASE \E q \in Requests : ImportWithoutBranch(q) \/ PublishNoOp(q) \/ PublishForward(q)
      BY <3>4 DEF ImportWithoutBranch, PublishNoOp, PublishForward, PublishGuard, Enter, Moved, Free, Calm
    <3> QED BY <3>1, <3>2, <3>3, <3>4
  <2> QED BY <2>1, <2>2, <2>3
<1> QED BY <1>1, <1>3, <1>6, <1>7 DEF Exact

(* A merge into published adds a commit of its own kind and leaves HEAD's branch alone. *)
LEMMA MergeExact ==
    ASSUME IndInv, AskedInv, Exact, NEW q \in Requests, PublishMerge(q)
    PROVE  Exact'
<1>1. TypeOK /\ AncestryOK /\ HeadIsWorkingBranch /\ SectionArea /\ RecordsOK /\ NothingElseChanged /\ ~indexLock
  BY DEF IndInv, AskedInv, Exact
<1>2. cur.stage = "free" /\ cur'.stage = "moved" /\ UNCHANGED <<head, index, wt, indexLock>>
  BY DEF PublishMerge, PublishGuard, Moved, Free, area
<1>3. Published \in Branches /\ head # Published /\ head \in Branches
  BY <1>1 DEF HeadIsWorkingBranch, Working, Branches
<1>4. CASE UNCHANGED <<repo, refs>>
  <2>1. HeadTree' = HeadTree
    BY <1>2, <1>4 DEF HeadTree, repo
  <2>2. SectionArea'
    BY <1>1, <1>2, <2>1, CalmStep DEF Calm
  <2> QED BY <1>1, <1>2, <1>4, <2>2, ExactKept DEF Exact
<1>5. CASE ~UNCHANGED <<repo, refs>>
  <2>1. PICK m \in [parent : 0..n, on : Branches, req : Requests], t \in Trees :
              /\ NewCommit(MergeParents(q), t, m) /\ m.req.op = "Publish"
              /\ MergeParents(q) \in SUBSET (1..n)
              /\ refs' = [refs EXCEPT ![Published] = n + 1]
    BY <1>5, MergeAdds
  <2>2. m.req.op \notin WriteOps
    BY <2>1 DEF WriteOps
  <2>3. NothingElseChanged'
    BY <1>1, <2>1, <2>2, ExactGrow
  <2>4. \A c \in 1..n : tree'[c] = tree[c]
    BY <1>1, <2>1, NewCommitOK
  <2>5. refs'[head] = refs[head]
    BY <1>1, <1>3, <2>1 DEF TypeOK
  <2>6. HeadTree' = HeadTree
    BY <1>1, <1>2, <2>4, <2>5, HeadTreeKept
  <2>7. SectionArea'
    BY <1>1, <1>2, <2>6, CalmStep DEF Calm
  <2> QED BY <1>1, <1>2, <2>3, <2>7 DEF Exact
<1> QED BY <1>4, <1>5

(* Requests for served trees, a deletion and pushes at GitHub meet a section anywhere. *)
LEMMA OutsideExact ==
    ASSUME IndInv, AskedInv, Exact,
           \/ \E b \in Branches : RefreshServed(b) \/ ServedTree(b)
           \/ DeleteSite \/ \E from \in 1..n : GitHubPush(from)
    PROVE  Exact'
<1>1. TypeOK /\ AncestryOK /\ HeadIsWorkingBranch /\ SectionArea /\ RecordsOK /\ NothingElseChanged /\ ~indexLock
  BY DEF IndInv, AskedInv, Exact
<1>2. UNCHANGED <<refs, head, index, wt, cur, indexLock>>
  BY DEF RefreshServed, ServedTree, DeleteSite, GitHubPush, area
<1>3. NothingElseChanged' /\ \A c \in 1..n : tree'[c] = tree[c]
  <2>1. CASE UNCHANGED repo
    BY <1>1, <2>1, ExactKept DEF repo
  <2>2. CASE ~UNCHANGED repo
    <3>1. PICK from \in 1..n : GitHubPush(from)
      BY <2>2 DEF RefreshServed, ServedTree, DeleteSite
    <3>2. PICK m \in [parent : 0..n, on : Branches, req : Requests], t \in Trees :
              NewCommit({from}, t, m) /\ m.req.op = "External"
      BY <2>2, <3>1, PushAdds
    <3>3. m.req.op \notin WriteOps /\ {from} \in SUBSET (1..n)
      BY <3>2 DEF WriteOps
    <3>4. NothingElseChanged'
      BY <1>1, <3>2, <3>3, ExactGrow
    <3>5. \A d \in 1..n : tree'[d] = tree[d]
      BY <1>1, <3>2, <3>3, NewCommitOK
    <3> QED BY <3>4, <3>5
  <2> QED BY <2>1, <2>2
<1>4. HeadTree' = HeadTree
  BY <1>1, <1>2, <1>3, HeadTreeKept
<1>5. SectionArea'
  BY <1>1, <1>2, <1>4, OutsideStep
<1> QED BY <1>1, <1>2, <1>3, <1>5 DEF Exact

(* Every step that is no fault keeps an exact repository exact. *)
LEMMA ExactStep ==
    ASSUME IndInv, AskedInv, ExactInv, [Next]_vars
    PROVE  ExactInv'
<1> SUFFICES ASSUME faults' = 0 PROVE Exact'
  BY DEF ExactInv
<1>0. faults \in Nat
  BY DEF IndInv, TypeOK
<1>1. CASE UNCHANGED vars
  <2>1. UNCHANGED <<repo, refs, head, index, wt, cur, indexLock, faults>>
    BY <1>1 DEF vars, area
  <2>2. Exact
    BY <2>1 DEF ExactInv
  <2>3. HeadTree' = HeadTree
    BY <2>1 DEF HeadTree, repo
  <2>4. SectionArea'
    BY <2>1, <2>2, <2>3, OutsideStep DEF Exact
  <2> QED BY <2>1, <2>2, <2>4, ExactKept DEF Exact
<1>2. ASSUME NEW q \in Requests, ClientStep(q) PROVE Exact'
  <2>1. ~CheckoutKilled(q)
    BY <1>0 DEF CheckoutKilled
  <2>2. faults' = faults
    BY <1>2, <2>1 DEF ClientStep, CheckoutForWrite, ImportWithoutBranch, PublishNoOp, PublishForward, PublishMerge
  <2>3. Exact
    BY <2>2 DEF ExactInv
  <2> QED BY <1>2, <2>1, <2>2, <2>3, CheckoutExact, RefsExact, MergeExact DEF ClientStep
<1>3. ASSUME NEW op \in WriteOps \cup {"Publish"}, NEW b \in Branches, NEW base \in 0..n,
             NEW p \in Paths, NEW c \in Contents, NEW t \in 0..n
      PROVE  Request(op, b, base, p, c, t) \in Requests
  BY DEF IndInv, TypeOK, Request, Requests
<1>4. CASE SectionStep
  <2>1. faults' = faults
    BY <1>4 DEF SectionStep, EditWorktree, AddPath, AddAll, RemovePath, ReadTree, CheckoutIndex, Clean,
           CommitStaged, Acknowledge, GiveUp, FinishPublish, FinishFetch
  <2>2. Exact
    BY <2>1 DEF ExactInv
  <2> QED BY <1>4, <2>1, <2>2, AreaExact, CommitExact, RefsExact DEF SectionStep
<1>5. ~Fault
  BY <1>0 DEF Fault
<1>6. CASE (\E b \in Branches : RefreshServed(b)) \/ (\E b \in Branches : ServedTree(b)) \/ DeleteSite
  <2>1. Exact
    BY <1>6 DEF RefreshServed, ServedTree, DeleteSite, ExactInv
  <2> QED BY <1>6, <2>1, OutsideExact
<1>7. CASE BranchStep
  <2>1. faults' = faults
    BY <1>7 DEF BranchStep, CreateBranch, DeleteBranch
  <2> QED BY <1>7, <2>1, RefsExact DEF ExactInv
<1>8. CASE GitHubStep
  <2>1. faults' = faults
    BY <1>8 DEF GitHubStep, FetchCreate, FetchForward, GitHubPush
  <2> QED BY <1>8, <2>1, RefsExact, OutsideExact DEF ExactInv, GitHubStep
<1>9. CASE \E op \in Ops \cap (WriteOps \cup {"Publish"}), b \in Branches, base \in 0..n,
             p \in Paths, c \in Contents, t \in 0..n :
             /\ Canonical(Request(op, b, base, p, c, t))
             /\ ClientStep(Request(op, b, base, p, c, t))
  <2>1. PICK op \in Ops \cap (WriteOps \cup {"Publish"}), b \in Branches, base \in 0..n,
             p \in Paths, c \in Contents, t \in 0..n :
             ClientStep(Request(op, b, base, p, c, t))
    BY <1>9
  <2>2. Request(op, b, base, p, c, t) \in Requests
    BY <1>3
  <2> QED BY <1>2, <2>1, <2>2
<1> QED BY <1>1, <1>4, <1>5, <1>6, <1>7, <1>8, <1>9 DEF Next

(* Every commit holds what its request asked for, whatever calls failed before it; until
   the first failed command it holds nothing else and the repository is clean between
   requests, however branches, imports, publishes and pushes take turns on one index and
   worktree. *)
THEOREM CommitsAreAsRequested == Spec => []CommitsKeepToRequests
<1>1. IndInv /\ AskedInv /\ [Next]_vars => AskedInv'
  BY AskedStep
<1>2. IndInv /\ AskedInv /\ ExactInv /\ [Next]_vars => ExactInv'
  BY ExactStep
<1>3. AskedInv /\ ExactInv => CommitsKeepToRequests
  <2>1. cur = Free => cur.stage \in Calm
    BY DEF Free, Calm
  <2> QED BY <2>1 DEF AskedInv, ExactInv, Exact, SectionArea, CommitsKeepToRequests, CleanBetweenRequests
<1> QED BY IndInvHolds, ExactInit, <1>1, <1>2, <1>3, PTL DEF Spec
=============================================================================
