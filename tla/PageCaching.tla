---------------------------- MODULE PageCaching -----------------------------
(***************************************************************************)
(* Visitors' copies of one page of a published site.  The data plane reads *)
(* the cache version with the site row, then the served tree's commit,     *)
(* then the bytes, labels the answer with an ETag of all three and answers *)
(* 304 when the visitor's copy matches; publishes and cache purges happen  *)
(* in between.  A copy is revalidated on every use (no-cache, the default).*)
(* That the bytes are never older than the label is ServedExport's theorem.*)
(***************************************************************************)
EXTENDS Integers, Sequences

CONSTANTS
    TagVisitors,   \* revalidate with If-None-Match
    DateVisitors,  \* revalidate with If-Modified-Since only
    CommitSeconds,  \* dates of commits; one fetched from GitHub carries any
    PageSizes, MaxPublishes, MaxPurges

PageVisitors == TagVisitors \cup DateVisitors

ASSUME PageAssumption ==
    /\ TagVisitors \cap DateVisitors = {} /\ CommitSeconds \subseteq Nat
    /\ MaxPublishes \in Nat /\ MaxPurges \in Nat

VARIABLES
    pages,    \* pages[n]: [second, size] of the n-th published commit
    version,  \* sites.cache_version
    req,      \* req[v]: [at, version, label, since], since = what was published and
              \* the version when the request began
    copy      \* copy[v]: [commit, etag, date, version], commit = 0 for none

pageVars == <<pages, version, req, copy>>

(* The tip of the published branch. *)
Published == Len(pages)
NoReq == [at |-> "idle", version |-> 0, label |-> 0, since |-> <<0, 0>>]
NoCopy == [commit |-> 0, etag |-> << >>, date |-> 0, version |-> 0]

PageInit ==
    /\ \E t \in CommitSeconds, z \in PageSizes : pages = <<[second |-> t, size |-> z]>>
    /\ version = 0
    /\ req = [v \in PageVisitors |-> NoReq]
    /\ copy = [v \in PageVisitors |-> NoCopy]

(* Last-Modified is the commit's date to the second: commits may share it, and a
   later commit may bear an earlier date. *)
PublishPage ==
    /\ Published <= MaxPublishes
    /\ \E t \in CommitSeconds, z \in PageSizes : pages' = Append(pages, [second |-> t, size |-> z])
    /\ UNCHANGED <<version, req, copy>>

(* purgeSiteCache, BumpCacheVersion *)
PurgeSiteCache ==
    /\ version < MaxPurges
    /\ version' = version + 1
    /\ UNCHANGED <<pages, req, copy>>

(* GetSiteByHandle *)
LookUpSite(v) ==
    /\ req[v].at = "idle"
    /\ req' = [req EXCEPT ![v] = [at |-> "tree", version |-> version, label |-> 0,
                                  since |-> <<Published, version>>]]
    /\ UNCHANGED <<pages, version, copy>>

(* ServedTree *)
LabelTree(v) ==
    /\ req[v].at = "tree"
    /\ req' = [req EXCEPT ![v].at = "write", ![v].label = Published]
    /\ UNCHANGED <<pages, version, copy>>

TagWithoutCommit(label, ver, size)  == <<ver, size>>         \* mutant
MakeETag(label, ver, size)          == <<label, ver, size>>

(* http.ServeContent's date comparison; matchETag. *)
NotModified(v, etag, date) ==
    copy[v].commit # 0 /\ IF v \in TagVisitors THEN copy[v].etag = etag ELSE date <= copy[v].date

(* writeContent: the bytes are of the labelled commit or of one published since. *)
WriteContent(v) ==
    LET label == req[v].label
        date == pages[label].second
    IN
    /\ req[v].at = "write"
    /\ \E body \in label..Published :
          LET etag == MakeETag(label, req[v].version, pages[body].size)
          IN  copy' = IF NotModified(v, etag, date) THEN copy
                      ELSE [copy EXCEPT ![v] = [commit |-> body, etag |-> etag, date |-> date,
                                                version |-> req[v].version]]
    /\ req' = [req EXCEPT ![v].at = "done"]
    /\ UNCHANGED <<pages, version>>

Idle(v) ==
    /\ req[v].at = "done"
    /\ req' = [req EXCEPT ![v] = NoReq]
    /\ UNCHANGED <<pages, version, copy>>

PageNext ==
    \/ PublishPage \/ PurgeSiteCache
    \/ \E v \in PageVisitors : LookUpSite(v) \/ LabelTree(v) \/ WriteContent(v) \/ Idle(v)

PageSpec == PageInit /\ [][PageNext]_pageVars

-----------------------------------------------------------------------------
(* What a visitor shows after an answer was the published page at some moment since
   the request began, whatever was published while earlier answers were under way.
   One that compares dates alone may keep an older page, but only where a page
   published since is dated no later than it. *)
ShownPageIsCurrent ==
    \A v \in PageVisitors : req[v].at = "done" =>
        LET since == req[v].since[1]
        IN  \/ copy[v].commit >= since
            \/ v \in DateVisitors /\ \E n \in since..Published : pages[n].second <= copy[v].date

(* A purge that was complete before the request began has made a visitor that sends
   tags fetch the page again, whether or not anything was published.  One that sends
   If-Modified-Since alone is answered 304: the date knows nothing of purges. *)
PurgeRefetches ==
    \A v \in TagVisitors : req[v].at = "done" => copy[v].version >= req[v].since[2]

(* With a tag a 304 never keeps alive what was replaced or purged before the request,
   with a date only what is dated no earlier than its successor. *)
RevalidationSound == ShownPageIsCurrent /\ PurgeRefetches
=============================================================================
