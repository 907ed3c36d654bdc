--------------------------- MODULE PreviewAccess ----------------------------
(***************************************************************************)
(* Private previews.  The control plane checks a person's role and then    *)
(* signs a grant; the preview host exchanges it for a cookie signed the    *)
(* same way, and lets the cookie in.  Grants travel in URLs, so anybody    *)
(* may come to hold one.  Nothing is stored: the grant the code calls      *)
(* one-time stays good until it expires, and a cookie presented as a grant *)
(* is exchanged for a new one, any number of times.  Meanwhile people lose *)
(* and gain roles and a host name may pass from one site to another.       *)
(***************************************************************************)
EXTENDS Integers

CONSTANTS
    Viewers,                   \* people
    PreviewSites, PreviewBranches,
    GrantTTL, CookieTTL,       \* previewGrantTTL, GrantAuthzConfig.CookieTTL
    MaxGrantTime               \* bound on the clock

ASSUME PreviewAssumption == GrantTTL \in Nat /\ CookieTTL \in Nat /\ MaxGrantTime \in Nat

VARIABLES
    gtime,
    hostSite,   \* the site the host name leads to
    mayView,    \* mayView[s]: people with a role on s
    lastRole,   \* lastRole[s][u]: when u last had one, -1 for never
    asking,     \* a request for a grant past its check: [by, site, branch, at]
    signed,     \* the signed value followed (no two interact), whoever holds it:
                \* [site, branch, exp, kind, made, root], made when it was signed,
                \* root the request its chain of exchanges began with
    view        \* the preview shown by the last step: [shown, site, branch, by]

previewVars == <<gtime, hostSite, mayView, lastRole, asking, signed, view>>

NoView == [shown |-> FALSE]
NoValue == [exp |-> 0]
NoAsk == [at |-> -1]

PreviewInit ==
    /\ gtime = 0
    /\ hostSite \in PreviewSites
    /\ mayView \in [PreviewSites -> SUBSET Viewers]
    /\ lastRole = [s \in PreviewSites |-> [u \in Viewers |-> IF u \in mayView[s] THEN 0 ELSE -1]]
    /\ asking = NoAsk /\ signed = NoValue /\ view = NoView

GrantTick ==
    /\ gtime < MaxGrantTime
    /\ gtime' = gtime + 1 /\ view' = NoView
    /\ lastRole' = [s \in PreviewSites |-> [u \in Viewers |->
                        IF u \in mayView[s] THEN gtime + 1 ELSE lastRole[s][u]]]
    /\ UNCHANGED <<hostSite, mayView, asking, signed>>

(* RemoveMember *)
LoseRole(u, s) ==
    /\ u \in mayView[s]
    /\ mayView' = [mayView EXCEPT ![s] = @ \ {u}] /\ view' = NoView
    /\ UNCHANGED <<gtime, hostSite, lastRole, asking, signed>>

(* AddMember *)
GainRole(u, s) ==
    /\ u \notin mayView[s]
    /\ mayView' = [mayView EXCEPT ![s] = @ \cup {u}] /\ view' = NoView
    /\ lastRole' = [lastRole EXCEPT ![s][u] = gtime]
    /\ UNCHANGED <<gtime, hostSite, asking, signed>>

(* The site is deleted or renamed, and the name goes to another one. *)
NamePasses(s) ==
    /\ hostSite' = s /\ s # hostSite /\ view' = NoView
    /\ UNCHANGED <<gtime, mayView, lastRole, asking, signed>>

(* previewGrant: viewers and above, on an existing branch; the grant is signed when
   the tree was found, whatever happened to the role since. *)
AnybodySignedIn(u, s) == TRUE                    \* mutant: no role asked for
MayPreview(u, s) == u \in mayView[s]

RequestGrant(u, s, b) ==
    /\ asking = NoAsk /\ MayPreview(u, s)
    /\ asking' = [by |-> u, site |-> s, branch |-> b, at |-> gtime] /\ view' = NoView
    /\ UNCHANGED <<gtime, hostSite, mayView, lastRole, signed>>

PreviewGrant ==
    /\ asking # NoAsk
    /\ signed' = [site |-> asking.site, branch |-> asking.branch, exp |-> gtime + GrantTTL,
                  kind |-> "grant", made |-> gtime, root |-> asking]
    /\ asking' = NoAsk /\ view' = NoView
    /\ UNCHANGED <<gtime, hostSite, mayView, lastRole>>

(* No such branch, or previews are disabled. *)
GrantFails ==
    /\ asking # NoAsk
    /\ asking' = NoAsk /\ view' = NoView
    /\ UNCHANGED <<gtime, hostSite, mayView, lastRole, signed>>

-----------------------------------------------------------------------------
(* verifyGrant: only what was signed, and not expired. *)
VerifyGrant(g) == gtime < g.exp

Matches(g, s, b) == g.site = s /\ g.branch = b

(* Authorize with ?kpt: sign a cookie for this site and branch, redirect. *)
ExchangeGrant(g, b) ==
    /\ g # NoValue /\ VerifyGrant(g) /\ Matches(g, hostSite, b)
    /\ signed' = [site |-> hostSite, branch |-> b, exp |-> gtime + CookieTTL,
                  kind |-> "cookie", made |-> gtime, root |-> g.root]
    /\ view' = NoView
    /\ UNCHANGED <<gtime, hostSite, mayView, lastRole, asking>>

(* Authorize with the cookie: any signed value passes.  No bearer validator is wired. *)
ViewPreview(g, b) ==
    /\ g # NoValue /\ VerifyGrant(g) /\ Matches(g, hostSite, b)
    /\ view' = [shown |-> TRUE, site |-> hostSite, branch |-> b, by |-> g]
    /\ UNCHANGED <<gtime, hostSite, mayView, lastRole, asking, signed>>

PreviewNext ==
    \/ GrantTick \/ PreviewGrant \/ GrantFails
    \/ \E s \in PreviewSites : NamePasses(s)
    \/ \E u \in Viewers, s \in PreviewSites :
          \/ LoseRole(u, s) \/ GainRole(u, s)
          \/ \E b \in PreviewBranches : RequestGrant(u, s, b)
    \/ \E b \in PreviewBranches : ExchangeGrant(signed, b) \/ ViewPreview(signed, b)

PreviewSpec == PreviewInit /\ [][PreviewNext]_previewVars

-----------------------------------------------------------------------------
(* Whoever sees a preview holds, through any number of exchanges, a grant that was
   asked for that very site and branch, by a person who had a role on that site when
   asking: roles may have changed and the host name have belonged to another site
   since. *)
ViewIsGranted ==
    view.shown =>
        LET root == view.by.root
        IN  /\ root.site = view.site /\ root.branch = view.branch
            /\ root.at <= lastRole[root.site][root.by]

(* Access lapses unless it is renewed: the grant or the last exchange is less than its
   lifetime ago.  Nothing bounds the exchanges, so who keeps renewing keeps access,
   whether or not the role is still there. *)
AccessLapses ==
    view.shown => gtime < view.by.made + (IF view.by.kind = "grant" THEN GrantTTL ELSE CookieTTL)

(* Previews stay private: access goes back to a member's grant for what is shown, and
   lapses when it is not renewed. *)
PreviewsStayPrivate == ViewIsGranted /\ AccessLapses
=============================================================================
