-------------------------- MODULE DataPlaneProofs --------------------------
(***************************************************************************)
(* What holds of the data plane for every number of requests, viewers and  *)
(* handshakes and for every lifetime, limit and rate.                      *)
(***************************************************************************)
EXTENDS PreviewAccess, TlsGate, PageCaching, RateLimits, HostResolve, ZipImport, NatFacts, FiniteSetTheorems, TLAPS

-----------------------------------------------------------------------------
(* Private previews (PreviewAccess) *)

Asks == [by : Viewers, site : PreviewSites, branch : PreviewBranches, at : Nat]

SignedValues ==
    [site : PreviewSites, branch : PreviewBranches, exp : Nat, kind : {"grant", "cookie"}, made : Nat, root : Asks]

(* Who has a role has it now, and nobody had one later than now. *)
RolesFit ==
    /\ mayView \in [PreviewSites -> SUBSET Viewers]
    /\ lastRole \in [PreviewSites -> [Viewers -> Int]]
    /\ \A s \in PreviewSites, u \in Viewers :
          lastRole[s][u] <= gtime /\ (u \in mayView[s] => lastRole[s][u] = gtime)

(* Who asked had a role then. *)
AskFits(k, last) == k \in Asks /\ k.at <= last[k.site][k.by]

(* A signed value names what its request named, and expires its lifetime after it was
   made. *)
SignedFits(g, last) ==
    /\ g \in SignedValues /\ AskFits(g.root, last)
    /\ g.site = g.root.site /\ g.branch = g.root.branch
    /\ g.exp <= g.made + (IF g.kind = "grant" THEN GrantTTL ELSE CookieTTL)

PreviewInv ==
    /\ gtime \in Nat /\ hostSite \in PreviewSites /\ RolesFit
    /\ asking = NoAsk \/ AskFits(asking, lastRole)
    /\ signed = NoValue \/ SignedFits(signed, lastRole)
    /\ PreviewsStayPrivate

(* As roles are only ever held later, what was asked by a member stays so. *)
LEMMA LaterRolesFit ==
    ASSUME NEW last \in [PreviewSites -> [Viewers -> Int]], NEW later \in [PreviewSites -> [Viewers -> Int]],
           \A s \in PreviewSites, u \in Viewers : last[s][u] <= later[s][u]
    PROVE  /\ \A k : AskFits(k, last) => AskFits(k, later)
           /\ \A g : SignedFits(g, last) => SignedFits(g, later)
<1>1. ASSUME NEW k, AskFits(k, last) PROVE AskFits(k, later)
  <2>1. PICK s \in PreviewSites, u \in Viewers, t \in Nat : s = k.site /\ u = k.by /\ t = k.at /\ t <= last[s][u]
    BY <1>1 DEF AskFits, Asks
  <2>2. PICK x \in Int, y \in Int : x = last[s][u] /\ y = later[s][u] /\ x <= y
    OBVIOUS
  <2>3. t <= y
    BY <2>1, <2>2
  <2> QED BY <1>1, <2>1, <2>2, <2>3 DEF AskFits
<1> QED BY <1>1 DEF SignedFits

(* A preview is shown only through a chain of exchanges from a grant its site's member
   asked for that site and branch, each within the life of the one before, through any
   changes of roles and names (previewGrant, Authorize). *)
THEOREM PreviewsArePrivate == PreviewSpec => []PreviewsStayPrivate
<1>1. PreviewInit => PreviewInv
  <2> SUFFICES ASSUME PreviewInit PROVE PreviewInv
    OBVIOUS
  <2>1. PreviewsStayPrivate
    BY DEF PreviewInit, PreviewsStayPrivate, ViewIsGranted, AccessLapses, NoView
  <2>2. RolesFit
    BY DEF PreviewInit, RolesFit
  <2> QED BY <2>1, <2>2 DEF PreviewInit, PreviewInv
<1>2. ASSUME PreviewInv, [PreviewNext]_previewVars PROVE PreviewInv'
  <2>0. /\ gtime \in Nat /\ hostSite \in PreviewSites /\ GrantTTL \in Nat /\ CookieTTL \in Nat /\ RolesFit
        /\ (asking = NoAsk \/ AskFits(asking, lastRole)) /\ (signed = NoValue \/ SignedFits(signed, lastRole))
    BY <1>2, PreviewAssumption DEF PreviewInv
  <2>1. ASSUME view' = NoView PROVE PreviewsStayPrivate'
    BY <2>1 DEF PreviewsStayPrivate, ViewIsGranted, AccessLapses, NoView
  <2>2. ASSUME UNCHANGED <<gtime, mayView, lastRole>> PROVE RolesFit'
    BY <2>0, <2>2 DEF RolesFit
  <2>3. CASE GrantTick
    <3>1. PICK now \in Nat : now = gtime + 1 /\ gtime <= now /\ gtime' = now
      BY <2>0, <2>3 DEF GrantTick
    <3>2. /\ lastRole' = [s \in PreviewSites |-> [u \in Viewers |-> IF u \in mayView[s] THEN now ELSE lastRole[s][u]]]
          /\ view' = NoView /\ UNCHANGED <<hostSite, mayView, asking, signed>>
      BY <2>3, <3>1 DEF GrantTick
    <3>3. lastRole' \in [PreviewSites -> [Viewers -> Int]]
      BY <2>0, <3>2 DEF RolesFit
    <3>4. ASSUME NEW s \in PreviewSites, NEW u \in Viewers
          PROVE  /\ lastRole[s][u] <= lastRole'[s][u] /\ lastRole'[s][u] <= now
                 /\ u \in mayView[s] => lastRole'[s][u] = now
      <4>1. PICK x \in Int : x = lastRole[s][u] /\ x <= gtime
        BY <2>0 DEF RolesFit
      <4>2. lastRole'[s][u] = IF u \in mayView[s] THEN now ELSE x
        BY <3>2, <4>1
      <4>3. x <= now
        BY <2>0, <3>1, <4>1
      <4> QED BY <4>1, <4>2, <4>3
    <3>5. RolesFit'
      BY <2>0, <3>1, <3>2, <3>3, <3>4 DEF RolesFit
    <3>6. PICK later \in [PreviewSites -> [Viewers -> Int]] : later = lastRole'
      BY <3>3
    <3>7. /\ asking = NoAsk \/ AskFits(asking, later)
          /\ signed = NoValue \/ SignedFits(signed, later)
      BY <2>0, <3>4, <3>6, LaterRolesFit DEF RolesFit
    <3> QED BY <2>0, <2>1, <3>1, <3>2, <3>5, <3>6, <3>7 DEF PreviewInv
  <2>4. ASSUME NEW s \in PreviewSites, NamePasses(s) PROVE PreviewInv'
    BY <2>0, <2>1, <2>2, <2>4 DEF NamePasses, PreviewInv
  <2>5. ASSUME NEW u \in Viewers, NEW s \in PreviewSites, LoseRole(u, s) PROVE PreviewInv'
    <3>1. RolesFit'
      BY <2>0, <2>5 DEF LoseRole, RolesFit
    <3> QED BY <2>0, <2>1, <2>5, <3>1 DEF LoseRole, PreviewInv
  <2>6. ASSUME NEW u \in Viewers, NEW s \in PreviewSites, GainRole(u, s) PROVE PreviewInv'
    <3>1. /\ mayView' = [mayView EXCEPT ![s] = @ \cup {u}] /\ lastRole' = [lastRole EXCEPT ![s][u] = gtime]
          /\ view' = NoView /\ UNCHANGED <<gtime, hostSite, asking, signed>>
      BY <2>6 DEF GainRole
    <3>2. lastRole' \in [PreviewSites -> [Viewers -> Int]] /\ mayView' \in [PreviewSites -> SUBSET Viewers]
      BY <2>0, <3>1 DEF RolesFit
    <3>3. ASSUME NEW q \in PreviewSites, NEW w \in Viewers
          PROVE  /\ lastRole[q][w] <= lastRole'[q][w] /\ lastRole'[q][w] <= gtime
                 /\ w \in mayView'[q] => lastRole'[q][w] = gtime
      <4>1. PICK x \in Int : x = lastRole[q][w] /\ x <= gtime /\ (w \in mayView[q] => x = gtime)
        BY <2>0 DEF RolesFit
      <4>2. CASE q = s /\ w = u
        <5>1. lastRole'[q][w] = gtime
          BY <2>0, <3>1, <4>2 DEF RolesFit
        <5> QED BY <2>0, <4>1, <5>1
      <4>3. CASE ~(q = s /\ w = u)
        <5>1. lastRole'[q][w] = x /\ (w \in mayView'[q] => w \in mayView[q])
          BY <2>0, <3>1, <4>1, <4>3 DEF RolesFit
        <5> QED BY <2>0, <4>1, <5>1
      <4> QED BY <4>2, <4>3
    <3>4. RolesFit'
      BY <3>1, <3>2, <3>3 DEF RolesFit
    <3>5. PICK later \in [PreviewSites -> [Viewers -> Int]] : later = lastRole'
      BY <3>2
    <3>6. /\ asking = NoAsk \/ AskFits(asking, later)
          /\ signed = NoValue \/ SignedFits(signed, later)
      BY <2>0, <3>3, <3>5, LaterRolesFit DEF RolesFit
    <3> QED BY <2>0, <2>1, <3>1, <3>4, <3>5, <3>6 DEF PreviewInv
  <2>7. ASSUME NEW u \in Viewers, NEW s \in PreviewSites, NEW b \in PreviewBranches, RequestGrant(u, s, b)
        PROVE  PreviewInv'
    <3>1. PICK k : k = [by |-> u, site |-> s, branch |-> b, at |-> gtime]
      OBVIOUS
    <3>2. asking' = k /\ view' = NoView /\ u \in mayView[s] /\ UNCHANGED <<gtime, hostSite, mayView, lastRole, signed>>
      BY <2>7, <3>1 DEF RequestGrant, MayPreview
    <3>3. AskFits(k, lastRole)
      BY <2>0, <3>1, <3>2 DEF AskFits, Asks, RolesFit
    <3> QED BY <2>0, <2>1, <2>2, <3>2, <3>3 DEF PreviewInv
  <2>8. CASE PreviewGrant
    <3>1. PICK k \in Asks : k = asking /\ AskFits(k, lastRole)
      BY <2>0, <2>8 DEF PreviewGrant, AskFits
    <3>2. PICK e \in Nat : e = gtime + GrantTTL
      BY <2>0
    <3>3. PICK g : g = [site |-> k.site, branch |-> k.branch, exp |-> e, kind |-> "grant", made |-> gtime, root |-> k]
      OBVIOUS
    <3>4. signed' = g /\ asking' = NoAsk /\ view' = NoView /\ UNCHANGED <<gtime, hostSite, mayView, lastRole>>
      BY <2>8, <3>1, <3>2, <3>3 DEF PreviewGrant
    <3>5. g \in SignedValues
      <4>1. k.site \in PreviewSites /\ k.branch \in PreviewBranches
        BY <3>1 DEF Asks
      <4> QED BY ONLY <2>0, <3>1, <3>2, <3>3, <4>1 DEF SignedValues
    <3>6. SignedFits(g, lastRole)
      BY <2>0, <3>1, <3>2, <3>3, <3>5 DEF SignedFits
    <3> QED BY <2>0, <2>1, <2>2, <3>4, <3>6 DEF PreviewInv
  <2>9. CASE GrantFails
    BY <2>0, <2>1, <2>2, <2>9 DEF GrantFails, PreviewInv
  <2>10. ASSUME NEW b \in PreviewBranches, ExchangeGrant(signed, b) PROVE PreviewInv'
    <3>1. PICK k \in Asks : k = signed.root /\ AskFits(k, lastRole) /\ k.site = hostSite /\ k.branch = b
      BY <2>0, <2>10 DEF ExchangeGrant, Matches, SignedFits, SignedValues
    <3>2. PICK e \in Nat : e = gtime + CookieTTL
      BY <2>0
    <3>3. PICK g : g = [site |-> hostSite, branch |-> b, exp |-> e, kind |-> "cookie", made |-> gtime, root |-> k]
      OBVIOUS
    <3>4. signed' = g /\ view' = NoView /\ UNCHANGED <<gtime, hostSite, mayView, lastRole, asking>>
      BY <2>10, <3>1, <3>2, <3>3 DEF ExchangeGrant
    <3>5. g \in SignedValues
      BY ONLY <2>0, <2>10, <3>1, <3>2, <3>3 DEF SignedValues
    <3>6. SignedFits(g, lastRole)
      BY <2>0, <3>1, <3>2, <3>3, <3>5 DEF SignedFits
    <3> QED BY <2>0, <2>1, <2>2, <3>4, <3>6 DEF PreviewInv
  <2>11. ASSUME NEW b \in PreviewBranches, ViewPreview(signed, b) PROVE PreviewInv'
    <3>1. /\ SignedFits(signed, lastRole) /\ gtime < signed.exp /\ signed.site = hostSite /\ signed.branch = b
          /\ view' = [shown |-> TRUE, site |-> hostSite, branch |-> b, by |-> signed]
          /\ UNCHANGED <<gtime, hostSite, mayView, lastRole, asking, signed>>
      BY <2>0, <2>11 DEF ViewPreview, VerifyGrant, Matches
    <3>2. /\ signed.root.site = hostSite /\ signed.root.branch = b
          /\ signed.root.at <= lastRole[signed.root.site][signed.root.by]
      BY <3>1 DEF SignedFits, AskFits
    <3>3. gtime < signed.made + (IF signed.kind = "grant" THEN GrantTTL ELSE CookieTTL)
      <4>1. PICK m \in Nat, x \in Nat, l \in Nat : /\ m = signed.made /\ x = signed.exp
                                              /\ l = IF signed.kind = "grant" THEN GrantTTL ELSE CookieTTL
        BY <2>0, <3>1 DEF SignedFits, SignedValues
      <4>2. x <= m + l /\ gtime < x
        BY <3>1, <4>1 DEF SignedFits
      <4>3. gtime < m + l
        BY <2>0, <4>2
      <4> QED BY <4>1, <4>3
    <3>4. PreviewsStayPrivate'
      BY <3>1, <3>2, <3>3 DEF PreviewsStayPrivate, ViewIsGranted, AccessLapses
    <3> QED BY <2>0, <2>2, <3>1, <3>4 DEF PreviewInv
  <2>12. CASE UNCHANGED previewVars
    <3>1. PreviewsStayPrivate'
      BY <1>2, <2>12 DEF previewVars, PreviewInv, PreviewsStayPrivate, ViewIsGranted, AccessLapses
    <3> QED BY <2>0, <2>2, <2>12, <3>1 DEF previewVars, PreviewInv
  <2> QED BY <1>2, <2>3, <2>4, <2>5, <2>6, <2>7, <2>8, <2>9, <2>10, <2>11, <2>12 DEF PreviewNext
<1>3. PreviewInv => PreviewsStayPrivate
  BY DEF PreviewInv
<1> QED BY <1>1, <1>2, <1>3, PTL DEF PreviewSpec

-----------------------------------------------------------------------------
(* The certificate decision (TlsGate) *)

(* The lookups under way and the decisions taken. *)
Lookups == [at : {"lookup", "redirect", "found"}, handle : TlsHandles, now : Nat, found : BOOLEAN]
Decisions == [at : {"allowed", "refused"}, handle : TlsHandles \cup {"none"}, now : Nat]

(* A handle that is not a site's is a redirect, or has been free or taken back since;
   what a handshake found was so at its clock or later; what it decided is as fresh as
   the answer's lifetime. *)
ShakeFits(s, t, nm, ly, ln) ==
    \/ s = NoShake
    \/ /\ s \in Lookups /\ s.now <= t
       /\ s.at = "redirect" => nm[s.handle] = "former" \/ s.now <= ln[s.handle]
       /\ s.at = "found" => (IF s.found THEN s.now <= ly[s.handle] ELSE s.now <= ln[s.handle])
    \/ /\ s \in Decisions
       /\ s.handle \in TlsHandles =>
             /\ s.at = "allowed" => s.now - ly[s.handle] < PosTTL
             /\ s.at = "refused" => s.now - ln[s.handle] < NegTTL

(* An entry answers no longer than its lifetime after its handle was last so. *)
EntryFits(k, yes, no) ==
    k.expires = 0 \/ (IF k.exists THEN k.expires <= yes + PosTTL ELSE k.expires <= no + NegTTL)

HandleFits(t, nm, yes, no) ==
    /\ yes <= t /\ no <= t
    /\ nm # "free" => yes = t
    /\ nm = "free" => no = t

TlsTypeOK ==
    /\ tlsClock \in Nat
    /\ name \in [TlsHandles -> {"live", "former", "free"}]
    /\ lastYes \in [TlsHandles -> Int] /\ lastNo \in [TlsHandles -> Int]
    /\ known \in [TlsHandles -> [exists : BOOLEAN, expires : Nat]]
    /\ shake = [c \in Handshakes |-> shake[c]]

TlsInv ==
    /\ TlsTypeOK
    /\ \A h \in TlsHandles : HandleFits(tlsClock, name[h], lastYes[h], lastNo[h])
    /\ \A h \in TlsHandles : EntryFits(known[h], lastYes[h], lastNo[h])
    /\ \A c \in Handshakes : ShakeFits(shake[c], tlsClock, name, lastYes, lastNo)

(* What fits a handshake keeps fitting it as the clock and the sites move on. *)
LEMMA ShakeStaysFit ==
    ASSUME NEW s, NEW t \in Nat, NEW t2 \in Nat, t <= t2,
           NEW ly \in [TlsHandles -> Int], NEW ly2 \in [TlsHandles -> Int],
           NEW ln \in [TlsHandles -> Int], NEW ln2 \in [TlsHandles -> Int],
           NEW nm, NEW nm2,
           \A h \in TlsHandles : ly[h] <= ly2[h] /\ ln[h] <= ln2[h],
           \A h \in TlsHandles : nm[h] = "former" => nm2[h] = "former" \/ t <= ln2[h],
           ShakeFits(s, t, nm, ly, ln)
    PROVE  ShakeFits(s, t2, nm2, ly2, ln2)
<1>1. CASE s = NoShake
  BY <1>1 DEF ShakeFits
<1>2. CASE s \in Lookups /\ s.now <= t
           /\ (s.at = "redirect" => nm[s.handle] = "former" \/ s.now <= ln[s.handle])
           /\ (s.at = "found" => (IF s.found THEN s.now <= ly[s.handle] ELSE s.now <= ln[s.handle]))
  <2>1. PICK h \in TlsHandles, n \in Nat : h = s.handle /\ n = s.now
    BY <1>2 DEF Lookups
  <2>2. s.now <= t2 /\ (s.at = "found" => (IF s.found THEN s.now <= ly2[s.handle] ELSE s.now <= ln2[s.handle]))
    BY <1>2, <2>1
  <2>3. ASSUME s.at = "redirect" PROVE nm2[s.handle] = "former" \/ s.now <= ln2[s.handle]
    <3>1. PICK x \in Int, y \in Int : x = ln[h] /\ y = ln2[h] /\ x <= y
      OBVIOUS
    <3>2. CASE nm[h] = "former"
      <4>1. nm2[h] = "former" \/ t <= y
        BY <3>1, <3>2
      <4> QED BY <1>2, <2>1, <3>1, <4>1
    <3>3. CASE n <= x
      BY <2>1, <3>1, <3>3
    <3> QED BY <1>2, <2>1, <2>3, <3>1, <3>2, <3>3
  <2> QED BY <1>2, <2>2, <2>3 DEF ShakeFits
<1>3. CASE s \in Decisions
           /\ (s.handle \in TlsHandles => /\ s.at = "allowed" => s.now - ly[s.handle] < PosTTL
                                          /\ s.at = "refused" => s.now - ln[s.handle] < NegTTL)
  <2>1. PICK h \in TlsHandles \cup {"none"}, n \in Nat : h = s.handle /\ n = s.now
    BY <1>3 DEF Decisions
  <2>2. h \in TlsHandles => /\ s.at = "allowed" => n - ly2[h] < PosTTL
                            /\ s.at = "refused" => n - ln2[h] < NegTTL
    BY <1>3, <2>1, TlsGateAssumption
  <2> QED BY <1>3, <2>1, <2>2 DEF ShakeFits
<1> QED BY <1>1, <1>2, <1>3 DEF ShakeFits

(* A step of one handshake leaves the others as they are. *)
LEMMA OneShakeMoves ==
    ASSUME TlsInv, NEW c \in Handshakes, NEW s, shake' = [shake EXCEPT ![c] = s],
           ShakeFits(s, tlsClock, name, lastYes, lastNo),
           UNCHANGED <<tlsClock, name, lastYes, lastNo>>
    PROVE  /\ shake' = [d \in Handshakes |-> shake'[d]]
           /\ \A d \in Handshakes : ShakeFits(shake'[d], tlsClock, name, lastYes, lastNo)
BY DEF TlsInv, TlsTypeOK

(* A handshake decides on a site only as the site was, within the lifetime of the answer,
   whatever order concurrent lookups store what they found in (existsCached). *)
THEOREM DecisionsFollowSites == TlsSpec => []DecisionFollowsSites
<1> USE TlsGateAssumption
<1>1. TlsInit => TlsInv
  <2> SUFFICES ASSUME TlsInit PROVE TlsInv
    OBVIOUS
  <2>1. TlsTypeOK
    BY DEF TlsInit, TlsTypeOK
  <2>2. \A h \in TlsHandles : HandleFits(tlsClock, name[h], lastYes[h], lastNo[h]) /\ EntryFits(known[h], lastYes[h], lastNo[h])
    BY DEF TlsInit, HandleFits, EntryFits
  <2>3. \A c \in Handshakes : ShakeFits(shake[c], tlsClock, name, lastYes, lastNo)
    BY DEF TlsInit, ShakeFits
  <2> QED BY <2>1, <2>2, <2>3 DEF TlsInv
<1>2. ASSUME TlsInv, [TlsNext]_tlsVars PROVE TlsInv'
  <2>0. TlsTypeOK
    BY <1>2 DEF TlsInv
  <2>1. ASSUME NEW c \in Handshakes, NEW s, shake' = [shake EXCEPT ![c] = s],
               ShakeFits(s, tlsClock, name, lastYes, lastNo),
               UNCHANGED <<tlsClock, name, lastYes, lastNo, known>>
        PROVE  TlsInv'
    <3>1. /\ shake' = [d \in Handshakes |-> shake'[d]]
          /\ \A d \in Handshakes : ShakeFits(shake'[d], tlsClock, name, lastYes, lastNo)
      BY <1>2, <2>1, OneShakeMoves
    <3>2. TlsTypeOK'
      BY <2>0, <2>1, <3>1 DEF TlsTypeOK
    <3> QED BY <1>2, <2>1, <3>1, <3>2 DEF TlsInv
  <2>2. ASSUME tlsClock' \in Nat, tlsClock <= tlsClock',
               lastYes' \in [TlsHandles -> Int], lastNo' \in [TlsHandles -> Int],
               name' \in [TlsHandles -> {"live", "former", "free"}],
               \A h \in TlsHandles : name[h] = "former" => name'[h] = "former" \/ tlsClock <= lastNo'[h],
               \A h \in TlsHandles : lastYes[h] <= lastYes'[h] /\ lastNo[h] <= lastNo'[h],
               \A h \in TlsHandles : HandleFits(tlsClock', name'[h], lastYes'[h], lastNo'[h]),
               UNCHANGED <<known, shake>>
        PROVE  TlsInv'
    <3>1. TlsTypeOK'
      BY <2>0, <2>2 DEF TlsTypeOK
    <3>2. ASSUME NEW h \in TlsHandles PROVE EntryFits(known[h], lastYes'[h], lastNo'[h])
      <4>1. PICK k \in [exists : BOOLEAN, expires : Nat] : k = known[h]
        BY <2>0 DEF TlsTypeOK
      <4>2. EntryFits(k, lastYes[h], lastNo[h])
        BY <1>2, <4>1 DEF TlsInv
      <4>3. /\ lastYes[h] \in Int /\ lastYes'[h] \in Int /\ lastNo[h] \in Int /\ lastNo'[h] \in Int
            /\ lastYes[h] <= lastYes'[h] /\ lastNo[h] <= lastNo'[h]
        BY <2>0, <2>2 DEF TlsTypeOK
      <4> QED BY <4>1, <4>2, <4>3 DEF EntryFits
    <3>3. ASSUME NEW c \in Handshakes PROVE ShakeFits(shake[c], tlsClock', name', lastYes', lastNo')
      <4>1. PICK s : s = shake[c]
        OBVIOUS
      <4>2. ShakeFits(s, tlsClock, name, lastYes, lastNo)
        BY <1>2, <4>1 DEF TlsInv
      <4>3. ShakeFits(s, tlsClock', name', lastYes', lastNo')
        BY <2>0, <2>2, <4>2, ShakeStaysFit DEF TlsTypeOK
      <4> QED BY <4>1, <4>3
    <3> QED BY <2>2, <3>1, <3>2, <3>3 DEF TlsInv
  <2>3. CASE TlsTick
    <3>1. /\ tlsClock' \in Nat /\ tlsClock <= tlsClock' /\ UNCHANGED <<known, shake, name>>
          /\ lastYes' \in [TlsHandles -> Int] /\ lastNo' \in [TlsHandles -> Int]
          /\ name' \in [TlsHandles -> {"live", "former", "free"}]
      BY <2>0, <2>3 DEF TlsTick, TlsTypeOK
    <3>2. ASSUME NEW h \in TlsHandles
          PROVE  /\ lastYes[h] <= lastYes'[h] /\ lastNo[h] <= lastNo'[h]
                 /\ HandleFits(tlsClock', name'[h], lastYes'[h], lastNo'[h])
      <4>1. HandleFits(tlsClock, name[h], lastYes[h], lastNo[h])
        BY <1>2 DEF TlsInv
      <4>2. /\ lastYes'[h] = (IF name[h] = "free" THEN lastYes[h] ELSE tlsClock + 1) /\ tlsClock' = tlsClock + 1
            /\ lastNo'[h] = (IF name[h] = "free" THEN tlsClock + 1 ELSE lastNo[h]) /\ name'[h] = name[h]
        BY <2>3 DEF TlsTick
      <4> QED BY <2>0, <4>1, <4>2 DEF HandleFits, TlsTypeOK
    <3> QED BY <2>2, <3>1, <3>2
  <2>4. ASSUME NEW g \in TlsHandles, NEW to \in {"live", "former", "free"}, SiteChanges(g, to) PROVE TlsInv'
    <3>1. /\ tlsClock' \in Nat /\ tlsClock <= tlsClock' /\ UNCHANGED <<tlsClock, known, shake>>
          /\ lastYes' \in [TlsHandles -> Int] /\ lastNo' \in [TlsHandles -> Int]
          /\ name' \in [TlsHandles -> {"live", "former", "free"}]
      BY <2>0, <2>4 DEF SiteChanges, TlsTypeOK
    <3>2. ASSUME NEW h \in TlsHandles
          PROVE  /\ lastYes[h] <= lastYes'[h] /\ lastNo[h] <= lastNo'[h]
                 /\ HandleFits(tlsClock', name'[h], lastYes'[h], lastNo'[h])
                 /\ name[h] = "former" => name'[h] = "former" \/ tlsClock <= lastNo'[h]
      <4>1. HandleFits(tlsClock, name[h], lastYes[h], lastNo[h])
        BY <1>2 DEF TlsInv
      <4>2. h # g => name'[h] = name[h] /\ lastYes'[h] = lastYes[h] /\ lastNo'[h] = lastNo[h]
        BY <2>0, <2>4 DEF SiteChanges, TlsTypeOK
      <4>3. h = g => /\ name'[h] = to
                     /\ lastYes'[h] = (IF to = "free" THEN lastYes[h] ELSE tlsClock)
                     /\ lastNo'[h] = (IF to = "free" \/ name[h] = "former" THEN tlsClock ELSE lastNo[h])
        BY <2>0, <2>4 DEF SiteChanges, TlsTypeOK
      <4> QED BY <2>0, <3>1, <4>1, <4>2, <4>3 DEF HandleFits, TlsTypeOK
    <3> QED BY <2>2, <3>1, <3>2
  <2>5. ASSUME NEW c \in Handshakes, AllowOther(c) PROVE TlsInv'
    <3>1. PICK control \in BOOLEAN : shake' = [shake EXCEPT ![c] = Decided("none", tlsClock, control)]
      BY <2>5 DEF AllowOther
    <3>2. ShakeFits(Decided("none", tlsClock, control), tlsClock, name, lastYes, lastNo)
      BY <2>0 DEF Decided, ShakeFits, Decisions, TlsTypeOK
    <3> QED BY <2>1, <2>5, <3>1, <3>2 DEF AllowOther
  <2>6. ASSUME NEW c \in Handshakes, LookupFails(c) PROVE TlsInv'
    <3>1. ShakeFits(Decided("none", tlsClock, FALSE), tlsClock, name, lastYes, lastNo)
      BY <2>0 DEF Decided, ShakeFits, Decisions, TlsTypeOK
    <3> QED BY <2>1, <2>6, <3>1 DEF LookupFails
  <2>7. ASSUME NEW c \in Handshakes, HandshakeDone(c) PROVE TlsInv'
    <3>1. ShakeFits(NoShake, tlsClock, name, lastYes, lastNo)
      BY DEF ShakeFits
    <3> QED BY <2>1, <2>7, <3>1 DEF HandshakeDone
  <2>8. ASSUME NEW c \in Handshakes, NEW h \in TlsHandles, StartLookup(c, h) PROVE TlsInv'
    <3>1. ShakeFits([at |-> "lookup", handle |-> h, now |-> tlsClock, found |-> FALSE], tlsClock, name, lastYes, lastNo)
      BY <2>0 DEF ShakeFits, Lookups, TlsTypeOK
    <3> QED BY <2>1, <2>8, <3>1 DEF StartLookup
  <2>9. ASSUME NEW c \in Handshakes, NEW h \in TlsHandles, AllowFromCache(c, h) PROVE TlsInv'
    <3>1. PICK k \in [exists : BOOLEAN, expires : Nat] : k = known[h]
      BY <2>0 DEF TlsTypeOK
    <3>2. EntryFits(k, lastYes[h], lastNo[h]) /\ tlsClock < k.expires
      BY <1>2, <2>9, <3>1 DEF TlsInv, AllowFromCache, Fresh
    <3>3. /\ k.exists => tlsClock - lastYes[h] < PosTTL
          /\ ~k.exists => tlsClock - lastNo[h] < NegTTL
      BY <2>0, <3>1, <3>2 DEF EntryFits, TlsTypeOK
    <3>4. ShakeFits(Decided(h, tlsClock, k.exists), tlsClock, name, lastYes, lastNo)
      BY <2>0, <3>1, <3>3 DEF Decided, ShakeFits, Decisions, TlsTypeOK
    <3> QED BY <2>1, <2>9, <3>1, <3>4 DEF AllowFromCache
  <2>10. ASSUME NEW c \in Handshakes, LookupLive(c) PROVE TlsInv'
    <3>1. PICK s : s = shake[c]
      OBVIOUS
    <3>2. s \in Lookups /\ s.now <= tlsClock
      BY <1>2, <2>10, <3>1 DEF TlsInv, ShakeFits, LookupLive, NoShake, Decisions
    <3>3. PICK h \in TlsHandles, n \in Nat : h = s.handle /\ n = s.now
      BY <3>2 DEF Lookups
    <3>4. PICK e \in BOOLEAN, a \in {"found", "redirect"} : e = (name[h] = "live") /\ a = IF e THEN "found" ELSE "redirect"
      OBVIOUS
    <3> DEFINE k == [s EXCEPT !.at = a, !.found = e]
    <3>5. shake' = [shake EXCEPT ![c] = k]
      BY <2>0, <2>10, <3>1, <3>3, <3>4 DEF LookupLive, TlsTypeOK
    <3>6. k \in Lookups /\ k.at = a /\ k.found = e /\ k.handle = h /\ k.now = n
      BY <3>2, <3>3 DEF Lookups
    <3>7. HandleFits(tlsClock, name[h], lastYes[h], lastNo[h]) /\ name[h] \in {"live", "former", "free"}
      BY <1>2, <2>0 DEF TlsInv, TlsTypeOK
    <3>8. e => n <= lastYes[h]
      BY <3>2, <3>3, <3>4, <3>7 DEF HandleFits
    <3>9. ~e => name[h] = "former" \/ n <= lastNo[h]
      BY <3>2, <3>3, <3>4, <3>7 DEF HandleFits
    <3> HIDE DEF k
    <3>10. ShakeFits(k, tlsClock, name, lastYes, lastNo)
      BY <3>2, <3>3, <3>4, <3>6, <3>8, <3>9 DEF ShakeFits
    <3> QED BY <2>1, <2>10, <3>5, <3>10 DEF LookupLive
  <2>13. ASSUME NEW c \in Handshakes, LookupRedirect(c) PROVE TlsInv'
    <3>1. PICK s : s = shake[c]
      OBVIOUS
    <3>2. s \in Lookups /\ s.now <= tlsClock /\ (name[s.handle] = "former" \/ s.now <= lastNo[s.handle])
      BY <1>2, <2>13, <3>1 DEF TlsInv, ShakeFits, LookupRedirect, NoShake, Decisions
    <3>3. PICK h \in TlsHandles, n \in Nat : h = s.handle /\ n = s.now
      BY <3>2 DEF Lookups
    <3>4. PICK e \in BOOLEAN : e = (name[h] = "former")
      OBVIOUS
    <3> DEFINE k == [s EXCEPT !.at = "found", !.found = e]
    <3>5. shake' = [shake EXCEPT ![c] = k]
      BY <2>0, <2>13, <3>1, <3>3, <3>4 DEF LookupRedirect, TlsTypeOK
    <3>6. k \in Lookups /\ k.at = "found" /\ k.found = e /\ k.handle = h /\ k.now = n
      BY <3>2, <3>3 DEF Lookups
    <3>7. IF e THEN n <= lastYes[h] ELSE n <= lastNo[h]
      BY <1>2, <3>2, <3>3, <3>4 DEF TlsInv, HandleFits
    <3> HIDE DEF k
    <3>8. ShakeFits(k, tlsClock, name, lastYes, lastNo)
      BY <3>2, <3>3, <3>6, <3>7 DEF ShakeFits
    <3> QED BY <2>1, <2>13, <3>5, <3>8 DEF LookupRedirect
  <2>11. ASSUME NEW c \in Handshakes, Remember(c) PROVE TlsInv'
    <3>1. PICK s : s = shake[c]
      OBVIOUS
    <3>2. s \in Lookups /\ s.now <= tlsClock /\ (IF s.found THEN s.now <= lastYes[s.handle] ELSE s.now <= lastNo[s.handle])
      BY <1>2, <2>11, <3>1 DEF TlsInv, ShakeFits, Remember, NoShake, Decisions
    <3>3. PICK h \in TlsHandles, n \in Nat, f \in BOOLEAN : h = s.handle /\ n = s.now /\ f = s.found
      BY <3>2 DEF Lookups
    <3>4. PICK x \in Nat : x = n + (IF f THEN PosTTL ELSE NegTTL)
      OBVIOUS
    <3>5. /\ shake' = [shake EXCEPT ![c] = Decided(h, n, f)]
          /\ known' = [known EXCEPT ![h] = [exists |-> f, expires |-> x]]
          /\ UNCHANGED <<tlsClock, name, lastYes, lastNo>>
      BY <2>11, <3>1, <3>3, <3>4 DEF Remember, Expires
    <3>6. IF f THEN n <= lastYes[h] ELSE n <= lastNo[h]
      BY <3>2, <3>3
    <3>7. PICK k : k = [exists |-> f, expires |-> x]
      OBVIOUS
    <3>8. k \in [exists : BOOLEAN, expires : Nat] /\ EntryFits(k, lastYes[h], lastNo[h])
      BY <2>0, <3>4, <3>6, <3>7 DEF EntryFits, TlsTypeOK
    <3>9. ShakeFits(Decided(h, n, f), tlsClock, name, lastYes, lastNo)
      <4>1. lastYes[h] \in Int /\ lastNo[h] \in Int
        BY <2>0 DEF TlsTypeOK
      <4>2. ASSUME f PROVE n - lastYes[h] < PosTTL
        BY <3>6, <4>1, <4>2
      <4>3. ASSUME ~f PROVE n - lastNo[h] < NegTTL
        BY <3>6, <4>1, <4>3
      <4> QED BY <2>0, <4>2, <4>3 DEF Decided, ShakeFits, Decisions, TlsTypeOK
    <3>10. /\ shake' = [d \in Handshakes |-> shake'[d]]
           /\ \A d \in Handshakes : ShakeFits(shake'[d], tlsClock, name, lastYes, lastNo)
      BY <1>2, <3>5, <3>9, OneShakeMoves
    <3>11. known' \in [TlsHandles -> [exists : BOOLEAN, expires : Nat]] /\ \A g \in TlsHandles : known'[g] = (IF g = h THEN k ELSE known[g])
      BY <2>0, <3>5, <3>7, <3>8 DEF TlsTypeOK
    <3>12. TlsTypeOK'
      BY <2>0, <3>5, <3>10, <3>11 DEF TlsTypeOK
    <3>13. \A g \in TlsHandles : EntryFits(known'[g], lastYes[g], lastNo[g])
      BY <1>2, <3>8, <3>11 DEF TlsInv
    <3> QED BY <1>2, <3>5, <3>10, <3>12, <3>13 DEF TlsInv
  <2>12. CASE UNCHANGED tlsVars
    BY <1>2, <2>0, <2>12 DEF tlsVars, TlsInv, TlsTypeOK
  <2> QED BY <1>2, <2>3, <2>4, <2>5, <2>6, <2>7, <2>8, <2>9, <2>10, <2>11, <2>12, <2>13 DEF TlsNext
<1>3. TlsInv => DecisionFollowsSites
  BY DEF TlsInv, DecisionFollowsSites, IssuedOnlyIfExisted, NewSiteIssuable, ShakeFits, Lookups, Decisions, NoShake
<1> QED BY <1>1, <1>2, <1>3, PTL DEF TlsSpec

-----------------------------------------------------------------------------
(* Visitors' copies of a page (PageCaching) *)

Pages == Seq([second : Nat, size : PageSizes])
Requests == [at : {"idle", "tree", "write", "done"}, version : Nat, label : Nat, since : Nat \X Nat]
Copies == [commit : Nat, etag : (Nat \X Nat \X PageSizes) \cup {<< >>}, date : Nat, version : Nat]

(* A request read the version after it began, and labels what was published since. *)
ReqFits(r, p) ==
    /\ r \in Requests
    /\ r.at # "idle" => r.since[1] \in 1..Len(p) /\ r.since[2] <= r.version
    /\ r.at = "write" => r.label \in r.since[1]..Len(p)

(* A copy is of its label or newer, dated and versioned like its label. *)
CopyFits(c, p) ==
    /\ c \in Copies
    /\ c.commit # 0 =>
          /\ c.etag \in Nat \X Nat \X PageSizes
          /\ c.etag[1] \in 1..Len(p) /\ c.etag[1] <= c.commit
          /\ c.date = p[c.etag[1]].second /\ c.version = c.etag[2]

(* What RevalidationSound says of one visitor. *)
AnswerFits(v, r, c, p) ==
    r.at = "done" =>
        /\ c.commit >= r.since[1] \/ (v \in DateVisitors /\ \E n \in r.since[1]..Len(p) : p[n].second <= c.date)
        /\ v \in TagVisitors => c.version >= r.since[2]

PageInv ==
    /\ pages \in Pages /\ Len(pages) >= 1
    /\ version \in Nat
    /\ req = [v \in PageVisitors |-> req[v]] /\ copy = [v \in PageVisitors |-> copy[v]]
    /\ \A v \in PageVisitors : ReqFits(req[v], pages)
    /\ \A v \in PageVisitors : CopyFits(copy[v], pages)
    /\ \A v \in PageVisitors : AnswerFits(v, req[v], copy[v], pages)

(* What a sequence holds is of its kind. *)
LEMMA ElementOf ==
    ASSUME NEW S, NEW s \in Seq(S), NEW i \in 1..Len(s)
    PROVE  s[i] \in S
OBVIOUS

(* Every published commit has a date and a size. *)
LEMMA PageHasDate ==
    ASSUME NEW p \in Pages, NEW i \in 1..Len(p)
    PROVE  p[i].second \in Nat /\ p[i].size \in PageSizes
<1>1. PICK S : S = [second : Nat, size : PageSizes]
  OBVIOUS
<1>2. p[i] \in S
  BY <1>1, ElementOf DEF Pages
<1> QED BY <1>1, <1>2

(* Publishing leaves what was known of requests and copies true. *)
LEMMA LaterPagesFit ==
    ASSUME NEW p \in Pages, NEW q \in Pages, Len(p) <= Len(q), \A i \in 1..Len(p) : q[i] = p[i],
           NEW v, NEW r, NEW c, ReqFits(r, p), CopyFits(c, p), AnswerFits(v, r, c, p)
    PROVE  ReqFits(r, q) /\ CopyFits(c, q) /\ AnswerFits(v, r, c, q)
<1>1. Len(p) \in Nat /\ Len(q) \in Nat
  BY DEF Pages
<1>2. ReqFits(r, q)
  BY <1>1 DEF ReqFits, Requests
<1>3. CopyFits(c, q)
  BY <1>1 DEF CopyFits
<1>4. r.at = "done" => r.since[1] \in 1..Len(p)
  BY DEF ReqFits
<1>5. AnswerFits(v, r, c, q)
  <2>1. ASSUME r.at = "done", NEW n \in r.since[1]..Len(p) PROVE n \in r.since[1]..Len(q) /\ q[n] = p[n]
    BY <1>1, <1>4, <2>1
  <2> QED BY <2>1 DEF AnswerFits
<1> QED BY <1>2, <1>3, <1>5

(* An answer shows the visitor what was published since the request began: a kept copy
   has the label's tag, or a date no earlier than the label's. *)
LEMMA AnswerIsCurrent ==
    ASSUME NEW p \in Pages, NEW r, NEW c, NEW v \in PageVisitors,
           r.since[1] \in 1..Len(p), r.since[1] \in Nat, r.since[2] \in Nat, r.label \in r.since[1]..Len(p),
           r.version \in Nat, r.since[2] <= r.version,
           CopyFits(c, p), c.commit # 0, NEW z,
           IF v \in TagVisitors THEN c.etag = <<r.label, r.version, z>> ELSE p[r.label].second <= c.date
    PROVE  /\ \/ c.commit >= r.since[1]
              \/ v \in DateVisitors /\ \E n \in r.since[1]..Len(p) : p[n].second <= c.date
           /\ v \in TagVisitors => c.version >= r.since[2]
<1>0. Len(p) \in Nat
  BY DEF Pages
<1>1. PICK s \in 1..Len(p), e \in 1..Len(p), m \in Nat, l \in 1..Len(p) :
         s = r.since[1] /\ e = c.etag[1] /\ m = c.commit /\ l = r.label
  <2>1. c.commit \in Nat /\ c.etag[1] \in 1..Len(p)
    BY DEF CopyFits, Copies
  <2>2. r.label \in 1..Len(p)
    BY <1>0
  <2> QED BY <2>1, <2>2
<1>2. e <= m /\ s <= l /\ c.date = p[e].second /\ c.version = c.etag[2]
  BY <1>0, <1>1 DEF CopyFits
<1>3. CASE v \in TagVisitors
  <2>1. c.etag[1] = r.label /\ c.etag[2] = r.version
    BY <1>3
  <2> QED BY <1>0, <1>1, <1>2, <1>3, <2>1
<1>4. CASE v \notin TagVisitors
  BY <1>1, <1>2, <1>4 DEF PageVisitors
<1> QED BY <1>3, <1>4

(* A step of one visitor's request leaves the others as they are. *)
LEMMA OneVisitorMoves ==
    ASSUME PageInv, NEW v \in PageVisitors, NEW r, NEW c,
           req' = [req EXCEPT ![v] = r], copy' = [copy EXCEPT ![v] = c],
           ReqFits(r, pages), CopyFits(c, pages), AnswerFits(v, r, c, pages),
           UNCHANGED <<pages, version>>
    PROVE  PageInv'
<1>1. req' = [w \in PageVisitors |-> req'[w]] /\ copy' = [w \in PageVisitors |-> copy'[w]]
  BY DEF PageInv
<1>2. ASSUME NEW w \in PageVisitors
      PROVE  ReqFits(req'[w], pages) /\ CopyFits(copy'[w], pages) /\ AnswerFits(w, req'[w], copy'[w], pages)
  <2>1. CASE w = v
    BY <2>1 DEF PageInv
  <2>2. CASE w # v
    BY <2>2 DEF PageInv
  <2> QED BY <2>1, <2>2
<1> QED BY <1>1, <1>2 DEF PageInv

(* What a visitor that sends tags shows after an answer, a 304 included, was published
   at some moment since the request began and fetched after a purge before it; one that
   sends dates keeps an older page only beside one dated no later (writeContent). *)
THEOREM CopiesAreRevalidated == PageSpec => []RevalidationSound
<1>1. PageInit => PageInv
  <2> SUFFICES ASSUME PageInit PROVE PageInv
    OBVIOUS
  <2>1. PICK t \in CommitSeconds, z \in PageSizes : pages = <<[second |-> t, size |-> z]>>
    BY DEF PageInit
  <2>2. pages \in Pages /\ Len(pages) = 1
    BY <2>1, PageAssumption DEF Pages
  <2>3. ReqFits(NoReq, pages) /\ CopyFits(NoCopy, pages) /\ (\A v \in PageVisitors : AnswerFits(v, NoReq, NoCopy, pages))
    BY DEF ReqFits, CopyFits, AnswerFits, NoReq, NoCopy, Requests, Copies
  <2> QED BY <2>2, <2>3 DEF PageInv, PageInit
<1>2. ASSUME PageInv, [PageNext]_pageVars PROVE PageInv'
  <2>0. /\ pages \in Pages /\ Len(pages) \in Nat \ {0} /\ version \in Nat
        /\ req = [v \in PageVisitors |-> req[v]] /\ copy = [v \in PageVisitors |-> copy[v]]
    BY <1>2 DEF PageInv, Pages
  <2>1. CASE PublishPage
    <3>1. PICK t \in CommitSeconds, z \in PageSizes : pages' = Append(pages, [second |-> t, size |-> z])
      BY <2>1 DEF PublishPage
    <3>2. PICK n \in Nat : n = Len(pages) /\ n >= 1
      BY <2>0
    <3>3. PICK g : g = [second |-> t, size |-> z] /\ g \in [second : Nat, size : PageSizes]
      <4>1. t \in Nat
        BY PageAssumption
      <4>2. [second |-> t, size |-> z] \in [second : Nat, size : PageSizes]
        BY <4>1
      <4> QED BY <4>2
    <3>4. pages' = Append(pages, g)
      BY <3>1, <3>3
    <3>5. PICK p \in Pages : p = pages
      BY <2>0
    <3>6. PICK q : q = Append(p, g)
      OBVIOUS
    <3>7. q \in Pages /\ Len(q) = n + 1 /\ (\A i \in 1..n : q[i] = p[i])
      BY <3>2, <3>3, <3>5, <3>6 DEF Pages
    <3>8. ASSUME NEW v \in PageVisitors
           PROVE  ReqFits(req[v], q) /\ CopyFits(copy[v], q) /\ AnswerFits(v, req[v], copy[v], q)
      <4>1. PICK r, c : r = req[v] /\ c = copy[v]
        OBVIOUS
      <4>2. ReqFits(r, p) /\ CopyFits(c, p) /\ AnswerFits(v, r, c, p)
        BY <1>2, <3>5, <4>1 DEF PageInv
      <4>3. Len(p) = n /\ Len(p) <= Len(q) /\ \A i \in 1..Len(p) : q[i] = p[i]
        BY <3>2, <3>5, <3>7
      <4>4. ReqFits(r, q) /\ CopyFits(c, q) /\ AnswerFits(v, r, c, q)
        BY <3>7, <4>2, <4>3, LaterPagesFit
      <4> QED BY <4>1, <4>4
    <3>9. pages' = q /\ UNCHANGED <<version, req, copy>> /\ Len(q) >= 1
      BY <2>1, <3>2, <3>4, <3>5, <3>6, <3>7 DEF PublishPage
    <3> QED BY <2>0, <3>7, <3>8, <3>9 DEF PageInv
  <2>2. CASE PurgeSiteCache
    BY <1>2, <2>2 DEF PurgeSiteCache, PageInv
  <2>3. ASSUME NEW v \in PageVisitors, LookUpSite(v) PROVE PageInv'
    <3>1. PICK r, c : /\ r = [at |-> "tree", version |-> version, label |-> 0, since |-> <<Len(pages), version>>]
                      /\ c = copy[v]
      OBVIOUS
    <3>2. req' = [req EXCEPT ![v] = r] /\ copy' = [copy EXCEPT ![v] = c] /\ UNCHANGED <<pages, version>>
      BY <2>0, <2>3, <3>1 DEF LookUpSite, Published
    <3>3. ReqFits(r, pages)
      BY <2>0, <3>1 DEF ReqFits, Requests
    <3>4. AnswerFits(v, r, c, pages)
      BY <3>1 DEF AnswerFits
    <3>5. CopyFits(c, pages)
      BY <1>2, <3>1 DEF PageInv
    <3> QED BY <1>2, <3>2, <3>3, <3>4, <3>5, OneVisitorMoves
  <2>4. ASSUME NEW v \in PageVisitors, LabelTree(v) PROVE PageInv'
    <3>1. PICK g, c : g = req[v] /\ c = copy[v]
      OBVIOUS
    <3>2. ReqFits(g, pages) /\ CopyFits(c, pages) /\ g.at = "tree"
      BY <1>2, <2>4, <3>1 DEF PageInv, LabelTree
    <3> DEFINE r == [g EXCEPT !.at = "write", !.label = Len(pages)]
    <3>3. req' = [req EXCEPT ![v] = r] /\ copy' = [copy EXCEPT ![v] = c] /\ UNCHANGED <<pages, version>>
      BY <2>0, <2>4, <3>1 DEF LabelTree, Published
    <3>4. r \in Requests /\ r.at = "write" /\ r.label = Len(pages) /\ r.since = g.since /\ r.version = g.version
      BY <2>0, <3>2 DEF ReqFits, Requests
    <3>5. PICK k : k = r
      OBVIOUS
    <3> HIDE DEF r
    <3>6. ReqFits(k, pages)
      BY <2>0, <3>2, <3>4, <3>5 DEF ReqFits, Requests
    <3>7. AnswerFits(v, k, c, pages)
      BY <3>4, <3>5 DEF AnswerFits
    <3> QED BY <1>2, <3>2, <3>3, <3>5, <3>6, <3>7, OneVisitorMoves
  <2>5. ASSUME NEW v \in PageVisitors, WriteContent(v) PROVE PageInv'
    <3>1. PICK g, c : g = req[v] /\ c = copy[v]
      OBVIOUS
    <3>2. ReqFits(g, pages) /\ CopyFits(c, pages) /\ g.at = "write"
      BY <1>2, <2>5, <3>1 DEF PageInv, WriteContent
    <3>3. /\ g \in Requests /\ g.since[1] \in 1..Len(pages) /\ g.since[1] \in Nat /\ g.since[2] \in Nat
          /\ g.since[2] <= g.version /\ g.label \in g.since[1]..Len(pages) /\ g.version \in Nat /\ g.label \in 1..Len(pages)
      BY <2>0, <3>2 DEF ReqFits, Requests
    <3> DEFINE r == [g EXCEPT !.at = "done"]
    <3>4. r \in Requests /\ r.at = "done" /\ r.since = g.since /\ r.version = g.version /\ r.label = g.label
      BY <3>3 DEF Requests
    <3>5. req' = [req EXCEPT ![v] = r] /\ UNCHANGED <<pages, version>>
      BY <2>0, <2>5, <3>1 DEF WriteContent
    <3>6. PICK k : k = r
      OBVIOUS
    <3> HIDE DEF r
    <3>7. ReqFits(k, pages)
      BY <3>3, <3>4, <3>6 DEF ReqFits
    <3>8. PICK body \in g.label..Len(pages) :
             copy' = IF NotModified(v, MakeETag(g.label, g.version, pages[body].size), pages[g.label].second) THEN copy
                     ELSE [copy EXCEPT ![v] = [commit |-> body,
                                               etag |-> MakeETag(g.label, g.version, pages[body].size),
                                               date |-> pages[g.label].second, version |-> g.version]]
      BY <2>5, <3>1 DEF WriteContent, Published
    <3>9. PICK z \in PageSizes, d \in Nat : z = pages[body].size /\ d = pages[g.label].second
      <4>1. body \in 1..Len(pages)
        BY <2>0, <3>3
      <4> QED BY <2>0, <3>3, <4>1, PageHasDate
    <3>10. CASE c.commit # 0 /\ IF v \in TagVisitors THEN c.etag = <<g.label, g.version, z>> ELSE d <= c.date
      <4>1. copy' = [copy EXCEPT ![v] = c]
        BY <2>0, <3>1, <3>8, <3>9, <3>10 DEF NotModified, MakeETag
      <4>2. IF v \in TagVisitors THEN c.etag = <<k.label, k.version, z>> ELSE pages[k.label].second <= c.date
        BY <3>4, <3>6, <3>9, <3>10
      <4>3. /\ k.since[1] \in 1..Len(pages) /\ k.since[1] \in Nat /\ k.since[2] \in Nat
            /\ k.label \in k.since[1]..Len(pages) /\ k.version \in Nat /\ k.since[2] <= k.version
        BY <3>3, <3>4, <3>6
      <4>4. /\ \/ c.commit >= k.since[1]
               \/ v \in DateVisitors /\ \E n \in k.since[1]..Len(pages) : pages[n].second <= c.date
            /\ v \in TagVisitors => c.version >= k.since[2]
        BY <2>0, <3>2, <3>10, <4>2, <4>3, AnswerIsCurrent
      <4>5. AnswerFits(v, k, c, pages)
        BY <4>4 DEF AnswerFits
      <4> QED BY <1>2, <3>2, <3>5, <3>6, <3>7, <4>1, <4>5, OneVisitorMoves
    <3>11. CASE ~(c.commit # 0 /\ IF v \in TagVisitors THEN c.etag = <<g.label, g.version, z>> ELSE d <= c.date)
      <4>1. PICK n : n = [commit |-> body, etag |-> <<g.label, g.version, z>>, date |-> d, version |-> g.version]
        OBVIOUS
      <4>2. copy' = [copy EXCEPT ![v] = n]
        BY <2>0, <3>1, <3>8, <3>9, <3>11, <4>1 DEF NotModified, MakeETag
      <4>3. CopyFits(n, pages)
        BY <2>0, <3>3, <3>9, <4>1 DEF CopyFits, Copies
      <4>4. AnswerFits(v, k, n, pages)
        BY <2>0, <3>3, <3>4, <3>6, <4>1 DEF AnswerFits
      <4> QED BY <1>2, <3>5, <3>6, <3>7, <4>2, <4>3, <4>4, OneVisitorMoves
    <3> QED BY <3>10, <3>11
  <2>6. ASSUME NEW v \in PageVisitors, Idle(v) PROVE PageInv'
    <3>1. PICK r, c : r = NoReq /\ c = copy[v]
      OBVIOUS
    <3>2. req' = [req EXCEPT ![v] = r] /\ copy' = [copy EXCEPT ![v] = c] /\ UNCHANGED <<pages, version>>
      BY <2>0, <2>6, <3>1 DEF Idle
    <3>3. ReqFits(r, pages) /\ AnswerFits(v, r, c, pages)
      BY <3>1 DEF ReqFits, Requests, NoReq, AnswerFits
    <3>4. CopyFits(c, pages)
      BY <1>2, <3>1 DEF PageInv
    <3> QED BY <1>2, <3>2, <3>3, <3>4, OneVisitorMoves
  <2>7. CASE UNCHANGED pageVars
    BY <1>2, <2>7 DEF pageVars, PageInv
  <2> QED BY <1>2, <2>1, <2>2, <2>3, <2>4, <2>5, <2>6, <2>7 DEF PageNext
<1>3. PageInv => RevalidationSound
  BY DEF PageInv, AnswerFits, RevalidationSound, ShownPageIsCurrent, PurgeRefetches, PageVisitors, Published
<1> QED BY <1>1, <1>2, <1>3, PTL DEF PageSpec

-----------------------------------------------------------------------------
(* The limiters (RateLimits) *)

(* One more token is one more period. *)
LEMMA OneMorePeriod ==
    ASSUME NEW n \in Nat, NEW c \in Nat
    PROVE  n * c \in Nat /\ (n + 1) * c = n * c + c
OBVIOUS

HttpBuckets == [tokens : Nat, last : Nat, lastSeen : Nat]
HitRecords == [at : {"allow"}, key : Keys, due : SUBSET Keys, now : Nat]
CallRecords == [at : {"reserve", "cancel"}, now : Nat, act : Int]
ToolBuckets == [tokens : Int, last : Nat, lastEvent : Int]

Full == Burst * Period
ToolFull == ToolBurst * Period

(* What was admitted and what is left in the bucket come out of a full bucket, the time
   until its last refill and the overtaking. *)
BucketFits(b, a, o, ln) ==
    /\ b \in HttpBuckets
    /\ a * Period + b.tokens <= Full + b.last + o
    /\ b.last <= ln /\ b.last <= b.lastSeen + MaxStall

(* A client without a bucket has had the time for a full one since. *)
ClientFits(k, bs, a, o, ln) ==
    /\ a \in Nat /\ o \in Nat
    /\ IF k \in DOMAIN bs THEN BucketFits(bs[k], a, o, ln) ELSE a * Period <= ln + o

HitFits(h, t) ==
    h.at # "idle" => h \in HitRecords /\ h.key \in h.due /\ h.now <= t /\ t <= h.now + MaxStall

HttpInv ==
    /\ rtime \in Nat /\ lastNow \in Nat /\ lastNow <= rtime
    /\ admitted = [k \in Keys |-> admitted[k]] /\ overtaken = [k \in Keys |-> overtaken[k]]
    /\ DOMAIN buckets \subseteq Keys
    /\ \A k \in Keys : ClientFits(k, buckets, admitted[k], overtaken[k], lastNow)
    /\ hit = [r \in Hits |-> hit[r]] /\ \A r \in Hits : HitFits(hit[r], rtime)

CallFits(c, t) == c.at # "idle" => c \in CallRecords /\ c.now <= t

(* The reservations that wait to be cancelled; each has taken a token it gives back. *)
Cancelling == {c \in ToolCalls : call[c].at = "cancel"}

ToolInv ==
    /\ rtime \in Nat /\ toolAdmitted \in Nat /\ toolOvertaken \in Nat
    /\ tool \in ToolBuckets /\ tool.last <= rtime
    /\ call = [c \in ToolCalls |-> call[c]] /\ \A c \in ToolCalls : CallFits(call[c], rtime)
    /\ toolAdmitted * Period + tool.tokens + Cardinality(Cancelling) * Period
          <= ToolFull + tool.last + toolOvertaken
    /\ ToolCallsBounded

(* The lesser and the greater of two numbers. *)
LEMMA OfTwo ==
    ASSUME NEW a \in Int, NEW b \in Int
    PROVE  /\ Min({a, b}) = IF a <= b THEN a ELSE b
           /\ Max({a, b}) = IF b <= a THEN a ELSE b
<1>1. Min({a, b}) \in {a, b} /\ \A y \in {a, b} : Min({a, b}) <= y
  <2>1. \E x \in {a, b} : \A y \in {a, b} : x <= y
    OBVIOUS
  <2> QED BY <2>1 DEF Min
<1>2. Max({a, b}) \in {a, b} /\ \A y \in {a, b} : Max({a, b}) >= y
  <2>1. \E x \in {a, b} : \A y \in {a, b} : x >= y
    OBVIOUS
  <2> QED BY <2>1 DEF Max
<1> QED BY <1>1, <1>2

(* A bucket holds no more than is due to it, and never more than it takes. *)
LEMMA RefillBounds ==
    ASSUME NEW b, b.tokens \in Int, b.last \in Int, NEW depth \in Nat, NEW now \in Int
    PROVE  LET r == Refill(b, depth, now)
               due == b.tokens + (IF b.last <= now THEN now - b.last ELSE 0)
           IN  r = IF depth <= due THEN depth ELSE due
<1>1. PICK x \in Int, l \in Int : x = b.tokens /\ l = b.last
  OBVIOUS
<1>2. Max({0, now - l}) = IF l <= now THEN now - l ELSE 0
  <2>1. PICK z \in Int : z = now - l
    OBVIOUS
  <2>2. Max({0, z}) = IF z <= 0 THEN 0 ELSE z
    BY OfTwo
  <2> QED BY <2>1, <2>2
<1>3. PICK g \in Nat : g = Max({0, now - l}) /\ g = IF l <= now THEN now - l ELSE 0
  BY <1>2
<1>4. Min({depth, x + g}) = IF depth <= x + g THEN depth ELSE x + g
  BY OfTwo
<1> QED BY <1>1, <1>3, <1>4 DEF Refill

(* A full bucket holds at least one token. *)
LEMMA FullIsEnough == Full \in Nat /\ Period \in Nat \ {0} /\ Period <= Full /\ ToolFull \in Nat
<1>1. ASSUME NEW b \in Nat \ {0}, NEW p \in Nat PROVE b * p \in Nat /\ p <= b * p
  <2>1. PICK n \in Nat : b = n + 1
    <3>1. b - 1 \in Nat /\ b = (b - 1) + 1
      OBVIOUS
    <3> QED BY <3>1
  <2>2. n * p \in Nat /\ (n + 1) * p = n * p + p
    BY OneMorePeriod
  <2> QED BY <2>1, <2>2
<1> QED BY <1>1, RateAssumption DEF Full, ToolFull

(* What a request does to the bucket it finds. *)
LEMMA KeptBucketFits ==
    ASSUME NEW b, NEW a \in Nat, NEW o \in Nat, NEW ln \in Nat, NEW now \in Nat, NEW d \in Nat,
           BucketFits(b, a, o, ln), ln <= now + MaxStall, d = IF now <= ln THEN ln - now ELSE 0,
           NEW level, level = Refill(b, Full, now)
    PROVE  /\ level \in Int
           /\ level >= Period => BucketFits([tokens |-> level - Period, last |-> now, lastSeen |-> now], a + 1, o + d, now + d)
           /\ level < Period => BucketFits([b EXCEPT !.lastSeen = now], a, o, now + d)
<1>1. PICK x \in Nat, l \in Nat, s \in Nat : x = b.tokens /\ l = b.last /\ s = b.lastSeen
  BY DEF BucketFits, HttpBuckets
<1>2. Full \in Nat /\ Period \in Nat /\ MaxStall \in Nat
  BY FullIsEnough, RateAssumption
<1>3. PICK due \in Nat : due = x + (IF l <= now THEN now - l ELSE 0)
  <2>1. x + (IF l <= now THEN now - l ELSE 0) \in Nat
    OBVIOUS
  <2> QED BY <2>1
<1>4. level = IF Full <= due THEN Full ELSE due
  BY <1>1, <1>2, <1>3, RefillBounds
<1>5. level \in Nat /\ level <= due
  BY <1>2, <1>4
<1>6. PICK w \in Nat : w = a * Period /\ (a + 1) * Period = w + Period
  BY <1>2, OneMorePeriod
<1>7. w + x <= Full + l + o /\ l <= ln
  BY <1>1, <1>6 DEF BucketFits
<1>8. ASSUME level >= Period
      PROVE  BucketFits([tokens |-> level - Period, last |-> now, lastSeen |-> now], a + 1, o + d, now + d)
  <2>1. w + due <= Full + now + (o + d)
    BY <1>2, <1>3, <1>7
  <2>2. PICK y \in Nat : y = level - Period
    BY <1>2, <1>5, <1>8
  <2>3. (a + 1) * Period + y <= Full + now + (o + d)
    BY <1>2, <1>5, <1>6, <2>1, <2>2
  <2>4. [tokens |-> y, last |-> now, lastSeen |-> now] \in HttpBuckets
    BY DEF HttpBuckets
  <2>5. now <= now + d /\ now <= now + MaxStall
    BY <1>2
  <2> QED BY <2>2, <2>3, <2>4, <2>5 DEF BucketFits
<1>9. ASSUME level < Period PROVE BucketFits([b EXCEPT !.lastSeen = now], a, o, now + d)
  <2> DEFINE e == [b EXCEPT !.lastSeen = now]
  <2>1. e \in HttpBuckets /\ e.tokens = x /\ e.last = l /\ e.lastSeen = now
    BY <1>1 DEF BucketFits, HttpBuckets
  <2> HIDE DEF e
  <2>2. l <= now + d /\ l <= now + MaxStall
    BY <1>2, <1>7
  <2> QED BY <1>6, <1>7, <2>1, <2>2 DEF BucketFits, e
<1> QED BY <1>5, <1>8, <1>9

(* What a request does when its client has no bucket. *)
LEMMA NewBucketFits ==
    ASSUME NEW a \in Nat, NEW o \in Nat, NEW now \in Nat, NEW d \in Nat, a * Period <= now + d + o,
           NEW level, level = Refill([tokens |-> Full, last |-> now, lastSeen |-> now], Full, now)
    PROVE  /\ level \in Int /\ level >= Period
           /\ BucketFits([tokens |-> level - Period, last |-> now, lastSeen |-> now], a + 1, o + d, now + d)
<1>1. Full \in Nat /\ Period \in Nat /\ Period <= Full /\ MaxStall \in Nat
  BY FullIsEnough, RateAssumption
<1>2. PICK b : b = [tokens |-> Full, last |-> now, lastSeen |-> now]
  OBVIOUS
<1>3. b.tokens = Full /\ b.last = now
  BY <1>2
<1>4. level = Full
  BY <1>1, <1>2, <1>3, RefillBounds
<1>5. PICK w \in Nat : w = a * Period /\ (a + 1) * Period = w + Period
  BY <1>1, OneMorePeriod
<1>6. PICK y \in Nat : y = level - Period
  BY <1>1, <1>4
<1>7. (a + 1) * Period + y <= Full + now + (o + d)
  BY <1>1, <1>4, <1>5, <1>6
<1>8. [tokens |-> y, last |-> now, lastSeen |-> now] \in HttpBuckets /\ now <= now + d /\ now <= now + MaxStall
  BY <1>1 DEF HttpBuckets
<1> QED BY <1>1, <1>4, <1>6, <1>7, <1>8 DEF BucketFits

(* A bucket that may be evicted is one its client could have filled again. *)
LEMMA EvictedIsFull ==
    ASSUME NEW b, NEW a \in Nat, NEW o \in Nat, NEW ln \in Nat, NEW now \in Nat,
           BucketFits(b, a, o, ln), now - b.lastSeen >= BucketTTL
    PROVE  a * Period <= now + o
<1>1. PICK x \in Nat, l \in Nat, s \in Nat : x = b.tokens /\ l = b.last /\ s = b.lastSeen
  BY DEF BucketFits, HttpBuckets
<1>2. Full \in Nat /\ Period \in Nat /\ MaxStall \in Nat /\ BucketTTL \in Nat /\ BucketTTL >= Full + MaxStall
  BY FullIsEnough, RateAssumption DEF Full
<1>3. PICK w \in Nat : w = a * Period
  BY <1>2, OneMorePeriod
<1>4. w + x <= Full + l + o /\ l <= s + MaxStall /\ now - s >= BucketTTL
  BY <1>1, <1>3 DEF BucketFits
<1> QED BY <1>2, <1>3, <1>4

(* The first element of what is put behind. *)
LEMMA BehindStarts ==
    ASSUME NEW T, NEW s \in Seq(T), NEW q \in Seq(T), Len(q) >= 1
    PROVE  Len(s \o q) = Len(s) + Len(q) /\ (s \o q)[Len(s) + 1] = q[1]
<1>1. Len(s) \in Nat /\ Len(q) \in Nat
  OBVIOUS
<1>2. Len(s \o q) = Len(s) + Len(q)
  OBVIOUS
<1>3. PICK i \in 1..(Len(s) + Len(q)) : i = Len(s) + 1
  BY <1>1
<1>4. (s \o q)[i] = q[i - Len(s)]
  BY <1>1, <1>3
<1>5. i - Len(s) = 1
  BY <1>1, <1>3
<1> QED BY <1>2, <1>3, <1>4, <1>5

(* A request's key is the last address of the list, X-Real-IP or the one it came from:
   the client's own in the documented topology. *)
LEMMA KeyFits ==
    ASSUME NEW w \in HttpRequests
    PROVE  \E key \in Keys, due \in SUBSET Keys :
              KeyOfRequest(w) = [key |-> key, due |-> due] /\ key \in due
<1>0. PICK client \in Clients, sent \in {<< >>} \cup {<<j>> : j \in Named}, real \in {Absent} \cup Named,
        cookie \in {Absent} \cup Cookies, d \in Deployments :
        client = w.client /\ sent = w.sent /\ real = w.real /\ cookie = w.cookie /\ d = w.via
  BY DEF HttpRequests
<1>1. PICK T : T = Clients \cup {Proxy}
  OBVIOUS
<1>2. PICK xff, xrip, remote, ip :
        /\ xff = Forwarded(client, sent, d)
        /\ xrip = (IF d.proxies > 0 /\ d.sets = "real" THEN client ELSE real)
        /\ remote = (IF d.proxies = 0 THEN client ELSE Proxy)
        /\ ip = ClientIP(xff, xrip, remote, d.trust)
  OBVIOUS
<1>3. Named \subseteq Clients /\ Absent \notin Clients /\ MaxHops \in Nat
  BY RateAssumption
<1>4. d.trust \in BOOLEAN /\ d.proxies \in Nat /\ d.sets \in {"xff", "real"}
  BY <1>3 DEF Deployments
<1>5. remote \in T /\ (xrip \in T \/ xrip = Absent)
  BY <1>1, <1>2, <1>3
<1>6. sent \in Seq(T)
  <2>1. CASE sent = << >>
    BY <2>1
  <2>2. ASSUME NEW j \in Named, sent = <<j>> PROVE sent \in Seq(T)
    <3>1. j \in T
      BY <1>1, <1>3
    <3> QED BY <2>2, <3>1
  <2> QED BY <2>1, <2>2
<1>7. xff \in Seq(T) /\ (d.proxies = 1 /\ d.sets = "xff" => Len(xff) >= 1 /\ xff[Len(xff)] = client)
  <2>1. CASE d.proxies = 0 \/ d.sets = "real"
    BY <1>2, <1>4, <1>6, <2>1 DEF Forwarded
  <2>2. CASE ~(d.proxies = 0 \/ d.sets = "real")
    <3>1. PICK n \in Nat : n = d.proxies - 1
      BY <1>4, <2>2
    <3>2. PICK p : p = [i \in 1..n |-> Proxy]
      OBVIOUS
    <3>3. p \in Seq(T) /\ Len(p) = n
      BY <1>1, <3>1, <3>2
    <3>4. <<client>> \in Seq(T) /\ Len(<<client>>) = 1 /\ <<client>>[1] = client
      BY <1>1
    <3>5. PICK rq : rq = sent \o <<client>>
      OBVIOUS
    <3>6. rq \in Seq(T) /\ Len(rq) = Len(sent) + 1 /\ Len(sent) \in Nat
      BY <1>6, <3>4, <3>5
    <3>7. rq[Len(rq)] = client
      BY <1>6, <3>4, <3>5, <3>6, BehindStarts
    <3>8. xff = rq \o p
      BY <1>2, <2>2, <3>1, <3>2, <3>5 DEF Forwarded
    <3>9. xff \in Seq(T)
      BY <3>3, <3>6, <3>8
    <3>10. ASSUME d.proxies = 1 PROVE xff = rq
      <4>1. n = 0
        BY <3>1, <3>10
      <4>2. p = << >>
        BY <3>3, <4>1
      <4> QED BY <3>6, <3>8, <4>2
    <3>11. Len(rq) >= 1
      BY <3>6
    <3> QED BY <3>7, <3>9, <3>10, <3>11
  <2> QED BY <2>1, <2>2
<1>8. Len(xff) \in Nat /\ (Len(xff) >= 1 => NthFromRight(xff, TrustedProxyHops) = xff[Len(xff)] /\ xff[Len(xff)] \in T)
  <2>1. Len(xff) \in Nat /\ Len(xff) + 1 - 1 = Len(xff)
    BY <1>7
  <2>2. Len(xff) >= 1 => Len(xff) \in 1..Len(xff)
    BY <2>1
  <2> QED BY <1>7, <2>1, <2>2 DEF NthFromRight, TrustedProxyHops
<1>9. ip \in T
  BY <1>2, <1>5, <1>8 DEF ClientIP, TrustedProxyHops
<1>10. ASSUME Documented(d, sent) PROVE ip = client
  <2>1. CASE ~d.trust /\ d.proxies = 0
    BY <1>2, <2>1 DEF ClientIP
  <2>2. CASE d.trust /\ d.proxies = 1 /\ d.sets = "xff"
    BY <1>2, <1>7, <1>8, <2>2 DEF ClientIP, TrustedProxyHops
  <2>3. CASE d.trust /\ d.proxies = 1 /\ d.sets = "real" /\ sent = << >>
    <3>1. xff = << >> /\ xrip = client
      BY <1>2, <2>3 DEF Forwarded
    <3>2. ~(Len(xff) >= 1)
      BY <3>1
    <3> QED BY <1>2, <1>3, <2>3, <3>1, <3>2 DEF ClientIP, TrustedProxyHops
  <2> QED BY <1>4, <1>10, <2>1, <2>2, <2>3 DEF Documented
<1>11. PICK key, due : /\ key = KeyOf(cookie, ip)
                       /\ due = IF cookie = Absent /\ Documented(d, sent) THEN {Ip(client)} ELSE Keys
  OBVIOUS
<1>12. key \in Keys /\ Ip(client) \in Keys
  BY <1>1, <1>9, <1>11 DEF KeyOf, Keys
<1>13. due \in SUBSET Keys /\ key \in due
  BY <1>10, <1>11, <1>12 DEF KeyOf
<1>14. KeyOfRequest(w) = [key |-> key, due |-> due]
  BY <1>0, <1>2, <1>11 DEF KeyOfRequest
<1> QED BY <1>12, <1>13, <1>14

(* A request that arrives reads the clock. *)
LEMMA ArrivalFits ==
    ASSUME HttpInv, NEW r \in Hits, NEW a \in Arrivals, Arrive(r, a)
    PROVE  HttpInv'
<1>1. PICK key, due : key = a.key /\ due = a.due /\ key \in Keys /\ due \in SUBSET Keys /\ key \in due
  <2>1. PICK q \in HttpRequests : a = KeyOfRequest(q)
    BY DEF Arrivals
  <2> QED BY <2>1, KeyFits
<1>2. PICK h : h = [at |-> "allow", key |-> key, due |-> due, now |-> rtime]
  OBVIOUS
<1>3. hit' = [hit EXCEPT ![r] = h] /\ UNCHANGED <<rtime, buckets, lastNow, admitted, overtaken>>
  BY <1>1, <1>2 DEF Arrive
<1>4. HitFits(h, rtime)
  BY <1>1, <1>2, RateAssumption DEF HitFits, HitRecords, HttpInv
<1>5. hit' = [q \in Hits |-> hit'[q]] /\ \A q \in Hits : HitFits(hit'[q], rtime)
  BY <1>3, <1>4 DEF HttpInv
<1> QED BY <1>3, <1>5 DEF HttpInv

(* Allow keeps every client's account, the one it admits and those it evicts. *)
LEMMA AllowFits ==
    ASSUME HttpInv, NEW r \in Hits, Allow(r)
    PROVE  HttpInv'
<1>0. rtime \in Nat /\ lastNow \in Nat /\ lastNow <= rtime /\ MaxStall \in Nat /\ Period \in Nat /\ Full \in Nat
  BY FullIsEnough, RateAssumption DEF HttpInv
<1>1. PICK k \in Keys, now \in Nat : /\ k = hit[r].key /\ now = hit[r].now
                                        /\ now <= rtime /\ rtime <= now + MaxStall
  <2>1. PICK h : h = hit[r] /\ HitFits(h, rtime) /\ h.at = "allow"
    BY DEF HttpInv, Allow
  <2>2. h \in HitRecords /\ h.now <= rtime /\ rtime <= h.now + MaxStall
    BY <2>1 DEF HitFits
  <2> QED BY <2>1, <2>2 DEF HitRecords
<1>2. PICK kept : kept = IF SweepDue(now) THEN Lasting(now) ELSE DOMAIN buckets
  OBVIOUS
<1>3. PICK b : b = IF k \in kept THEN buckets[k] ELSE [tokens |-> Full, last |-> now, lastSeen |-> now]
  OBVIOUS
<1>4. PICK level : level = Refill(b, Full, now)
  OBVIOUS
<1>5. PICK entry : entry = IF level >= Period THEN [tokens |-> level - Period, last |-> now, lastSeen |-> now]
                                              ELSE [b EXCEPT !.lastSeen = now]
  OBVIOUS
<1>6. PICK d \in Nat : d = Max({0, lastNow - now}) /\ d = IF now <= lastNow THEN lastNow - now ELSE 0
  <2>1. PICK z \in Int : z = lastNow - now
    BY <1>0
  <2>2. Max({0, z}) = IF z <= 0 THEN 0 ELSE z
    BY OfTwo
  <2> QED BY <1>0, <2>1, <2>2
<1>7. PICK m \in Nat : m = Max({lastNow, now}) /\ m = now + d
  <2>1. Max({lastNow, now}) = IF now <= lastNow THEN lastNow ELSE now
    BY <1>0, OfTwo
  <2> QED BY <1>0, <1>6, <2>1
<1>8. /\ buckets' = [j \in kept \cup {k} |-> IF j = k THEN entry ELSE buckets[j]]
      /\ lastNow' = m /\ hit' = [hit EXCEPT ![r] = NoHit] /\ rtime' = rtime
      /\ admitted' = IF level >= Period THEN [admitted EXCEPT ![k] = @ + 1] ELSE admitted
      /\ overtaken' = IF level >= Period THEN [overtaken EXCEPT ![k] = @ + d] ELSE overtaken
  BY <1>1, <1>2, <1>3, <1>4, <1>5, <1>6, <1>7 DEF Allow, Full
<1>9. kept \subseteq DOMAIN buckets /\ \A j \in DOMAIN buckets : j \notin kept => now - buckets[j].lastSeen >= BucketTTL
  <2>1. kept \subseteq DOMAIN buckets
    BY <1>2 DEF Lasting
  <2>2. ASSUME NEW j \in DOMAIN buckets, j \notin kept PROVE now - buckets[j].lastSeen >= BucketTTL
    <3>1. ~(now - buckets[j].lastSeen < BucketTTL)
      BY <1>2, <2>2 DEF Lasting
    <3>2. j \in Keys
      BY DEF HttpInv
    <3>3. ClientFits(j, buckets, admitted[j], overtaken[j], lastNow)
      BY <3>2 DEF HttpInv
    <3>4. buckets[j].lastSeen \in Nat
      BY <3>3 DEF ClientFits, BucketFits, HttpBuckets
    <3> QED BY <3>1, <3>4, RateAssumption
  <2> QED BY <2>1, <2>2
<1>10. ASSUME NEW j \in Keys
       PROVE  /\ admitted[j] \in Nat /\ overtaken[j] \in Nat
              /\ j \in DOMAIN buckets => BucketFits(buckets[j], admitted[j], overtaken[j], lastNow)
              /\ j \notin kept => admitted[j] * Period <= m + overtaken[j]
  <2>1. PICK a, o : a = admitted[j] /\ o = overtaken[j]
    OBVIOUS
  <2>2. ClientFits(j, buckets, a, o, lastNow)
    BY <2>1 DEF HttpInv
  <2>3. a \in Nat /\ o \in Nat /\ a * Period \in Nat
    BY <1>0, <2>2, OneMorePeriod DEF ClientFits
  <2>4. j \in DOMAIN buckets => BucketFits(buckets[j], a, o, lastNow)
    BY <2>2 DEF ClientFits
  <2>5. ASSUME j \notin kept PROVE a * Period <= m + o
    <3>1. CASE j \in DOMAIN buckets
      <4>1. PICK c : c = buckets[j] /\ BucketFits(c, a, o, lastNow) /\ now - c.lastSeen >= BucketTTL
        BY <1>9, <2>4, <2>5, <3>1
      <4>2. a * Period <= now + o
        BY <1>0, <2>3, <4>1, EvictedIsFull
      <4> QED BY <1>7, <2>3, <4>2
    <3>2. CASE j \notin DOMAIN buckets
      <4>1. a * Period <= lastNow + o
        BY <2>2, <3>2 DEF ClientFits
      <4>2. lastNow <= m
        BY <1>0, <1>6, <1>7
      <4> QED BY <1>0, <2>3, <4>1, <4>2
    <3> QED BY <3>1, <3>2
  <2> QED BY <2>1, <2>3, <2>4, <2>5
<1>11. PICK A, O : A = admitted[k] /\ O = overtaken[k]
  OBVIOUS
<1>12. A \in Nat /\ O \in Nat
  BY <1>10, <1>11
<1>13. /\ level >= Period => BucketFits(entry, A + 1, O + d, m)
       /\ ~(level >= Period) => BucketFits(entry, A, O, m)
  <2>1. CASE k \in kept
    <3>1. BucketFits(b, A, O, lastNow)
      BY <1>3, <1>9, <1>10, <1>11, <2>1
    <3>2. lastNow <= now + MaxStall
      BY <1>0, <1>1
    <3>3. /\ level \in Int
          /\ level >= Period => BucketFits([tokens |-> level - Period, last |-> now, lastSeen |-> now], A + 1, O + d, now + d)
          /\ level < Period => BucketFits([b EXCEPT !.lastSeen = now], A, O, now + d)
      BY <1>0, <1>4, <1>6, <1>12, <3>1, <3>2, KeptBucketFits
    <3>4. ~(level >= Period) => level < Period
      BY <1>0, <3>3
    <3> QED BY <1>5, <1>7, <3>3, <3>4
  <2>2. CASE k \notin kept
    <3>1. A * Period <= now + d + O
      BY <1>7, <1>10, <1>11, <2>2
    <3>2. level = Refill([tokens |-> Full, last |-> now, lastSeen |-> now], Full, now)
      BY <1>3, <1>4, <2>2
    <3>3. /\ level \in Int /\ level >= Period
          /\ BucketFits([tokens |-> level - Period, last |-> now, lastSeen |-> now], A + 1, O + d, now + d)
      BY <1>12, <3>1, <3>2, NewBucketFits
    <3> QED BY <1>5, <1>7, <3>3
  <2> QED BY <2>1, <2>2
<1>14. /\ admitted' = [j \in Keys |-> admitted'[j]] /\ overtaken' = [j \in Keys |-> overtaken'[j]]
       /\ \A j \in Keys : j # k => admitted'[j] = admitted[j] /\ overtaken'[j] = overtaken[j]
       /\ admitted'[k] = IF level >= Period THEN A + 1 ELSE A
       /\ overtaken'[k] = IF level >= Period THEN O + d ELSE O
  BY <1>8, <1>11 DEF HttpInv
<1>15. ASSUME NEW j \in Keys PROVE ClientFits(j, buckets', admitted'[j], overtaken'[j], m)
  <2>1. CASE j = k
    <3>1. k \in DOMAIN buckets' /\ buckets'[k] = entry
      BY <1>8
    <3>2. CASE level >= Period
      <4>1. admitted'[k] = A + 1 /\ overtaken'[k] = O + d /\ A + 1 \in Nat /\ O + d \in Nat
        BY <1>12, <1>14, <3>2
      <4>2. BucketFits(entry, A + 1, O + d, m)
        BY <1>13, <3>2
      <4> QED BY <2>1, <3>1, <4>1, <4>2 DEF ClientFits
    <3>3. CASE ~(level >= Period)
      <4>1. admitted'[k] = A /\ overtaken'[k] = O
        BY <1>14, <3>3
      <4>2. BucketFits(entry, A, O, m)
        BY <1>13, <3>3
      <4> QED BY <1>12, <2>1, <3>1, <4>1, <4>2 DEF ClientFits
    <3> QED BY <3>2, <3>3
  <2>2. CASE j # k /\ j \in kept
    <3>1. PICK c : c = buckets[j] /\ BucketFits(c, admitted[j], overtaken[j], lastNow)
      BY <1>9, <1>10, <2>2
    <3>2. lastNow <= m
      BY <1>0, <1>6, <1>7
    <3>3. BucketFits(c, admitted[j], overtaken[j], m)
      BY <1>0, <3>1, <3>2 DEF BucketFits, HttpBuckets
    <3>4. j \in DOMAIN buckets' /\ buckets'[j] = c
      BY <1>8, <2>2, <3>1
    <3> QED BY <1>10, <1>14, <2>2, <3>3, <3>4 DEF ClientFits
  <2>3. CASE j # k /\ j \notin kept
    <3>1. j \notin DOMAIN buckets'
      BY <1>8, <2>3
    <3> QED BY <1>10, <1>14, <2>3, <3>1 DEF ClientFits
  <2> QED BY <2>1, <2>2, <2>3
<1>16. hit' = [q \in Hits |-> hit'[q]] /\ \A q \in Hits : HitFits(hit'[q], rtime)
  <2>1. HitFits(NoHit, rtime)
    BY DEF HitFits, NoHit
  <2> QED BY <1>8, <2>1 DEF HttpInv
<1>17. DOMAIN buckets' \subseteq Keys
  BY <1>8, <1>9 DEF HttpInv
<1>18. m <= rtime
  <2>1. /\ rtime \in Nat /\ lastNow \in Nat /\ lastNow <= rtime /\ now \in Nat /\ now <= rtime
        /\ m = now + d /\ d = IF now <= lastNow THEN lastNow - now ELSE 0
    BY <1>0, <1>1, <1>6, <1>7
  <2> QED BY ONLY <2>1
<1> QED BY <1>0, <1>7, <1>8, <1>14, <1>15, <1>16, <1>17, <1>18 DEF HttpInv

(* Time passes for requests under way no longer than a stall. *)
LEMMA HttpTickFits ==
    ASSUME HttpInv, RateTick
    PROVE  HttpInv'
<1>1. rtime \in Nat /\ rtime' = rtime + 1 /\ UNCHANGED httpVars
  BY DEF RateTick, HttpInv
<1>2. ASSUME NEW r \in Hits PROVE HitFits(hit[r], rtime')
  <2>1. PICK h : h = hit[r] /\ HitFits(h, rtime)
    BY DEF HttpInv
  <2>2. CASE h.at # "idle"
    <3>1. h.now \in Pending
      BY <2>1, <2>2 DEF Pending
    <3>2. rtime - h.now < MaxStall
      BY <3>1 DEF RateTick
    <3> QED BY <1>1, <2>1, <2>2, <3>2, RateAssumption DEF HitFits, HitRecords
  <2>3. CASE h.at = "idle"
    BY <2>1, <2>3 DEF HitFits
  <2> QED BY <2>2, <2>3
<1>3. lastNow' \in Nat /\ lastNow' <= rtime'
  BY <1>1 DEF HttpInv, httpVars
<1> QED BY <1>1, <1>2, <1>3 DEF HttpInv, httpVars

(* However requests overlap, a key lets through no more than burst, rate and overtaking
   allow. *)
LEMMA HttpIsBounded ==
    ASSUME HttpInv
    PROVE  RateBounded /\ KeyIsClient
<1>1. ASSUME NEW k \in Keys PROVE admitted[k] * Period <= Burst * Period + rtime + overtaken[k]
  <2>1. PICK a, o : a = admitted[k] /\ o = overtaken[k] /\ ClientFits(k, buckets, a, o, lastNow)
    BY DEF HttpInv
  <2>2. /\ a \in Nat /\ o \in Nat /\ Full \in Nat /\ Period \in Nat /\ rtime \in Nat /\ lastNow \in Nat /\ lastNow <= rtime
    BY <2>1, FullIsEnough DEF ClientFits, HttpInv
  <2>3. PICK w \in Nat : w = a * Period
    BY <2>2, OneMorePeriod
  <2>4. CASE k \in DOMAIN buckets
    <3>1. PICK b : b = buckets[k] /\ BucketFits(b, a, o, lastNow)
      BY <2>1, <2>4 DEF ClientFits
    <3>2. PICK x \in Nat, l \in Nat : x = b.tokens /\ l = b.last
      BY <3>1 DEF BucketFits, HttpBuckets
    <3>3. w + x <= Full + l + o /\ l <= lastNow
      BY <2>3, <3>1, <3>2 DEF BucketFits
    <3>4. w <= Full + rtime + o
      BY <2>2, <3>3
    <3> QED BY <2>1, <2>3, <3>4 DEF Full
  <2>5. CASE k \notin DOMAIN buckets
    <3>1. w <= lastNow + o
      BY <2>1, <2>3, <2>5 DEF ClientFits
    <3>2. w <= Full + rtime + o
      BY <2>2, <3>1
    <3> QED BY <2>1, <2>3, <3>2 DEF Full
  <2> QED BY <2>4, <2>5
<1>2. KeyIsClient
  BY DEF KeyIsClient, HttpInv, HitFits
<1> QED BY <1>1, <1>2 DEF RateBounded

(* The greater of zero and a number. *)
LEMMA AtLeastZero ==
    ASSUME NEW z \in Int
    PROVE  Max({0, z}) \in Nat /\ z <= Max({0, z}) /\ (z <= 0 => Max({0, z}) = 0) /\ (0 <= z => Max({0, z}) = z)
<1>1. Max({0, z}) = IF z <= 0 THEN 0 ELSE z
  BY OfTwo
<1> QED BY <1>1

(* A step of one call leaves the others as they are, and counts it among those to be
   cancelled or not. *)
LEMMA OneCallMoves ==
    ASSUME ToolInv, NEW c \in ToolCalls, NEW k, call' = [call EXCEPT ![c] = k], CallFits(k, rtime)
    PROVE  /\ call' = [d \in ToolCalls |-> call'[d]] /\ \A d \in ToolCalls : CallFits(call'[d], rtime)
           /\ Cardinality(Cancelling) \in Nat
           /\ k.at = "cancel" /\ call[c].at # "cancel" => Cardinality(Cancelling') = Cardinality(Cancelling) + 1
           /\ k.at # "cancel" /\ call[c].at = "cancel" =>
                 Cardinality(Cancelling) >= 1 /\ Cardinality(Cancelling') = Cardinality(Cancelling) - 1
           /\ k.at # "cancel" /\ call[c].at # "cancel" => Cardinality(Cancelling') = Cardinality(Cancelling)
<1>1. call' = [d \in ToolCalls |-> IF d = c THEN k ELSE call[d]]
  BY DEF ToolInv
<1>2. call' = [d \in ToolCalls |-> call'[d]] /\ \A d \in ToolCalls : CallFits(call'[d], rtime)
  BY <1>1 DEF ToolInv
<1>3. PICK S : S = Cancelling
  OBVIOUS
<1>4. IsFiniteSet(S) /\ Cardinality(S) \in Nat
  <2>1. IsFiniteSet(ToolCalls) /\ S \in SUBSET ToolCalls
    BY <1>3, RateAssumption DEF Cancelling
  <2> QED BY <2>1, FS_Subset, FS_CardinalityType
<1>5. ASSUME k.at = "cancel", call[c].at # "cancel" PROVE Cardinality(Cancelling') = Cardinality(S) + 1
  <2>1. Cancelling' = S \cup {c} /\ c \notin S
    BY <1>1, <1>3, <1>5 DEF Cancelling
  <2> QED BY <1>4, <2>1, FS_AddElement
<1>6. ASSUME k.at # "cancel", call[c].at = "cancel"
      PROVE  Cardinality(S) >= 1 /\ Cardinality(Cancelling') = Cardinality(S) - 1
  <2>1. Cancelling' = S \ {c} /\ c \in S
    BY <1>1, <1>3, <1>6 DEF Cancelling
  <2>2. IsFiniteSet(S \ {c}) /\ Cardinality(S \ {c}) = Cardinality(S) - 1
    BY <1>4, <2>1, FS_RemoveElement
  <2>3. Cardinality(S \ {c}) \in Nat
    BY <2>2, FS_CardinalityType
  <2> QED BY <1>4, <2>1, <2>2, <2>3
<1>7. ASSUME k.at # "cancel", call[c].at # "cancel" PROVE Cancelling' = S
  BY <1>1, <1>3, <1>7 DEF Cancelling
<1> QED BY <1>2, <1>3, <1>4, <1>5, <1>6, <1>7

(* Reading the clock touches no bucket. *)
LEMMA ReadClockFits ==
    ASSUME ToolInv, NEW c \in ToolCalls, ReadClock(c)
    PROVE  ToolInv'
<1>1. PICK k : k = [at |-> "reserve", now |-> rtime, act |-> 0]
  OBVIOUS
<1>2. /\ call' = [call EXCEPT ![c] = k] /\ call[c].at = "idle"
      /\ UNCHANGED <<rtime, tool, toolAdmitted, toolOvertaken>>
  BY <1>1 DEF ReadClock
<1>3. CallFits(k, rtime) /\ k.at # "cancel"
  BY <1>1 DEF CallFits, CallRecords, ToolInv
<1>4. /\ call' = [d \in ToolCalls |-> call'[d]] /\ \A d \in ToolCalls : CallFits(call'[d], rtime)
      /\ Cardinality(Cancelling') = Cardinality(Cancelling)
  BY <1>2, <1>3, OneCallMoves
<1> QED BY <1>2, <1>4 DEF ToolInv, ToolCallsBounded

(* A reservation takes a token, for an admitted call or for one that will cancel. *)
LEMMA ReserveFits ==
    ASSUME ToolInv, NEW c \in ToolCalls, Reserve(c)
    PROVE  ToolInv'
<1>0. Period \in Nat /\ ToolFull \in Nat /\ rtime \in Nat
  BY FullIsEnough DEF ToolInv
<1>1. PICK now \in Nat : now = call[c].now /\ now <= rtime
  <2>1. CallFits(call[c], rtime) /\ call[c].at = "reserve"
    BY DEF ToolInv, Reserve
  <2> QED BY <2>1 DEF CallFits, CallRecords
<1>2. PICK x \in Int, l \in Nat : x = tool.tokens /\ l = tool.last /\ l <= rtime
  BY DEF ToolInv, ToolBuckets
<1>3. PICK due \in Int : due = x + (IF l <= now THEN now - l ELSE 0)
  <2>1. x + (IF l <= now THEN now - l ELSE 0) \in Int
    OBVIOUS
  <2> QED BY <2>1
<1>4. PICK level \in Int : level = Refill(tool, ToolFull, now) /\ level <= due
  <2>1. PICK b : b = tool
    OBVIOUS
  <2>2. Refill(b, ToolFull, now) = IF ToolFull <= due THEN ToolFull ELSE due
    BY <1>0, <1>2, <1>3, <2>1, RefillBounds
  <2> QED BY <1>0, <2>1, <2>2
<1>5. PICK left \in Int : left = level - Period
  BY <1>0
<1>6. PICK act \in Int : act = now + Max({0, -left})
  <2>1. PICK z \in Int : z = -left
    OBVIOUS
  <2> QED BY <2>1, AtLeastZero
<1>7. PICK o \in Nat : o = Max({0, l - now}) /\ l - now <= o
  <2>1. PICK z \in Int : z = l - now
    OBVIOUS
  <2> QED BY <2>1, AtLeastZero
<1>8. /\ tool' = [tokens |-> left, last |-> now, lastEvent |-> act] /\ toolOvertaken' = toolOvertaken + o
      /\ rtime' = rtime /\ call[c].at = "reserve"
      /\ left >= 0 => call' = [call EXCEPT ![c] = NoCall] /\ toolAdmitted' = toolAdmitted + 1
      /\ ~(left >= 0) => /\ call' = [call EXCEPT ![c] = [at |-> "cancel", now |-> now, act |-> act]]
                         /\ toolAdmitted' = toolAdmitted
  BY <1>1, <1>2, <1>4, <1>5, <1>6, <1>7 DEF Reserve, ToolFull
<1>9. /\ tool' \in ToolBuckets /\ tool'.tokens = left /\ tool'.last = now /\ tool'.last <= rtime'
  BY <1>1, <1>8 DEF ToolBuckets
<1>10. PICK A \in Nat, O \in Nat, n \in {Cardinality(Cancelling)} :
          A = toolAdmitted /\ O = toolOvertaken /\ n = Cardinality(Cancelling)
  BY DEF ToolInv
<1>11. n \in Nat
  <2>1. IsFiniteSet(ToolCalls) /\ Cancelling \in SUBSET ToolCalls
    BY RateAssumption DEF Cancelling
  <2> QED BY <1>10, <2>1, FS_Subset, FS_CardinalityType
<1>12. PICK w \in Nat, q \in Nat : /\ w = A * Period /\ (A + 1) * Period = w + Period
                                   /\ q = n * Period /\ (n + 1) * Period = q + Period
  <2>1. A * Period \in Nat /\ (A + 1) * Period = A * Period + Period
    BY <1>0, OneMorePeriod
  <2>2. n * Period \in Nat /\ (n + 1) * Period = n * Period + Period
    BY <1>0, <1>11, OneMorePeriod
  <2> QED BY <2>1, <2>2
<1>13. w + x + q <= ToolFull + l + O /\ w <= ToolFull + rtime + O
  BY <1>2, <1>10, <1>12 DEF ToolInv, ToolCallsBounded, ToolFull
<1>14. w + level + q <= ToolFull + now + (O + o)
  BY <1>0, <1>3, <1>4, <1>7, <1>13
<1>15. CASE left >= 0
  <2>1. call' = [call EXCEPT ![c] = NoCall] /\ toolAdmitted' = A + 1
    BY <1>8, <1>10, <1>15
  <2>2. CallFits(NoCall, rtime) /\ NoCall.at # "cancel" /\ call[c].at # "cancel"
    BY <1>8 DEF CallFits, NoCall
  <2>3. /\ call' = [d \in ToolCalls |-> call'[d]] /\ \A d \in ToolCalls : CallFits(call'[d], rtime)
        /\ Cardinality(Cancelling') = n
    BY <1>10, <2>1, <2>2, OneCallMoves
  <2>4. (A + 1) * Period + left + n * Period <= ToolFull + now + (O + o)
    BY <1>0, <1>5, <1>12, <1>14
  <2>5. (A + 1) * Period <= ToolFull + rtime + (O + o)
    BY <1>0, <1>1, <1>12, <1>15, <2>4
  <2>6. toolAdmitted' \in Nat /\ toolOvertaken' \in Nat /\ toolOvertaken' = O + o
    BY <1>8, <1>10, <2>1
  <2>7. ToolCallsBounded'
    BY <1>8, <2>1, <2>5, <2>6 DEF ToolCallsBounded, ToolFull
  <2>8. (toolAdmitted * Period + tool.tokens + Cardinality(Cancelling) * Period <= ToolFull + tool.last + toolOvertaken)'
    BY <1>9, <2>1, <2>3, <2>4, <2>6 DEF ToolFull
  <2> QED BY <1>0, <1>8, <1>9, <2>3, <2>6, <2>7, <2>8 DEF ToolInv
<1>16. CASE ~(left >= 0)
  <2>1. PICK k : k = [at |-> "cancel", now |-> now, act |-> act]
    OBVIOUS
  <2>2. call' = [call EXCEPT ![c] = k] /\ toolAdmitted' = A
    BY <1>8, <1>10, <1>16, <2>1
  <2>3. CallFits(k, rtime) /\ k.at = "cancel" /\ call[c].at # "cancel"
    BY <1>1, <1>8, <2>1 DEF CallFits, CallRecords
  <2>4. /\ call' = [d \in ToolCalls |-> call'[d]] /\ \A d \in ToolCalls : CallFits(call'[d], rtime)
        /\ Cardinality(Cancelling') = n + 1
    BY <1>10, <2>2, <2>3, OneCallMoves
  <2>5. A * Period + left + (n + 1) * Period <= ToolFull + now + (O + o)
    BY <1>0, <1>5, <1>12, <1>14
  <2>6. A * Period <= ToolFull + rtime + (O + o)
    BY <1>0, <1>12, <1>13
  <2>7. toolAdmitted' \in Nat /\ toolOvertaken' \in Nat /\ toolOvertaken' = O + o
    BY <1>8, <1>10, <2>2
  <2>8. ToolCallsBounded'
    BY <1>8, <2>2, <2>6, <2>7 DEF ToolCallsBounded, ToolFull
  <2>9. (toolAdmitted * Period + tool.tokens + Cardinality(Cancelling) * Period <= ToolFull + tool.last + toolOvertaken)'
    BY <1>9, <2>2, <2>4, <2>5, <2>7 DEF ToolFull
  <2> QED BY <1>0, <1>8, <1>9, <2>4, <2>7, <2>8, <2>9 DEF ToolInv
<1> QED BY <1>15, <1>16

(* A cancelled reservation gives back no more than it took. *)
LEMMA CancelFits ==
    ASSUME ToolInv, NEW c \in ToolCalls, Cancel(c)
    PROVE  ToolInv'
<1>0. Period \in Nat /\ ToolFull \in Nat /\ rtime \in Nat
  BY FullIsEnough DEF ToolInv
<1>1. PICK act \in Int : act = call[c].act
  <2>1. CallFits(call[c], rtime) /\ call[c].at = "cancel"
    BY DEF ToolInv, Cancel
  <2> QED BY <2>1 DEF CallFits, CallRecords
<1>2. PICK x \in Int, l \in Nat, e \in Int : x = tool.tokens /\ l = tool.last /\ l <= rtime /\ e = tool.lastEvent
  BY DEF ToolInv, ToolBuckets
<1>3. PICK due \in Int : due = x + (rtime - l)
  BY <1>0
<1>4. PICK refilled \in Int : refilled = Refill(tool, ToolFull, rtime) /\ refilled <= due
  <2>1. PICK b : b = tool
    OBVIOUS
  <2>2. PICK t \in Nat : t = rtime
    BY <1>0
  <2>3. Refill(b, ToolFull, t) = IF ToolFull <= x + (IF l <= t THEN t - l ELSE 0) THEN ToolFull
                                 ELSE x + (IF l <= t THEN t - l ELSE 0)
    BY <1>0, <1>2, <2>1, RefillBounds
  <2>4. x + (IF l <= t THEN t - l ELSE 0) = due
    BY <1>2, <1>3, <2>2
  <2>5. PICK f : f = Refill(b, ToolFull, t)
    OBVIOUS
  <2>6. f = IF ToolFull <= due THEN ToolFull ELSE due
    BY <2>3, <2>4, <2>5
  <2>7. f \in Int /\ f <= due
    BY <1>0, <2>6
  <2>8. f = Refill(tool, ToolFull, rtime)
    BY <2>1, <2>2, <2>5
  <2> QED BY <2>7, <2>8
<1>5. PICK back \in Int : back = Restored(c) /\ back = Period - (e - act)
  BY <1>0, <1>1, <1>2 DEF Restored
<1>6. PICK level \in Int : level = Min({ToolFull, refilled + back}) /\ level <= refilled + back
  <2>1. PICK z \in Int : z = refilled + back
    OBVIOUS
  <2>2. Min({ToolFull, z}) = IF ToolFull <= z THEN ToolFull ELSE z
    BY <1>0, OfTwo
  <2> QED BY <1>0, <2>1, <2>2
<1>7. PICK o \in Nat : o = Max({0, act - e}) /\ act - e <= o
  <2>1. PICK z \in Int : z = act - e
    OBVIOUS
  <2> QED BY <2>1, AtLeastZero
<1>8. PICK event \in Int : event = IF act = e /\ act - Period >= rtime THEN act - Period ELSE e
  <2>1. act - Period \in Int
    BY <1>0
  <2> QED BY <2>1
<1>9. /\ tool' = IF act < rtime \/ back <= 0 THEN tool ELSE [tokens |-> level, last |-> rtime, lastEvent |-> event]
      /\ call' = [call EXCEPT ![c] = NoCall] /\ call[c].at = "cancel"
      /\ toolOvertaken' = toolOvertaken + o /\ rtime' = rtime /\ toolAdmitted' = toolAdmitted
  BY <1>1, <1>2, <1>4, <1>5, <1>6, <1>7, <1>8 DEF Cancel, ToolFull
<1>10. PICK A \in Nat, O \in Nat, n \in {Cardinality(Cancelling)} :
          A = toolAdmitted /\ O = toolOvertaken /\ n = Cardinality(Cancelling)
  BY DEF ToolInv
<1>11. CallFits(NoCall, rtime) /\ NoCall.at # "cancel"
  BY DEF CallFits, NoCall
<1>12. /\ call' = [d \in ToolCalls |-> call'[d]] /\ \A d \in ToolCalls : CallFits(call'[d], rtime)
       /\ n \in Nat /\ n >= 1 /\ Cardinality(Cancelling') = n - 1
  BY <1>9, <1>10, <1>11, OneCallMoves
<1>13. PICK m \in Nat : m = n - 1 /\ n = m + 1
  BY <1>12
<1>14. PICK w \in Nat, q \in Nat : w = A * Period /\ q = m * Period /\ n * Period = q + Period
  BY <1>0, <1>13, OneMorePeriod
<1>15. w + x + (q + Period) <= ToolFull + l + O /\ w <= ToolFull + rtime + O
  BY <1>2, <1>10, <1>14 DEF ToolInv, ToolCallsBounded, ToolFull
<1>16. tool' \in ToolBuckets /\ tool'.last <= rtime /\ w + tool'.tokens + q <= ToolFull + tool'.last + (O + o)
  <2>1. CASE act < rtime \/ back <= 0
    <3>1. tool' = tool
      BY <1>9, <2>1
    <3>2. w + x + q <= ToolFull + l + (O + o)
      BY <1>0, <1>15
    <3> QED BY <1>2, <3>1, <3>2 DEF ToolInv
  <2>2. CASE ~(act < rtime \/ back <= 0)
    <3>1. tool' = [tokens |-> level, last |-> rtime, lastEvent |-> event]
      BY <1>9, <2>2
    <3>2. w + level + q <= ToolFull + rtime + (O + o)
      BY <1>0, <1>3, <1>4, <1>5, <1>6, <1>7, <1>15
    <3> QED BY <1>0, <3>1, <3>2 DEF ToolBuckets
  <2> QED BY <2>1, <2>2
<1>17. toolAdmitted' = A /\ toolOvertaken' = O + o /\ O + o \in Nat
  BY <1>9, <1>10
<1>18. w <= ToolFull + rtime + (O + o)
  BY <1>0, <1>15
<1>19. ToolCallsBounded'
  BY <1>9, <1>14, <1>17, <1>18 DEF ToolCallsBounded, ToolFull
<1>20. (toolAdmitted * Period + tool.tokens + Cardinality(Cancelling) * Period <= ToolFull + tool.last + toolOvertaken)'
  BY <1>12, <1>13, <1>14, <1>16, <1>17 DEF ToolFull
<1> QED BY <1>0, <1>9, <1>12, <1>16, <1>17, <1>19, <1>20 DEF ToolInv

(* Time only adds to what is due. *)
LEMMA ToolTickFits ==
    ASSUME ToolInv, RateTick
    PROVE  ToolInv'
<1>1. rtime \in Nat /\ rtime' = rtime + 1 /\ UNCHANGED toolVars
  BY DEF RateTick, ToolInv
<1>2. ASSUME NEW c \in ToolCalls PROVE CallFits(call[c], rtime')
  <2>1. PICK k : k = call[c] /\ CallFits(k, rtime)
    BY DEF ToolInv
  <2> QED BY <1>1, <2>1 DEF CallFits, CallRecords
<1>3. tool.last <= rtime'
  BY <1>1 DEF ToolInv, ToolBuckets
<1>4. ToolCallsBounded'
  <2>1. PICK w \in Nat : w = toolAdmitted * Period
    BY FullIsEnough, OneMorePeriod DEF ToolInv
  <2>2. ToolFull \in Nat /\ toolOvertaken \in Nat /\ w <= ToolFull + rtime + toolOvertaken
    BY <2>1, FullIsEnough DEF ToolInv, ToolCallsBounded, ToolFull
  <2>3. w <= ToolFull + rtime' + toolOvertaken
    BY <1>1, <2>2
  <2> QED BY <1>1, <2>1, <2>3 DEF ToolCallsBounded, ToolFull, toolVars
<1>5. Cancelling' = Cancelling
  BY <1>1 DEF Cancelling, toolVars
<1> QED BY <1>1, <1>2, <1>3, <1>4, <1>5 DEF ToolInv, toolVars

(* No limiter lets a key exceed burst and rate, for any number of requests and calls
   (Limiter.Allow, memoryLimiter.Allow), and the key of a request without a session
   cookie is its client's address in the topology ClientIP is written for. *)
THEOREM AdmissionsAreBounded == RateSpec => []AdmissionsBounded
<1>1. RateInit => HttpInv /\ ToolInv
  <2> SUFFICES ASSUME RateInit PROVE HttpInv /\ ToolInv
    OBVIOUS
  <2>0. Full \in Nat /\ Period \in Nat /\ ToolFull \in Nat
    BY FullIsEnough
  <2>1. ASSUME NEW k \in Keys PROVE ClientFits(k, buckets, admitted[k], overtaken[k], lastNow)
    <3>1. admitted[k] = 0 /\ overtaken[k] = 0 /\ lastNow = 0 /\ k \notin DOMAIN buckets
      BY DEF RateInit
    <3> QED BY <2>0, <3>1 DEF ClientFits
  <2>2. DOMAIN buckets = {}
    BY DEF RateInit
  <2>3. \A r \in Hits : HitFits(hit[r], rtime)
    BY DEF RateInit, HitFits, NoHit
  <2>4. HttpInv
    BY <2>1, <2>2, <2>3 DEF HttpInv, RateInit
  <2>5. \A c \in ToolCalls : CallFits(call[c], rtime) /\ call[c].at = "idle"
    BY DEF RateInit, CallFits, NoCall
  <2>6. Cancelling = {} /\ Cardinality({}) = 0
    BY <2>5, FS_EmptySet DEF Cancelling
  <2>7. tool \in ToolBuckets /\ tool.last = 0 /\ tool.tokens = ToolFull
    BY <2>0 DEF RateInit, ToolBuckets, ToolFull
  <2>8. /\ toolAdmitted = 0 /\ toolOvertaken = 0 /\ rtime = 0
    BY DEF RateInit
  <2>9. ToolCallsBounded
    BY <2>0, <2>8 DEF ToolCallsBounded, ToolFull
  <2>10. toolAdmitted * Period + tool.tokens + Cardinality(Cancelling) * Period <= ToolFull + tool.last + toolOvertaken
    BY <2>0, <2>6, <2>7, <2>8
  <2>11. call = [c \in ToolCalls |-> call[c]]
    BY DEF RateInit
  <2> QED BY <2>4, <2>5, <2>7, <2>8, <2>9, <2>10, <2>11 DEF ToolInv
<1>2. ASSUME HttpInv, ToolInv, [RateNext]_rateVars PROVE HttpInv' /\ ToolInv'
  <2>1. UNCHANGED <<rtime, toolVars>> => ToolInv'
    <3> SUFFICES ASSUME UNCHANGED <<rtime, toolVars>> PROVE ToolInv'
      OBVIOUS
    <3>1. Cancelling' = Cancelling
      BY DEF Cancelling, toolVars
    <3> QED BY <1>2, <3>1 DEF ToolInv, ToolCallsBounded, toolVars
  <2>2. UNCHANGED <<rtime, httpVars>> => HttpInv'
    BY <1>2 DEF HttpInv, httpVars
  <2>3. CASE RateTick
    BY <1>2, <2>3, HttpTickFits, ToolTickFits
  <2>4. ASSUME NEW r \in Hits, NEW a \in Arrivals, Arrive(r, a)
        PROVE  HttpInv' /\ ToolInv'
    <3>1. UNCHANGED <<rtime, toolVars>>
      BY <2>4 DEF Arrive
    <3> QED BY <1>2, <2>1, <2>4, <3>1, ArrivalFits
  <2>5. ASSUME NEW r \in Hits, Allow(r) PROVE HttpInv' /\ ToolInv'
    <3>1. UNCHANGED <<rtime, toolVars>>
      BY <2>5 DEF Allow
    <3> QED BY <1>2, <2>1, <2>5, <3>1, AllowFits
  <2>6. ASSUME NEW c \in ToolCalls, ReadClock(c) \/ Reserve(c) \/ Cancel(c) PROVE HttpInv' /\ ToolInv'
    <3>1. UNCHANGED <<rtime, httpVars>>
      BY <2>6 DEF ReadClock, Reserve, Cancel
    <3> QED BY <1>2, <2>2, <2>6, <3>1, ReadClockFits, ReserveFits, CancelFits
  <2>7. CASE UNCHANGED rateVars
    BY <2>1, <2>2, <2>7 DEF rateVars
  <2> QED BY <1>2, <2>3, <2>4, <2>5, <2>6, <2>7 DEF RateNext, HttpNext, ToolNext
<1>3. HttpInv /\ ToolInv => AdmissionsBounded
  BY HttpIsBounded DEF AdmissionsBounded, ToolInv
<1> QED BY <1>1, <1>2, <1>3, PTL DEF RateSpec

-----------------------------------------------------------------------------
(* Names of hosts (HostResolve) *)

(* Sequences that agree everywhere are the same. *)
LEMMA SameSequence ==
    ASSUME NEW T, NEW s \in Seq(T), NEW t \in Seq(T), Len(s) = Len(t), \A i \in 1..Len(s) : s[i] = t[i]
    PROVE  s = t
OBVIOUS

(* g is s with q behind it. *)
Together(g, s, q) ==
    /\ Len(s) \in Nat /\ Len(q) \in Nat /\ Len(g) = Len(s) + Len(q)
    /\ \A i \in 1..Len(s) : g[i] = s[i]
    /\ \A i \in 1..Len(q) : g[Len(s) + i] = q[i]

(* Where the elements of two sequences put together come from. *)
LEMMA PutTogether ==
    ASSUME NEW T, NEW s \in Seq(T), NEW q \in Seq(T), NEW g, g = s \o q
    PROVE  g \in Seq(T) /\ Together(g, s, q)
<1>1. g \in Seq(T) /\ Len(s) \in Nat /\ Len(q) \in Nat /\ Len(g) = Len(s) + Len(q)
  OBVIOUS
<1>2. \A i \in 1..Len(s) : g[i] = s[i]
  OBVIOUS
<1>3. ASSUME NEW i \in 1..Len(q) PROVE g[Len(s) + i] = q[i]
  <2>1. PICK j \in 1..(Len(s) + Len(q)) : j = Len(s) + i
    BY <1>1
  <2>2. g[j] = q[j - Len(s)]
    BY <1>1, <2>1
  <2>3. j - Len(s) = i
    BY <1>1, <2>1
  <2> QED BY <2>1, <2>2, <2>3
<1> QED BY <1>1, <1>2, <1>3 DEF Together

(* The name of a preview. *)
Joined(h, b) == h \o <<"-", "-">> \o b

(* s is h, two hyphens and b. *)
JoinOf(s, h, b) ==
    /\ Len(h) \in Nat /\ Len(b) \in Nat /\ Len(s) = Len(h) + 2 + Len(b)
    /\ \A i \in 1..Len(h) : s[i] = h[i]
    /\ s[Len(h) + 1] = "-" /\ s[Len(h) + 2] = "-"
    /\ \A i \in 1..Len(b) : s[Len(h) + 2 + i] = b[i]

(* Where the symbols of a preview's name come from. *)
LEMMA JoinedName ==
    ASSUME NEW T, NEW h \in Seq(T), NEW b \in Seq(T), "-" \in T,
           NEW s, s = Joined(h, b)
    PROVE  s \in Seq(T) /\ JoinOf(s, h, b)
<1>1. PICK d : d = <<"-", "-">>
  OBVIOUS
<1>2. d \in Seq(T) /\ Len(d) = 2 /\ d[1] = "-" /\ d[2] = "-"
  BY <1>1
<1>3. PICK g : g = h \o d
  OBVIOUS
<1>4. /\ g \in Seq(T) /\ Len(h) \in Nat /\ Len(g) = Len(h) + Len(d)
      /\ \A i \in 1..Len(h) : g[i] = h[i]
      /\ \A i \in 1..Len(d) : g[Len(h) + i] = d[i]
  <2>1. g \in Seq(T) /\ Together(g, h, d)
    BY <1>2, <1>3, PutTogether
  <2> QED BY <2>1 DEF Together
<1>5. PICK n \in Nat : n = Len(h)
  BY <1>4
<1>6. Len(g) = n + 2 /\ g[n + 1] = "-" /\ g[n + 2] = "-"
  <2>1. 1 \in 1..Len(d) /\ 2 \in 1..Len(d)
    BY <1>2
  <2> QED BY <1>2, <1>4, <1>5, <2>1
<1>7. s = g \o b
  BY <1>1, <1>3 DEF Joined
<1>8. /\ s \in Seq(T) /\ Len(b) \in Nat /\ Len(s) = Len(g) + Len(b)
      /\ \A i \in 1..Len(g) : s[i] = g[i]
      /\ \A i \in 1..Len(b) : s[Len(g) + i] = b[i]
  <2>1. s \in Seq(T) /\ Together(s, g, b)
    BY <1>4, <1>7, PutTogether
  <2> QED BY <2>1 DEF Together
<1>9. n + 1 \in 1..Len(g) /\ n + 2 \in 1..Len(g) /\ \A i \in 1..n : i \in 1..Len(g)
  BY <1>6
<1>10. /\ \A i \in 1..n : s[i] = h[i]
       /\ s[n + 1] = "-" /\ s[n + 2] = "-"
  BY <1>4, <1>5, <1>6, <1>8, <1>9
<1>11. /\ Len(s) = n + 2 + Len(b)
       /\ \A i \in 1..Len(b) : s[n + 2 + i] = b[i]
  BY <1>6, <1>8
<1> QED BY <1>5, <1>8, <1>10, <1>11 DEF JoinOf

(* Folding case keeps a name's length. *)
LEMMA LowerIsName ==
    ASSUME NEW s \in Seq(Symbols)
    PROVE  Lower(s) \in Seq(Symbols) /\ Len(Lower(s)) = Len(s)
BY DEF Lower, Symbols, Alnum

(* splitLabel loses nothing: what it takes apart is the name of what it found. *)
LEMMA SplitJoins ==
    ASSUME NEW s \in Seq(Symbols), NEW p, p = SplitLabel(s), p.preview => p.branch # PublishedBranch
    PROVE  s = PreviewSubdomain(p.handle, p.branch)
<1>1. CASE DoubleHyphens(s) = {}
  BY <1>1 DEF SplitLabel, PreviewSubdomain
<1>2. CASE DoubleHyphens(s) # {}
  <2>1. PICK i : i = CHOOSE j \in DoubleHyphens(s) : \A k \in DoubleHyphens(s) : j <= k
    OBVIOUS
  <2>2. p = [handle |-> SubSeq(s, 1, i - 1), branch |-> SubSeq(s, i + 2, Len(s)), preview |-> TRUE]
    BY <1>2, <2>1 DEF SplitLabel
  <2>3. i \in DoubleHyphens(s)
    <3>1. DoubleHyphens(s) \in SUBSET Nat
      BY DEF DoubleHyphens
    <3>2. \E j \in DoubleHyphens(s) : \A k \in DoubleHyphens(s) : j <= k
      BY <1>2, <3>1, LeastNumber
    <3> QED BY <2>1, <3>2
  <2>4. PICK l \in Nat : l = Len(s)
    OBVIOUS
  <2>5. i \in 1..(l - 1) /\ s[i] = "-" /\ s[i + 1] = "-"
    BY <2>3, <2>4 DEF DoubleHyphens
  <2>6. PICK h, b : h = SubSeq(s, 1, i - 1) /\ b = SubSeq(s, i + 2, l)
    OBVIOUS
  <2>7. PICK n \in Nat, m \in Nat : n = i - 1 /\ m = l - (i + 1)
    <3>1. i - 1 \in Nat /\ l - (i + 1) \in Nat
      BY <2>5
    <3> QED BY <3>1
  <2>8. h \in Seq(Symbols) /\ Len(h) = n /\ \A j \in 1..n : h[j] = s[j]
    BY <2>4, <2>5, <2>6, <2>7
  <2>9. b \in Seq(Symbols) /\ Len(b) = m /\ \A j \in 1..m : b[j] = s[i + 1 + j]
    BY <2>4, <2>5, <2>6, <2>7
  <2>10. PICK t : t = Joined(h, b)
    OBVIOUS
  <2>11. "-" \in Symbols
    BY DEF Symbols
  <2>12. /\ t \in Seq(Symbols) /\ Len(t) = n + 2 + m
         /\ \A j \in 1..n : t[j] = h[j]
         /\ t[n + 1] = "-" /\ t[n + 2] = "-"
         /\ \A j \in 1..m : t[n + 2 + j] = b[j]
    <3>1. t \in Seq(Symbols) /\ JoinOf(t, h, b)
      BY <2>8, <2>9, <2>10, <2>11, JoinedName
    <3> QED BY <2>8, <2>9, <3>1 DEF JoinOf
  <2>13. ASSUME NEW j \in 1..l PROVE s[j] = t[j]
    <3>1. CASE j \in 1..n
      BY <2>8, <2>12, <3>1
    <3>2. CASE j = n + 1 \/ j = n + 2
      BY <2>5, <2>7, <2>12, <3>2
    <3>3. CASE j > n + 2
      <4>1. PICK q \in 1..m : j = n + 2 + q /\ j = i + 1 + q
        <5>1. j - (n + 2) \in 1..m /\ j = n + 2 + (j - (n + 2)) /\ j = i + 1 + (j - (n + 2))
          BY <2>5, <2>7, <3>3
        <5> QED BY <5>1
      <4> QED BY <2>9, <2>12, <4>1
    <3> QED BY <2>7, <3>1, <3>2, <3>3
  <2>14. Len(t) = l
    BY <2>5, <2>7, <2>12
  <2>15. s = t
    BY <2>4, <2>12, <2>13, <2>14, SameSequence
  <2>16. p.handle = h /\ p.branch = b /\ p.preview
    <3>1. p = [handle |-> h, branch |-> b, preview |-> TRUE]
      BY <2>2, <2>4, <2>6
    <3>2. p.handle = h /\ p.branch = b /\ p.preview = TRUE
      BY <3>1
    <3> QED BY <3>2
  <2>17. b # PublishedBranch
    BY <2>16
  <2> QED BY <2>10, <2>15, <2>16, <2>17 DEF PreviewSubdomain, Joined
<1> QED BY <1>1, <1>2

(* A name that leads to a site is the name of what is served. *)
LEMMA ProjectIsNamed ==
    ASSUME NEW h, h.name \in Seq(Symbols), NEW t, t = ClassifyHost(h), t.class = "project"
    PROVE  Lower(h.name) = PreviewSubdomain(t.handle, t.branch)
<1>1. PICK s : s = Lower(h.name)
  OBVIOUS
<1>2. s \in Seq(Symbols)
  BY <1>1, LowerIsName
<1>3. t = ResolveProjectLabel(s)
  BY <1>1 DEF ClassifyHost, Refused
<1>4. PICK p : p = SplitLabel(s)
  OBVIOUS
<1>5. t.handle = p.handle /\ t.branch = p.branch /\ (p.preview => p.branch # PublishedBranch)
  <2>1. PICK bad \in BOOLEAN : bad <=> (p.preview /\ (~Addressable(p.branch) \/ ~ValidateBranch(p.branch)
                                          \/ Len(p.handle) + 2 + Len(p.branch) > MaxLabel))
    OBVIOUS
  <2>2. PICK c \in {"404", "400"} : c = IF p.handle \in Reserved THEN "404" ELSE "400"
    OBVIOUS
  <2>3. t = IF ~ValidateHandle(p.handle) THEN [class |-> c, handle |-> << >>, branch |-> << >>]
            ELSE IF bad THEN [class |-> "400", handle |-> << >>, branch |-> << >>]
            ELSE [class |-> "project", handle |-> p.handle, branch |-> p.branch]
    BY <1>3, <1>4, <2>1, <2>2 DEF ResolveProjectLabel, Refused
  <2>4. ValidateHandle(p.handle) /\ ~bad
    BY <2>2, <2>3
  <2>5. t = [class |-> "project", handle |-> p.handle, branch |-> p.branch]
    BY <2>3, <2>4
  <2>6. p.preview => Addressable(p.branch)
    BY <2>1, <2>4
  <2>7. t.handle = p.handle /\ t.branch = p.branch
    BY <2>5
  <2> QED BY <2>6, <2>7 DEF Addressable
<1> QED BY <1>1, <1>2, <1>4, <1>5, SplitJoins

(* A preview's name splits where it was joined: neither a label's inside nor its end makes
   an earlier double hyphen. *)
LEMMA SplitsWhereJoined ==
    ASSUME NEW h \in Seq(Symbols), NEW b \in Seq(Symbols), LabelOK(h), NEW s, s = Joined(h, b)
    PROVE  /\ s \in Seq(Symbols) /\ DoubleHyphens(s) # {} /\ Len(s) = Len(h) + 2 + Len(b)
           /\ SplitLabel(s) = [handle |-> h, branch |-> b, preview |-> TRUE]
<1>0. s \in Seq(Symbols) /\ JoinOf(s, h, b)
  <2>1. "-" \in Symbols
    BY DEF Symbols
  <2> QED BY <2>1, JoinedName
<1>1. PICK n \in Nat, m \in Nat : n = Len(h) /\ m = Len(b)
  BY <1>0 DEF JoinOf
<1>2. /\ Len(s) = n + 2 + m /\ \A i \in 1..n : s[i] = h[i]
      /\ s[n + 1] = "-" /\ s[n + 2] = "-" /\ \A i \in 1..m : s[n + 2 + i] = b[i]
  BY <1>0, <1>1 DEF JoinOf
<1>3. n >= 1 /\ h[n] \in Alnum /\ \A i \in 1..(n - 1) : ~(h[i] = "-" /\ h[i + 1] = "-")
  <2>1. Len(h) \in 1..MaxLabel /\ DoubleHyphens(h) = {} /\ h[Len(h)] \in Alnum
    BY DEF LabelOK
  <2>2. Len(h) >= 1 /\ h[n] \in Alnum
    BY <1>1, <2>1, ResolveAssumption
  <2>3. ASSUME NEW i \in 1..(n - 1), h[i] = "-", h[i + 1] = "-" PROVE FALSE
    <3>1. i \in 1..(Len(h) - 1)
      BY <1>1
    <3>2. i \in DoubleHyphens(h)
      BY <2>3, <3>1 DEF DoubleHyphens
    <3> QED BY <2>1, <3>2
  <2> QED BY <1>1, <2>2, <2>3
<1>4. PICK D : D = DoubleHyphens(s)
  OBVIOUS
<1>5. n + 1 \in D /\ D \in SUBSET Nat
  <2>1. n + 1 \in 1..(Len(s) - 1) /\ (n + 1) + 1 = n + 2
    BY <1>2
  <2> QED BY <1>2, <1>4, <2>1 DEF DoubleHyphens
<1>6. ASSUME NEW j \in D PROVE n + 1 <= j
  <2>1. j \in Nat /\ j >= 1 /\ s[j] = "-" /\ s[j + 1] = "-"
    BY <1>0, <1>2, <1>4 DEF DoubleHyphens
  <2>2. CASE j < n
    <3>1. j \in 1..(n - 1) /\ j \in 1..n /\ j + 1 \in 1..n
      BY <2>1, <2>2
    <3> QED BY <1>2, <1>3, <2>1, <3>1
  <2>3. CASE j = n
    <3>1. h[n] = "-"
      BY <1>2, <1>3, <2>1, <2>3
    <3>2. "-" \notin Alnum
      BY DEF Alnum
    <3> QED BY <1>3, <3>1, <3>2
  <2> QED BY <2>1, <2>2, <2>3
<1>7. PICK i : i = CHOOSE j \in D : \A k \in D : j <= k
  OBVIOUS
<1>8. i = n + 1
  <2>1. \E j \in D : \A k \in D : j <= k
    BY <1>5, <1>6
  <2>2. i \in D /\ \A k \in D : i <= k
    BY <1>7, <2>1
  <2>3. i \in Nat /\ i <= n + 1 /\ n + 1 <= i
    BY <1>5, <1>6, <2>2
  <2> QED BY <2>3
<1>9. SubSeq(s, 1, i - 1) = h
  <2>1. PICK g : g = SubSeq(s, 1, n)
    OBVIOUS
  <2>2. g \in Seq(Symbols) /\ Len(g) = n /\ \A j \in 1..n : g[j] = s[j]
    BY <1>0, <1>2, <2>1
  <2>3. \A j \in 1..Len(g) : g[j] = h[j]
    BY <1>2, <2>2
  <2>4. g = h
    BY <1>1, <2>2, <2>3, SameSequence
  <2>5. i - 1 = n
    BY <1>8
  <2> QED BY <2>1, <2>4, <2>5
<1>10. SubSeq(s, i + 2, Len(s)) = b
  <2>1. PICK g : g = SubSeq(s, n + 3, n + 2 + m)
    OBVIOUS
  <2>2. g \in Seq(Symbols) /\ Len(g) = m /\ \A j \in 1..m : g[j] = s[n + 2 + j]
    BY <1>0, <1>2, <2>1
  <2>3. \A j \in 1..Len(g) : g[j] = b[j]
    BY <1>2, <2>2
  <2>4. g = b
    BY <1>1, <2>2, <2>3, SameSequence
  <2>5. i + 2 = n + 3
    BY <1>8
  <2> QED BY <1>2, <2>1, <2>4, <2>5
<1>11. DoubleHyphens(s) # {}
  BY <1>4, <1>5
<1>12. SplitLabel(s) = [handle |-> SubSeq(s, 1, i - 1), branch |-> SubSeq(s, i + 2, Len(s)), preview |-> TRUE]
  BY <1>4, <1>7, <1>11 DEF SplitLabel
<1> QED BY <1>0, <1>1, <1>2, <1>9, <1>10, <1>11, <1>12

(* A preview's name that fits into a label leads to that branch of that site. *)
LEMMA PreviewResolves ==
    ASSUME NEW h \in Seq(Symbols), NEW b \in Seq(Symbols), ValidateHandle(h), ValidateBranch(b), b # PublishedBranch,
           NEW k, k = [under |-> TRUE, name |-> Joined(h, b)], Len(k.name) <= MaxLabel
    PROVE  ClassifyHost(k) = [class |-> "project", handle |-> h, branch |-> b]
<1>1. PICK s : s = Joined(h, b)
  OBVIOUS
<1>2. LabelOK(h) /\ LabelOK(b)
  BY DEF ValidateHandle, ValidateBranch
<1>3. /\ s \in Seq(Symbols) /\ DoubleHyphens(s) # {} /\ Len(s) = Len(h) + 2 + Len(b)
      /\ SplitLabel(s) = [handle |-> h, branch |-> b, preview |-> TRUE]
  BY <1>1, <1>2, SplitsWhereJoined
<1>4. PICK L : L = Alnum \cup {"-"}
  OBVIOUS
<1>5. h \in Seq(L) /\ b \in Seq(L)
  <2>1. ASSUME NEW g \in Seq(Symbols), LabelOK(g) PROVE g \in Seq(L)
    BY <1>4, <2>1 DEF LabelOK
  <2> QED BY <1>2, <2>1
<1>6. s \in Seq(L)
  BY <1>1, <1>4, <1>5, JoinedName
<1>7. \A i \in 1..Len(s) : s[i] # "A" /\ s[i] # "."
  <2>1. \A i \in 1..Len(s) : s[i] \in L
    BY <1>6, ElementOf
  <2>2. "A" \notin L /\ "." \notin L
    BY <1>4 DEF Alnum
  <2> QED BY <2>1, <2>2
<1>8. Lower(s) = s
  <2>1. PICK g : g = Lower(s)
    OBVIOUS
  <2>2. g \in Seq(Symbols) /\ Len(g) = Len(s)
    BY <1>3, <2>1, LowerIsName
  <2>3. \A i \in 1..Len(s) : g[i] = s[i]
    BY <1>7, <2>1 DEF Lower
  <2>4. g = s
    BY <1>3, <2>2, <2>3, SameSequence
  <2> QED BY <2>1, <2>4
<1>9. s # << >> /\ ~Contains(s, ".") /\ s # ControlLabel
  <2>1. s # << >>
    BY <1>3 DEF DoubleHyphens
  <2>2. DoubleHyphens(ControlLabel) = {}
    BY ResolveAssumption DEF DoubleHyphens
  <2> QED BY <1>3, <1>7, <2>1, <2>2 DEF Contains
<1>10. k.under = TRUE /\ k.name = s
  BY <1>1
<1>11. ClassifyHost(k) = ResolveProjectLabel(s)
  BY <1>8, <1>9, <1>10 DEF ClassifyHost
<1>12. PICK p : p = SplitLabel(s)
  OBVIOUS
<1>13. p.handle = h /\ p.branch = b
  BY <1>3, <1>12
<1>14. Len(h) + 2 + Len(b) <= MaxLabel
  BY <1>3, <1>10
<1>15. ~(Len(h) + 2 + Len(b) > MaxLabel)
  <2>1. Len(h) + 2 + Len(b) \in Nat /\ MaxLabel \in Nat
    BY ResolveAssumption
  <2> QED BY <1>14, <2>1
<1>16. ResolveProjectLabel(s) = [class |-> "project", handle |-> p.handle, branch |-> p.branch]
  BY <1>12, <1>13, <1>15 DEF ResolveProjectLabel, Addressable
<1> QED BY <1>11, <1>13, <1>16

(* The resolver and the control plane agree on names in both directions, whatever the
   length of the names asked for and the limit on a label: every site and branch has one
   name, and the preview URL of a handle and a branch within the limit, if the two fit
   into one label, opens that branch (Resolve, splitLabel, previewSubdomain). *)
THEOREM NamesDoAgree == ResolveSpec => []NamesAgree
<1>1. ResolveInit => NamesAgree
  BY DEF ResolveInit, NamesAgree, OneNamePerTarget, PreviewOpens, Refused
<1>2. ASSUME NamesAgree, [ResolveNext]_resolveVars PROVE NamesAgree'
  <2>1. CASE Done
    BY <2>1 DEF Done, NamesAgree, OneNamePerTarget, PreviewOpens, Refused
  <2>2. ASSUME NEW h \in Hosts, Ask(h) PROVE NamesAgree'
    <3>1. h.name \in Seq(Symbols)
      BY DEF Hosts, NamesOf
    <3>2. asked' = h /\ target' = ClassifyHost(h) /\ meant' = << >>
      BY <2>2 DEF Ask, Resolve
    <3>3. PICK t : t = ClassifyHost(h)
      OBVIOUS
    <3>4. t.class = "project" => Lower(h.name) = PreviewSubdomain(t.handle, t.branch)
      BY <3>1, <3>3, ProjectIsNamed
    <3>5. OneNamePerTarget'
      BY <3>2, <3>3, <3>4 DEF OneNamePerTarget, Lower, PreviewSubdomain
    <3>6. PreviewOpens'
      BY <3>2 DEF PreviewOpens
    <3> QED BY <3>5, <3>6 DEF NamesAgree
  <2>3. ASSUME NEW h \in NamesOf(Alnum \cup {"-"}, MaxLabel), NEW b \in NamesOf(Alnum \cup {"-"}, MaxLabel), OpenPreview(h, b)
        PROVE  NamesAgree'
    <3>1. h \in Seq(Symbols) /\ b \in Seq(Symbols)
      <4>1. ASSUME NEW L, L \subseteq Symbols, NEW g \in NamesOf(L, MaxLabel) PROVE g \in Seq(Symbols)
        <5>1. PICK k \in 0..MaxLabel : g \in [1..k -> L]
          BY DEF NamesOf
        <5>2. k \in Nat /\ g \in [1..k -> Symbols]
          BY <4>1, <5>1, ResolveAssumption
        <5> QED BY <5>2
      <4>2. Alnum \cup {"-"} \subseteq Symbols
        BY DEF Symbols
      <4> QED BY <4>1, <4>2
    <3>2. ValidateHandle(h) /\ ValidateBranch(b) /\ b # PublishedBranch
      BY <2>3 DEF OpenPreview
    <3>3. PICK k : k = [under |-> TRUE, name |-> Joined(h, b)]
      OBVIOUS
    <3>4. asked' = k /\ target' = ClassifyHost(k) /\ meant' = <<h, b>>
      BY <2>3, <3>2, <3>3 DEF OpenPreview, Resolve, PreviewSubdomain, Joined
    <3>5. k.name \in Seq(Symbols)
      <4>1. Joined(h, b) \in Seq(Symbols)
        BY <3>1, <3>2, SplitsWhereJoined DEF ValidateHandle
      <4> QED BY <3>3, <4>1
    <3>6. PICK t : t = ClassifyHost(k)
      OBVIOUS
    <3>7. t.class = "project" => Lower(k.name) = PreviewSubdomain(t.handle, t.branch)
      BY <3>5, <3>6, ProjectIsNamed
    <3>8. OneNamePerTarget'
      BY <3>4, <3>6, <3>7 DEF OneNamePerTarget, Lower, PreviewSubdomain
    <3>9. Len(k.name) <= MaxLabel => t = [class |-> "project", handle |-> h, branch |-> b]
      BY <3>1, <3>2, <3>3, <3>6, PreviewResolves
    <3>10. meant'[1] = h /\ meant'[2] = b
      BY <3>4
    <3>11. PreviewOpens'
      BY <3>4, <3>6, <3>9, <3>10 DEF PreviewOpens
    <3> QED BY <3>8, <3>11 DEF NamesAgree
  <2>4. CASE UNCHANGED resolveVars
    BY <1>2, <2>4 DEF resolveVars, NamesAgree, OneNamePerTarget, PreviewOpens
  <2> QED BY <1>2, <2>1, <2>2, <2>3, <2>4 DEF ResolveNext
<1> QED BY <1>1, <1>2, PTL DEF ResolveSpec

-----------------------------------------------------------------------------
(* Archive imports (ZipImport) *)

ZipFiles == [path : ZipPaths, size : 0..MaxEntryBytes]
UploadRecs ==
    [pc : {"idle", "validate", "ready", "writing", "failed", "acknowledged"},
     files : Seq(ZipFiles), held : Nat, base : Nat, next : Nat]

Sizes(files) == [i \in DOMAIN files |-> files[i].size]
SizeSum(files) == CHOOSE g : SumRule(g, Sizes(files), DOMAIN files)
(* The bytes of the entries from the i-th on. *)
RestBytes(files, i) == SizeSum(files)[i..Len(files)]

(* What the first k entries leave. *)
ContentsUpto(files, k) ==
    [p \in {files[i].path : i \in 1..k} |-> files[Max({i \in 1..k : files[i].path = p})].size]

TreeOK(t) == IsFiniteSet(DOMAIN t) /\ t \in [DOMAIN t -> Nat]

(* What an upload holds is what it read, within the limit until an entry is refused;
   while it writes, the tree is what its entries so far leave, and object store and
   archive together fit the quota. *)
UploadFits(r, t, o) ==
    /\ r \in UploadRecs /\ r.held <= MaxTotalBytes + MaxEntryBytes
    /\ r.pc \in {"validate", "ready", "writing"} => r.held <= MaxTotalBytes /\ ZipEntriesBytes(r.files) = r.held
    /\ r.pc = "idle" => r = NoUpload
    /\ r.pc = "writing" =>
          /\ r.next \in 1..(Len(r.files) + 1) /\ o + r.held <= Quota
          /\ t = ContentsUpto(r.files, r.next - 1)
          /\ BytesOf(t) + RestBytes(r.files, r.next) <= r.held

ZipInv ==
    /\ upload \in [Uploads -> UploadRecs]
    /\ TreeOK(tree) /\ tip \in Nat /\ objects \in Nat
    /\ \A u \in Uploads : UploadFits(upload[u], tree, objects) /\ (upload[u].pc = "writing" => section = u)
    /\ QuotaOverrunBounded

(* What repoDiskSize adds up is the sum over the tree. *)
LEMMA BytesAreTotal == ASSUME NEW t, TreeOK(t) PROVE IsTotal(BytesOf(t), t)
<1>1. PICK D : D = DOMAIN t /\ IsFiniteSet(D) /\ t \in [D -> Nat]
  BY DEF TreeOK
<1>2. PICK g : SumRule(g, t, D)
  BY <1>1, SumExists
<1> DEFINE c == CHOOSE h : h = [s \in SUBSET D |-> IF s = {} THEN 0 ELSE t[CHOOSE x \in s : TRUE] + h[s \ {CHOOSE x \in s : TRUE}]]
<1>3. BytesOf(t) = c[D]
  BY <1>1 DEF BytesOf, FoldFunction, FoldFunctionOnSet, MapThenFoldSet
<1>4. SumRule(c, t, D)
  BY <1>2 DEF SumRule, RuleAt, AnyOf
<1> HIDE DEF c
<1> QED BY <1>1, <1>3, <1>4 DEF IsTotal

(* An empty worktree has no bytes. *)
LEMMA EmptyTree == TreeOK(<< >>) /\ BytesOf(<< >>) = 0
<1>1. DOMAIN << >> = {}
  OBVIOUS
<1>2. TreeOK(<< >>)
  <2>1. IsFiniteSet(DOMAIN << >>)
    BY <1>1, FS_EmptySet
  <2>2. << >> \in [DOMAIN << >> -> Nat]
    BY <1>1
  <2> QED BY <2>1, <2>2 DEF TreeOK
<1> QED BY <1>1, <1>2, BytesAreTotal, TotalOfNothing

(* Writing one file adds at most its size. *)
LEMMA BytesGrow ==
    ASSUME NEW t, TreeOK(t), NEW p, NEW z \in Nat, NEW v, v = Put(t, p, z)
    PROVE  TreeOK(v) /\ BytesOf(t) \in Nat /\ BytesOf(v) \in Nat /\ BytesOf(v) <= BytesOf(t) + z
<1>1. PICK D : D = DOMAIN t /\ IsFiniteSet(D) /\ t \in [D -> Nat]
  BY DEF TreeOK
<1>2. v \in [D \cup {p} -> Nat] /\ v[p] = z /\ \A y \in D \ {p} : v[y] = t[y]
  BY <1>1 DEF Put
<1>3. TreeOK(v)
  <2>1. DOMAIN v = D \cup {p} /\ IsFiniteSet(D \cup {p})
    BY <1>1, <1>2, FS_AddElement
  <2> QED BY <1>2, <2>1 DEF TreeOK
<1>4. IsTotal(BytesOf(t), t) /\ IsTotal(BytesOf(v), v)
  BY <1>3, BytesAreTotal
<1>5. PICK a, b : a = BytesOf(t) /\ b = BytesOf(v)
  OBVIOUS
<1>6. a \in Nat /\ b \in Nat /\ b <= a + v[p]
  <2>1. IsTotal(a, t) /\ IsTotal(b, v)
    BY <1>4, <1>5
  <2>2. IsFiniteSet(D) /\ t \in [D -> Nat] /\ v \in [D \cup {p} -> Nat] /\ \A y \in D \ {p} : v[y] = t[y]
    BY <1>1, <1>2
  <2> QED BY ONLY <2>1, <2>2, TotalGrows
<1> QED BY <1>2, <1>3, <1>5, <1>6

(* The sizes of an archive's entries. *)
LEMMA SizesOf ==
    ASSUME NEW files \in Seq(ZipFiles)
    PROVE  /\ Len(files) \in Nat /\ DOMAIN files = 1..Len(files) /\ IsFiniteSet(1..Len(files))
           /\ Sizes(files) \in [1..Len(files) -> Nat]
           /\ \A i \in 1..Len(files) : files[i] \in ZipFiles /\ Sizes(files)[i] = files[i].size
<1>1. Len(files) \in Nat /\ DOMAIN files = 1..Len(files) /\ \A i \in 1..Len(files) : files[i] \in ZipFiles
  BY ElementOf
<1>2. IsFiniteSet(1..Len(files))
  BY <1>1, FS_Interval
<1>3. \A f \in ZipFiles : f.size \in Nat
  BY ZipAssumption DEF ZipFiles
<1> QED BY <1>1, <1>2, <1>3 DEF Sizes

(* zipEntriesBytes is their sum. *)
LEMMA EntriesAreTotal ==
    ASSUME NEW files \in Seq(ZipFiles)
    PROVE  /\ SumRule(SizeSum(files), Sizes(files), 1..Len(files))
           /\ IsTotal(ZipEntriesBytes(files), Sizes(files))
<1>1. PICK D : D = 1..Len(files) /\ D = DOMAIN files /\ IsFiniteSet(D)
  BY SizesOf
<1>2. PICK w \in [D -> Nat] : w = Sizes(files) /\ \A i \in D : w[i] = files[i].size
  BY <1>1, SizesOf
<1>3. PICK g : SumRule(g, w, D)
  BY <1>1, SumExists
<1>4. SumRule(SizeSum(files), w, D)
  BY <1>1, <1>2, <1>3 DEF SizeSum
<1> DEFINE Fold(h) == h = [s \in SUBSET D |-> IF s = {} THEN 0 ELSE files[CHOOSE x \in s : TRUE].size + h[s \ {CHOOSE x \in s : TRUE}]]
           c == CHOOSE h : Fold(h)
<1>5. ZipEntriesBytes(files) = c[D]
  BY <1>1 DEF ZipEntriesBytes, FoldSeq, FoldFunction, FoldFunctionOnSet, MapThenFoldSet
<1>6. \A h : Fold(h) <=> SumRule(h, w, D)
  <2> SUFFICES ASSUME NEW h
               PROVE  [s \in SUBSET D |-> IF s = {} THEN 0 ELSE files[CHOOSE x \in s : TRUE].size + h[s \ {CHOOSE x \in s : TRUE}]]
                        = [s \in SUBSET D |-> RuleAt(h, w, s)]
    BY DEF SumRule
  <2>1. ASSUME NEW s \in SUBSET D
        PROVE  (IF s = {} THEN 0 ELSE files[CHOOSE x \in s : TRUE].size + h[s \ {CHOOSE x \in s : TRUE}]) = RuleAt(h, w, s)
    <3>1. CASE s = {}
      BY <3>1 DEF RuleAt
    <3>2. CASE s # {}
      <4>1. PICK x \in s : x = CHOOSE y \in s : TRUE
        BY <3>2
      <4>2. w[x] = files[x].size
        BY <1>2
      <4> QED BY <3>2, <4>1, <4>2 DEF RuleAt, AnyOf
    <3> QED BY <3>1, <3>2
  <2> QED BY <2>1
<1> HIDE DEF Fold
<1>7. SumRule(c, w, D)
  BY <1>3, <1>6
<1> HIDE DEF c
<1>8. DOMAIN w = D
  OBVIOUS
<1>9. IsTotal(ZipEntriesBytes(files), w)
  BY <1>5, <1>7, <1>8 DEF IsTotal
<1> QED BY <1>1, <1>2, <1>4, <1>9

(* An accepted entry adds its size. *)
LEMMA EntryAdds ==
    ASSUME NEW files \in Seq(ZipFiles), NEW f \in ZipFiles
    PROVE  /\ ZipEntriesBytes(files) \in Nat /\ f.size \in Nat
           /\ Append(files, f) \in Seq(ZipFiles)
           /\ ZipEntriesBytes(Append(files, f)) = ZipEntriesBytes(files) + f.size
<1>1. PICK k \in Nat : k = Len(files)
  BY SizesOf
<1>2. PICK all \in Seq(ZipFiles) : all = Append(files, f)
  <2>1. ASSUME NEW S, NEW s \in Seq(S), NEW x \in S PROVE Append(s, x) \in Seq(S)
    OBVIOUS
  <2>2. Append(files, f) \in Seq(ZipFiles)
    BY <2>1
  <2> QED BY <2>2, Zenon
<1>3. Len(all) = k + 1 /\ all[k + 1] = f /\ \A i \in 1..k : all[i] = files[i]
  BY <1>1, <1>2
<1>4. PICK w : w \in [1..k -> Nat] /\ w = Sizes(files) /\ \A i \in 1..k : w[i] = files[i].size
  BY <1>1, SizesOf
<1>5. 1..(k + 1) = 1..k \cup {k + 1} /\ k + 1 \notin 1..k /\ IsFiniteSet(1..k)
  BY <1>1, SizesOf
<1>6. PICK v : v \in [1..k \cup {k + 1} -> Nat] /\ v = Sizes(all) /\ \A i \in 1..(k + 1) : v[i] = all[i].size
  <2>1. Sizes(all) \in [1..(k + 1) -> Nat] /\ \A i \in 1..(k + 1) : Sizes(all)[i] = all[i].size
    BY <1>3, SizesOf
  <2> QED BY <1>5, <2>1
<1>7. v[k + 1] = f.size /\ \A i \in 1..k : v[i] = w[i]
  BY <1>3, <1>4, <1>5, <1>6
<1>8. PICK t, u : t = ZipEntriesBytes(files) /\ u = ZipEntriesBytes(all)
  OBVIOUS
<1>9. IsTotal(t, w) /\ IsTotal(u, v)
  BY <1>4, <1>6, <1>8, EntriesAreTotal
<1>10. \A y \in 1..k \ {k + 1} : v[y] = w[y]
  BY <1>7
<1>11. t \in Nat /\ u \in Nat /\ u = t + v[k + 1]
  <2>1. PICK D, x : D = 1..k /\ x = k + 1
    OBVIOUS
  <2>2. /\ IsFiniteSet(D) /\ w \in [D -> Nat] /\ v \in [D \cup {x} -> Nat] /\ x \notin D
        /\ \A y \in D \ {x} : v[y] = w[y]
    BY <1>4, <1>5, <1>6, <1>10, <2>1
  <2>3. t \in Nat /\ u \in Nat /\ u = t + v[x]
    BY ONLY <1>9, <2>2, TotalGrows
  <2> QED BY <2>1, <2>3
<1>12. v[k + 1] \in Nat
  BY <1>5, <1>6
<1> QED BY <1>2, <1>7, <1>8, <1>11, <1>12

(* No entries have no bytes. *)
LEMMA NoEntries == << >> \in Seq(ZipFiles) /\ ZipEntriesBytes(<< >>) = 0
<1>1. PICK e \in Seq(ZipFiles) : e = << >>
  <2>1. ASSUME NEW S PROVE << >> \in Seq(S)
    OBVIOUS
  <2>2. << >> \in Seq(ZipFiles)
    BY <2>1
  <2> QED BY <2>2, Zenon
<1>2. DOMAIN Sizes(e) = {}
  BY <1>1 DEF Sizes
<1>3. IsTotal(ZipEntriesBytes(e), Sizes(e))
  BY EntriesAreTotal
<1> QED BY <1>1, <1>2, <1>3, TotalOfNothing

(* What is still to be written: all of it first, then less by each entry. *)
LEMMA RestOf ==
    ASSUME NEW files \in Seq(ZipFiles)
    PROVE  /\ RestBytes(files, 1) = ZipEntriesBytes(files)
           /\ \A i \in 1..(Len(files) + 1) : RestBytes(files, i) \in Nat
           /\ \A i \in 1..Len(files) : RestBytes(files, i) = files[i].size + RestBytes(files, i + 1)
<1>1. PICK k \in Nat : k = Len(files) /\ IsFiniteSet(1..k)
  BY SizesOf
<1>2. PICK w : w \in [1..k -> Nat] /\ w = Sizes(files) /\ \A i \in 1..k : w[i] = files[i].size
  BY <1>1, SizesOf
<1>3. PICK g : g = SizeSum(files) /\ SumRule(g, w, 1..k)
  BY <1>1, <1>2, EntriesAreTotal
<1>4. PICK h : SumRule(h, w, 1..k) /\ ZipEntriesBytes(files) = h[1..k]
  <2>1. IsTotal(ZipEntriesBytes(files), w) /\ DOMAIN w = 1..k
    BY <1>2, EntriesAreTotal
  <2> QED BY <2>1 DEF IsTotal
<1>5. ASSUME NEW s \in SUBSET (1..k) PROVE g[s] = h[s] /\ g[s] \in Nat
  <2>1. IsFiniteSet(s) /\ s \subseteq 1..k /\ \A x \in s : w[x] = w[x] /\ w[x] \in Nat
    BY <1>1, <1>2, FS_Subset
  <2>2. SumRule(g, w, 1..k) /\ SumRule(h, w, 1..k)
    BY <1>3, <1>4
  <2> QED BY ONLY <2>1, <2>2, SumsAgree
<1>6. \A i : RestBytes(files, i) = g[i..k]
  BY <1>1, <1>3 DEF RestBytes
<1>7. RestBytes(files, 1) = ZipEntriesBytes(files)
  BY <1>4, <1>5, <1>6
<1>8. ASSUME NEW i \in 1..(k + 1) PROVE RestBytes(files, i) \in Nat
  <2>1. i..k \in SUBSET (1..k)
    OBVIOUS
  <2> QED BY <1>5, <1>6, <2>1
<1>9. ASSUME NEW i \in 1..k PROVE RestBytes(files, i) = files[i].size + RestBytes(files, i + 1)
  <2>1. SumsFrom(g, w, i, k)
    BY <1>2, <1>3, SumFrom
  <2> QED BY <1>2, <1>6, <2>1 DEF SumsFrom
<1> QED BY <1>1, <1>7, <1>8, <1>9

(* The greatest of some numbers up to k, when k is one of them. *)
LEMMA GreatestIs ==
    ASSUME NEW S, NEW k \in Nat, k \in S, \A i \in S : i \in Nat /\ i <= k
    PROVE  Max(S) = k
<1>1. \E m \in S : \A i \in S : m >= i
  OBVIOUS
<1>2. PICK m : m = Max(S)
  OBVIOUS
<1>3. m \in S /\ \A i \in S : m >= i
  BY <1>1, <1>2 DEF Max
<1>4. m \in Nat /\ m >= k /\ m <= k
  BY <1>3
<1> QED BY <1>2, <1>4

(* Writing entry after entry builds what the archive stands for. *)
LEMMA ContentsGrow ==
    ASSUME NEW files \in Seq(ZipFiles)
    PROVE  /\ ContentsUpto(files, 0) = << >>
           /\ \A k \in 1..Len(files) :
                 ContentsUpto(files, k) = Put(ContentsUpto(files, k - 1), files[k].path, files[k].size)
           /\ ContentsUpto(files, Len(files)) = Contents(files)
<1>1. ContentsUpto(files, 0) = << >>
  <2>1. {files[i].path : i \in 1..0} = {}
    OBVIOUS
  <2> QED BY <2>1 DEF ContentsUpto
<1>2. ASSUME NEW k \in 1..Len(files)
      PROVE  ContentsUpto(files, k) = Put(ContentsUpto(files, k - 1), files[k].path, files[k].size)
  <2>0. k \in Nat /\ 1..k = 1..(k - 1) \cup {k} /\ k - 1 \in Nat
    BY SizesOf
  <2> DEFINE a == ContentsUpto(files, k)
             b == ContentsUpto(files, k - 1)
             q == files[k].path
  <2>1. DOMAIN a = {files[i].path : i \in 1..k} /\ DOMAIN b = {files[i].path : i \in 1..(k - 1)}
    BY DEF ContentsUpto
  <2>2. DOMAIN a = DOMAIN b \cup {q}
    BY <2>0, <2>1
  <2>3. a[q] = files[k].size
    <3>1. PICK S : S = {i \in 1..k : files[i].path = q}
      OBVIOUS
    <3>2. k \in S /\ \A i \in S : i \in Nat /\ i <= k
      BY <2>0, <3>1
    <3>3. Max(S) = k
      BY <2>0, <3>2, GreatestIs
    <3>4. q \in {files[i].path : i \in 1..k}
      BY <2>0
    <3>5. a[q] = files[Max(S)].size
      BY <3>1, <3>4 DEF ContentsUpto
    <3> QED BY <3>3, <3>5
  <2>4. ASSUME NEW p \in DOMAIN b, p # q PROVE a[p] = b[p]
    <3>1. {i \in 1..k : files[i].path = p} = {i \in 1..(k - 1) : files[i].path = p}
      BY <2>0, <2>4
    <3>2. p \in {files[i].path : i \in 1..k} /\ p \in {files[i].path : i \in 1..(k - 1)}
      BY <2>0, <2>1
    <3>3. a[p] = files[Max({i \in 1..k : files[i].path = p})].size
      BY <3>2 DEF ContentsUpto
    <3>4. b[p] = files[Max({i \in 1..(k - 1) : files[i].path = p})].size
      BY <3>2 DEF ContentsUpto
    <3> QED BY <3>1, <3>3, <3>4
  <2>5. a = [p \in DOMAIN a |-> a[p]]
    BY DEF ContentsUpto
  <2> HIDE DEF a, b, q
  <2>6. Put(b, q, files[k].size) = [p \in DOMAIN b \cup {q} |-> IF p = q THEN files[k].size ELSE b[p]]
    BY DEF Put
  <2>7. a = Put(b, q, files[k].size)
    BY <2>2, <2>3, <2>4, <2>5, <2>6
  <2> QED BY <2>7 DEF a, b, q
<1>3. ContentsUpto(files, Len(files)) = Contents(files)
  <2>1. DOMAIN files = 1..Len(files)
    BY SizesOf
  <2> QED BY <2>1 DEF ContentsUpto, Contents
<1> QED BY <1>1, <1>2, <1>3

(* Where nothing is being written, tree and object store do not matter to an upload. *)
LEMMA FitsApart ==
    ASSUME NEW r, NEW t, NEW o, UploadFits(r, t, o), r.pc # "writing", NEW tt, NEW oo
    PROVE  UploadFits(r, tt, oo)
BY DEF UploadFits

(* One upload moves, the others write nothing or see no change. *)
LEMMA UploadMoves ==
    ASSUME ZipInv, NEW u \in Uploads, NEW r \in UploadRecs, upload' = [upload EXCEPT ![u] = r],
           UploadFits(r, tree', objects'), r.pc = "writing" => section' = u,
           \A v \in Uploads \ {u} : upload[v].pc = "writing" => section' = v /\ tree' = tree /\ objects' = objects,
           TreeOK(tree'), tip' \in Nat, objects' \in Nat, QuotaOverrunBounded'
    PROVE  ZipInv'
<1>1. upload' \in [Uploads -> UploadRecs]
  BY DEF ZipInv
<1>2. ASSUME NEW v \in Uploads
      PROVE  UploadFits(upload'[v], tree', objects') /\ (upload'[v].pc = "writing" => section' = v)
  <2>1. CASE v = u
    <3>1. upload'[v] = r
      BY <2>1 DEF ZipInv
    <3> QED BY <2>1, <3>1
  <2>2. CASE v # u
    <3>1. upload'[v] = upload[v] /\ UploadFits(upload[v], tree, objects)
      BY <2>2 DEF ZipInv
    <3>2. CASE upload[v].pc = "writing"
      <4>1. section' = v /\ tree' = tree /\ objects' = objects
        BY <2>2, <3>2
      <4> QED BY <3>1, <4>1
    <3>3. CASE upload[v].pc # "writing"
      <4>1. UploadFits(upload[v], tree', objects')
        BY <3>1, <3>3, FitsApart
      <4> QED BY <3>1, <3>3, <4>1
    <3> QED BY <3>2, <3>3
  <2> QED BY <2>1, <2>2
<1>3. PICK t, o, s, f : t = tree' /\ o = objects' /\ s = section' /\ f = upload'
  OBVIOUS
<1>4. \A v \in Uploads : UploadFits(f[v], t, o) /\ (f[v].pc = "writing" => s = v)
  BY <1>2, <1>3
<1> QED BY <1>1, <1>3, <1>4 DEF ZipInv

(* The records an upload may be set to. *)
LEMMA UploadRecord ==
    ASSUME NEW pc \in {"idle", "validate", "ready", "writing", "failed", "acknowledged"},
           NEW files \in Seq(ZipFiles), NEW held \in Nat, NEW base \in Nat, NEW next \in Nat,
           NEW k, k = [pc |-> pc, files |-> files, held |-> held, base |-> base, next |-> next]
    PROVE  /\ k \in UploadRecs
           /\ k.pc = pc /\ k.files = files /\ k.held = held /\ k.base = base /\ k.next = next
BY DEF UploadRecs

(* A request that has ended keeps nothing. *)
LEMMA NoUploadFits ==
    ASSUME NEW t, NEW o
    PROVE  /\ NoUpload \in UploadRecs /\ UploadFits(NoUpload, t, o) /\ NoUpload.pc = "idle"
           /\ NoUpload.files = << >> /\ NoUpload.held = 0 /\ NoUpload.base = 0 /\ NoUpload.next = 0
           /\ Failed \in UploadRecs /\ UploadFits(Failed, t, o) /\ Failed.pc = "failed"
           /\ Failed.files = << >> /\ Failed.held = 0 /\ Failed.base = 0 /\ Failed.next = 0
<1>1. MaxTotalBytes \in Nat /\ MaxEntryBytes \in Nat /\ 0 <= MaxTotalBytes + MaxEntryBytes
  BY ZipAssumption
<1>2. << >> \in Seq(ZipFiles)
  BY NoEntries
<1>3. /\ NoUpload \in UploadRecs /\ NoUpload.pc = "idle"
      /\ NoUpload.files = << >> /\ NoUpload.held = 0 /\ NoUpload.base = 0 /\ NoUpload.next = 0
  BY <1>2 DEF NoUpload, UploadRecs
<1>4. /\ Failed \in UploadRecs /\ Failed.pc = "failed"
      /\ Failed.files = << >> /\ Failed.held = 0 /\ Failed.base = 0 /\ Failed.next = 0
  BY <1>2 DEF NoUpload, Failed, UploadRecs
<1> QED BY <1>1, <1>3, <1>4 DEF UploadFits

(* A new site holds its placeholder page. *)
LEMMA ZipStart == ZipInit => ZipInv
<1> SUFFICES ASSUME ZipInit PROVE ZipInv
  OBVIOUS
<1>1. PICK p \in OtherPaths : tree = [q \in {p} |-> 1]
  BY DEF ZipInit
<1>2. tree = Put(<< >>, p, 1)
  <2>1. DOMAIN << >> = {}
    OBVIOUS
  <2> QED BY <1>1, <2>1 DEF Put
<1>3. TreeOK(tree) /\ BytesOf(tree) \in Nat /\ BytesOf(tree) <= 1
  <2>1. PICK e : e = << >> /\ TreeOK(e) /\ BytesOf(e) = 0
    BY EmptyTree
  <2>2. PICK t : t = Put(e, p, 1)
    OBVIOUS
  <2>3. TreeOK(t) /\ BytesOf(t) \in Nat /\ BytesOf(t) <= BytesOf(e) + 1
    BY <2>1, <2>2, BytesGrow
  <2> QED BY <1>2, <2>1, <2>2, <2>3
<1>4. tip = 1 /\ objects = 1 /\ upload = [u \in Uploads |-> NoUpload]
  BY DEF ZipInit
<1>5. QuotaOverrunBounded
  BY <1>3, <1>4, ZipAssumption DEF QuotaOverrunBounded, LargestWrite
<1>6. upload \in [Uploads -> UploadRecs]
  BY <1>4, NoUploadFits
<1>7. \A u \in Uploads : UploadFits(upload[u], tree, objects) /\ (upload[u].pc = "writing" => section = u)
  BY <1>4, NoUploadFits
<1> QED BY <1>3, <1>4, <1>5, <1>6, <1>7 DEF ZipInv

(* Opening, reading and refusing an archive. *)
LEMMA ValidationKeeps ==
    ASSUME ZipInv, NEW u \in Uploads,
           OpenArchive(u) \/ ValidateEntry(u) \/ ValidationEnds(u) \/ RespondImport(u)
    PROVE  ZipInv'
<1>1. UNCHANGED <<section, tree, head, tip, objects>>
  BY DEF OpenArchive, ValidateEntry, ValidationEnds, RespondImport
<1>2. TreeOK(tree') /\ tip' \in Nat /\ objects' \in Nat /\ QuotaOverrunBounded'
  BY <1>1 DEF ZipInv, QuotaOverrunBounded
<1>3. \A v \in Uploads : upload[v].pc = "writing" => section' = v /\ tree' = tree /\ objects' = objects
  BY <1>1 DEF ZipInv
<1>4. PICK r \in UploadRecs : r = upload[u] /\ UploadFits(r, tree, objects)
  BY DEF ZipInv
<1>5. PICK pc, files, held, base, next :
        /\ pc = r.pc /\ files = r.files /\ held = r.held /\ base = r.base /\ next = r.next
        /\ files \in Seq(ZipFiles) /\ held \in Nat /\ base \in Nat /\ next \in Nat
  BY DEF UploadRecs
<1>6. MaxTotalBytes \in Nat /\ MaxEntryBytes \in Nat /\ tip \in Nat
  BY ZipAssumption DEF ZipInv
<1>7. SUFFICES ASSUME UNCHANGED upload \/ \E k \in UploadRecs : /\ upload' = [upload EXCEPT ![u] = k]
                                                              /\ UploadFits(k, tree, objects) /\ k.pc # "writing"
               PROVE  ZipInv'
  <2>1. CASE OpenArchive(u)
    <3>1. r = NoUpload /\ upload' = [upload EXCEPT ![u].pc = "validate", ![u].base = tip]
      BY <1>4, <2>1 DEF OpenArchive, UploadFits
    <3> DEFINE k == [r EXCEPT !.pc = "validate", !.base = tip]
    <3>2. k \in UploadRecs /\ k.pc = "validate" /\ k.files = << >> /\ k.held = 0
      BY <1>6, <3>1, NoUploadFits DEF UploadRecs
    <3>3. upload' = [upload EXCEPT ![u] = k]
      BY <1>4, <3>1 DEF ZipInv
    <3> HIDE DEF k
    <3>4. UploadFits(k, tree, objects)
      BY <1>6, <3>2, NoEntries DEF UploadFits
    <3> QED BY <3>2, <3>3, <3>4
  <2>2. CASE ValidateEntry(u)
    <3>1. PICK e \in ZipEntries : upload' = [upload EXCEPT ![u] = AfterEntry(r, e)]
      BY <1>4, <2>2 DEF ValidateEntry
    <3>2. r.pc = "validate" /\ held <= MaxTotalBytes /\ ZipEntriesBytes(files) = held
      BY <1>4, <1>5, <2>2 DEF ValidateEntry, UploadFits
    <3>3. PICK z : z = Inflated(e) /\ (NameAllowed(e) /\ DeclaredAllowed(e) => z \in 0..MaxEntryBytes /\ e.path \in ZipPaths)
      <4>1. e.actual \in Nat /\ e.declared \in Nat
        BY <1>6 DEF ZipEntries, EntrySizes
      <4> QED BY <1>6, <4>1 DEF Inflated, DeclaredAllowed, NameAllowed
    <3>4. PICK all : all = held + (IF NameAllowed(e) /\ DeclaredAllowed(e) THEN z ELSE 0)
      OBVIOUS
    <3>5. all \in Nat /\ all <= MaxTotalBytes + MaxEntryBytes
      BY <1>5, <1>6, <3>2, <3>3, <3>4
    <3>6. CASE e.kind = "dir"
      <4>1. upload' = [upload EXCEPT ![u] = r]
        BY <3>1, <3>6 DEF AfterEntry, NameAllowed
      <4> QED BY <1>4, <3>2, <4>1
    <3>7. CASE e.kind # "dir" /\ NameAllowed(e) /\ DeclaredAllowed(e) /\ ~ReadFails(e) /\ TotalAllowed(all)
      <4> DEFINE f == [path |-> e.path, size |-> z]
      <4>1. f \in ZipFiles /\ f.size = z
        BY <3>3, <3>7 DEF ZipFiles
      <4> HIDE DEF f
      <4>2. PICK more \in Seq(ZipFiles) : more = Append(files, f) /\ ZipEntriesBytes(more) = held + z
        BY <1>5, <3>2, <4>1, EntryAdds
      <4> DEFINE k == [r EXCEPT !.held = all, !.files = more]
      <4>3. upload' = [upload EXCEPT ![u] = k]
        BY <1>5, <3>1, <3>3, <3>4, <3>7, <4>2 DEF f, AfterEntry
      <4>4. k \in UploadRecs /\ k.pc = "validate" /\ k.files = more /\ k.held = all
        BY <3>2, <3>5 DEF UploadRecs
      <4> HIDE DEF k
      <4>5. all <= MaxTotalBytes /\ all = held + z
        BY <3>4, <3>7 DEF TotalAllowed
      <4>6. UploadFits(k, tree, objects)
        BY <3>5, <4>2, <4>4, <4>5 DEF UploadFits
      <4> QED BY <4>3, <4>4, <4>6
    <3>8. CASE e.kind # "dir" /\ ~(NameAllowed(e) /\ DeclaredAllowed(e) /\ ~ReadFails(e) /\ TotalAllowed(all))
      <4> DEFINE k == [Failed EXCEPT !.held = all]
      <4>1. upload' = [upload EXCEPT ![u] = k]
        BY <1>5, <3>1, <3>3, <3>4, <3>8 DEF AfterEntry
      <4>2. k \in UploadRecs /\ k.pc = "failed" /\ k.held = all
        BY <3>5, NoUploadFits DEF UploadRecs
      <4> HIDE DEF k
      <4>3. UploadFits(k, tree, objects)
        BY <3>5, <4>2 DEF UploadFits
      <4> QED BY <4>1, <4>2, <4>3
    <3> QED BY <3>6, <3>7, <3>8
  <2>3. CASE ValidationEnds(u)
    <3>1. r.pc = "validate" /\ upload' = [upload EXCEPT ![u] = IF files = << >> THEN Failed ELSE [r EXCEPT !.pc = "ready"]]
      BY <1>4, <1>5, <2>3 DEF ValidationEnds
    <3>2. CASE files = << >>
      <4>1. upload' = [upload EXCEPT ![u] = Failed]
        BY <3>1, <3>2
      <4> QED BY <4>1, NoUploadFits
    <3>3. CASE files # << >>
      <4> DEFINE k == [r EXCEPT !.pc = "ready"]
      <4>1. upload' = [upload EXCEPT ![u] = k]
        BY <3>1, <3>3
      <4>2. k \in UploadRecs /\ k.pc = "ready" /\ k.held = held /\ k.files = files
        BY <1>5 DEF UploadRecs
      <4> HIDE DEF k
      <4>3. UploadFits(k, tree, objects)
        BY <1>4, <1>5, <3>1, <4>2 DEF UploadFits
      <4> QED BY <4>1, <4>2, <4>3
    <3> QED BY <3>2, <3>3
  <2>4. CASE RespondImport(u)
    BY <2>4, NoUploadFits DEF RespondImport
  <2> QED BY <1>7, <2>1, <2>2, <2>3, <2>4
<1>8. CASE UNCHANGED upload
  BY <1>1, <1>8 DEF ZipInv, QuotaOverrunBounded
<1>9. ASSUME NEW k \in UploadRecs, upload' = [upload EXCEPT ![u] = k], UploadFits(k, tree, objects), k.pc # "writing"
      PROVE  ZipInv'
  <2>1. UploadFits(k, tree', objects')
    BY <1>9, FitsApart
  <2> QED BY <1>2, <1>3, <1>9, <2>1, UploadMoves
<1> QED BY <1>7, <1>8, <1>9

(* The section begins with an empty worktree. *)
LEMMA EnterKeeps ==
    ASSUME ZipInv, NEW u \in Uploads, EnterImport(u)
    PROVE  ZipInv'
<1>1. PICK r \in UploadRecs : r = upload[u] /\ UploadFits(r, tree, objects)
  BY DEF ZipInv
<1>2. PICK files, held :
        /\ files = r.files /\ held = r.held /\ files \in Seq(ZipFiles) /\ held \in Nat
        /\ held <= MaxTotalBytes /\ ZipEntriesBytes(files) = held
  BY <1>1 DEF UploadRecs, UploadFits, EnterImport
<1>3. MaxTotalBytes \in Nat /\ MaxEntryBytes \in Nat /\ Quota \in Nat /\ tip \in Nat /\ objects \in Nat
  BY ZipAssumption DEF ZipInv
<1>4. tip' = tip /\ objects' = objects /\ TreeOK(tree) /\ r.pc = "ready" /\ section = Nobody
  BY <1>1 DEF EnterImport, ZipInv
<1>5. \A v \in Uploads : upload[v].pc # "writing"
  BY <1>4, ZipAssumption DEF ZipInv, Nobody
<1>6. CASE upload[u].base # tip \/ ExceedsQuota(ZipEntriesBytes(upload[u].files))
  <2>1. upload' = [upload EXCEPT ![u] = Failed] /\ section' = section /\ tree' = tree
    BY <1>6 DEF EnterImport
  <2>2. QuotaOverrunBounded'
    BY <1>4, <2>1 DEF QuotaOverrunBounded, ZipInv
  <2>3. UploadFits(Failed, tree', objects') /\ Failed \in UploadRecs /\ Failed.pc = "failed"
    BY NoUploadFits
  <2> QED BY <1>3, <1>4, <1>5, <2>1, <2>2, <2>3, UploadMoves
<1>7. CASE ~(upload[u].base # tip \/ ExceedsQuota(ZipEntriesBytes(upload[u].files)))
  <2>1. upload' = [upload EXCEPT ![u].pc = "writing", ![u].next = 1] /\ section' = u /\ tree' = << >>
    BY <1>7 DEF EnterImport, Wiped
  <2>2. BytesOf(tree) \in Nat
    <3>1. PICK v : v = Put(tree, Folder, 0)
      OBVIOUS
    <3>2. PICK t : t = tree /\ TreeOK(t) /\ v = Put(t, Folder, 0)
      BY <1>4, <3>1
    <3>3. BytesOf(t) \in Nat
      BY <3>2, BytesGrow
    <3> QED BY <3>2, <3>3
  <2>3. objects + held <= Quota
    <3>1. ~(objects + BytesOf(tree) + held > Quota)
      BY <1>1, <1>2, <1>7 DEF ExceedsQuota, RepoDiskSize
    <3> QED BY <1>2, <1>3, <2>2, <3>1
  <2> DEFINE k == [r EXCEPT !.pc = "writing", !.next = 1]
  <2>4. upload' = [upload EXCEPT ![u] = k]
    BY <1>1, <2>1 DEF ZipInv
  <2>5. k \in UploadRecs /\ k.pc = "writing" /\ k.next = 1 /\ k.files = files /\ k.held = held
    BY <1>2 DEF UploadRecs
  <2> HIDE DEF k
  <2>6. PICK e : e = << >> /\ TreeOK(e) /\ BytesOf(e) = 0
    BY EmptyTree
  <2>7. UploadFits(k, e, objects)
    <3>1. Len(files) \in Nat /\ e = ContentsUpto(files, 0) /\ RestBytes(files, 1) = held
      BY <1>2, <2>6, SizesOf, ContentsGrow, RestOf
    <3>2. PICK n : n = Len(files) /\ n \in Nat /\ 1 \in 1..(n + 1) /\ 1 - 1 = 0
      BY <3>1
    <3>3. /\ k.next \in 1..(Len(k.files) + 1) /\ e = ContentsUpto(k.files, k.next - 1)
          /\ BytesOf(e) + RestBytes(k.files, k.next) <= k.held
      BY <1>2, <2>5, <2>6, <3>1, <3>2
    <3>4. k.held <= MaxTotalBytes + MaxEntryBytes
      BY <1>2, <1>3, <2>5
    <3> QED BY <1>2, <2>3, <2>5, <3>3, <3>4 DEF UploadFits
  <2>8. UploadFits(k, tree', objects') /\ TreeOK(tree')
    BY <1>4, <2>1, <2>6, <2>7
  <2>9. QuotaOverrunBounded'
    <3>1. BytesOf(tree') = 0 /\ objects' = objects
      BY <1>4, <2>1, <2>6
    <3>2. objects <= Quota /\ LargestWrite \in Nat
      BY <1>2, <1>3, <2>3 DEF LargestWrite
    <3> QED BY <1>3, <3>1, <3>2 DEF QuotaOverrunBounded, LargestWrite
  <2> QED BY <1>3, <1>4, <1>5, <2>1, <2>4, <2>5, <2>8, <2>9, UploadMoves
<1> QED BY <1>6, <1>7

(* An entry is written, or the worktree keeps what was written before it. *)
LEMMA WriteKeeps ==
    ASSUME ZipInv, NEW u \in Uploads, WriteEntry(u)
    PROVE  ZipInv'
<1>1. PICK r \in UploadRecs : r = upload[u] /\ UploadFits(r, tree, objects)
  BY DEF ZipInv
<1>2. PICK files, held, next :
        /\ files = r.files /\ held = r.held /\ next = r.next
        /\ files \in Seq(ZipFiles) /\ held \in Nat /\ next \in Nat
  BY DEF UploadRecs
<1>3. MaxTotalBytes \in Nat /\ MaxEntryBytes \in Nat /\ Quota \in Nat /\ tip \in Nat /\ objects \in Nat
  BY ZipAssumption DEF ZipInv
<1>4. tip' = tip /\ objects' = objects /\ TreeOK(tree) /\ r.pc = "writing" /\ section = u /\ next <= Len(files)
  BY <1>1, <1>2 DEF WriteEntry, ZipInv
<1>5. \A v \in Uploads \ {u} : upload[v].pc # "writing"
  BY <1>4 DEF ZipInv
<1>6. /\ held <= MaxTotalBytes /\ ZipEntriesBytes(files) = held /\ next \in 1..(Len(files) + 1)
      /\ objects + held <= Quota /\ tree = ContentsUpto(files, next - 1)
      /\ BytesOf(tree) + RestBytes(files, next) <= held
  BY <1>1, <1>2, <1>4 DEF UploadFits
<1>7. Len(files) \in Nat /\ next \in 1..Len(files)
  BY <1>2, <1>4, <1>6, SizesOf
<1>8. PICK f : f = files[next] /\ f \in ZipFiles /\ f.size \in Nat
  <2>1. files[next] \in ZipFiles
    BY <1>2, <1>7, SizesOf
  <2>2. \A g \in ZipFiles : g.size \in Nat
    BY <1>3 DEF ZipFiles
  <2> QED BY <2>1, <2>2
<1>9. CASE Clashes(f.path, tree)
  <2>1. upload' = [upload EXCEPT ![u] = Failed] /\ section' = Nobody /\ tree' = tree
    BY <1>1, <1>2, <1>8, <1>9 DEF WriteEntry
  <2>2. QuotaOverrunBounded'
    BY <1>4, <2>1 DEF QuotaOverrunBounded, ZipInv
  <2>3. UploadFits(Failed, tree', objects') /\ Failed \in UploadRecs /\ Failed.pc = "failed"
    BY NoUploadFits
  <2> QED BY <1>3, <1>4, <1>5, <2>1, <2>2, <2>3, UploadMoves
<1>10. CASE ~Clashes(f.path, tree)
  <2>1. upload' = [upload EXCEPT ![u].next = @ + 1] /\ section' = section /\ tree' = Put(tree, f.path, f.size)
    BY <1>1, <1>2, <1>8, <1>10 DEF WriteEntry
  <2>2. PICK t, v : t = tree /\ v = tree' /\ TreeOK(t) /\ v = Put(t, f.path, f.size)
    BY <1>4, <2>1
  <2>3. TreeOK(v) /\ BytesOf(t) \in Nat /\ BytesOf(v) \in Nat /\ BytesOf(v) <= BytesOf(t) + f.size
    BY <1>8, <2>2, BytesGrow
  <2> DEFINE k == [r EXCEPT !.next = next + 1]
  <2>4. upload' = [upload EXCEPT ![u] = k]
    BY <1>1, <1>2, <2>1 DEF ZipInv
  <2>5. k \in UploadRecs /\ k.pc = "writing" /\ k.next = next + 1 /\ k.files = files /\ k.held = held
    BY <1>2, <1>4 DEF UploadRecs
  <2> HIDE DEF k
  <2>6. UploadFits(k, v, objects)
    <3>1. v = ContentsUpto(files, next)
      BY <1>2, <1>6, <1>7, <1>8, <2>2, ContentsGrow
    <3>2. PICK a, b : a = RestBytes(files, next) /\ b = RestBytes(files, next + 1) /\ a \in Nat /\ b \in Nat /\ a = f.size + b
      <4>1. RestBytes(files, next) = files[next].size + RestBytes(files, next + 1)
        BY <1>2, <1>7, RestOf
      <4>2. next \in 1..(Len(files) + 1) /\ next + 1 \in 1..(Len(files) + 1)
        BY <1>7
      <4>3. RestBytes(files, next) \in Nat /\ RestBytes(files, next + 1) \in Nat
        BY <1>2, <4>2, RestOf
      <4> QED BY <1>8, <4>1, <4>3
    <3>3. BytesOf(v) + b <= held
      <4>1. PICK x, y, z : x = BytesOf(t) /\ y = BytesOf(v) /\ z = f.size /\ x \in Nat /\ y \in Nat /\ z \in Nat /\ y <= x + z
        BY <1>8, <2>3
      <4>2. a = z + b
        BY <3>2, <4>1
      <4>3. x + a <= held
        BY <1>6, <2>2, <3>2, <4>1
      <4>4. y + b <= held
        <5>1. x \in Nat /\ y \in Nat /\ z \in Nat /\ a \in Nat /\ b \in Nat /\ held \in Nat /\ y <= x + z
          BY <1>2, <3>2, <4>1
        <5> QED BY ONLY <4>2, <4>3, <5>1
      <4> QED BY <4>1, <4>4
    <3>4. next + 1 - 1 = next /\ next + 1 \in 1..(Len(files) + 1)
      BY <1>2, <1>7
    <3>5. /\ k.next \in 1..(Len(k.files) + 1) /\ v = ContentsUpto(k.files, k.next - 1)
          /\ BytesOf(v) + RestBytes(k.files, k.next) <= k.held
      <4>1. v = ContentsUpto(k.files, k.next - 1)
        <5>1. k.next - 1 = next
          <6>1. PICK i : i = k.next /\ i = next + 1
            BY <2>5
          <6>2. i - 1 = next
            BY <1>2, <6>1
          <6> QED BY <6>1, <6>2
        <5> QED BY <2>5, <3>1, <5>1, Zenon
      <4>2. RestBytes(k.files, k.next) = b
        BY <2>5, <3>2
      <4> QED BY <2>5, <3>3, <3>4, <4>1, <4>2
    <3>6. k.held <= MaxTotalBytes + MaxEntryBytes
      BY <1>2, <1>3, <1>6, <2>5
    <3> QED BY <1>6, <2>5, <3>5, <3>6 DEF UploadFits
  <2>7. UploadFits(k, tree', objects') /\ TreeOK(tree')
    BY <1>4, <2>2, <2>3, <2>6
  <2>8. QuotaOverrunBounded'
    <3>1. BytesOf(v) <= held
      <4>1. PICK n : n = RestBytes(files, next + 1) /\ n \in Nat
        <5>1. next + 1 \in 1..(Len(files) + 1)
          BY <1>7
        <5> QED BY <1>2, <5>1, RestOf
      <4>2. BytesOf(v) + n <= held
        BY <1>2, <2>5, <2>6, <4>1 DEF UploadFits
      <4> QED BY <1>2, <2>3, <4>1, <4>2
    <3>2. objects + BytesOf(v) <= Quota /\ LargestWrite \in Nat
      BY <1>2, <1>3, <1>6, <2>3, <3>1 DEF LargestWrite
    <3>3. PICK m : m = LargestWrite /\ m \in Nat
      BY <3>2
    <3>4. objects + BytesOf(v) <= Quota + m
      BY <1>3, <2>3, <3>2, <3>3
    <3> QED BY <1>4, <2>2, <3>3, <3>4 DEF QuotaOverrunBounded, LargestWrite
  <2> QED BY <1>3, <1>4, <1>5, <2>1, <2>4, <2>5, <2>7, <2>8, UploadMoves
<1> QED BY <1>9, <1>10

(* The import is committed, or nothing had changed. *)
LEMMA CommitKeeps ==
    ASSUME ZipInv, NEW u \in Uploads, CommitImport(u)
    PROVE  ZipInv' /\ (upload'[u].pc = "acknowledged" => head' = Contents(upload[u].files) /\ carried' = export)
<1>1. PICK r \in UploadRecs : r = upload[u] /\ UploadFits(r, tree, objects)
  BY DEF ZipInv
<1>2. PICK files, held, next :
        /\ files = r.files /\ held = r.held /\ next = r.next
        /\ files \in Seq(ZipFiles) /\ held \in Nat /\ next \in Nat
  BY DEF UploadRecs
<1>3. MaxTotalBytes \in Nat /\ MaxEntryBytes \in Nat /\ Quota \in Nat /\ tip \in Nat /\ objects \in Nat
  BY ZipAssumption DEF ZipInv
<1>4. tree' = tree /\ TreeOK(tree) /\ r.pc = "writing" /\ section = u /\ next > Len(files)
  BY <1>1, <1>2 DEF CommitImport, ZipInv
<1>5. \A v \in Uploads \ {u} : upload[v].pc # "writing"
  BY <1>4 DEF ZipInv
<1>6. /\ held <= MaxTotalBytes /\ ZipEntriesBytes(files) = held /\ next \in 1..(Len(files) + 1)
      /\ objects + held <= Quota /\ tree = ContentsUpto(files, next - 1)
      /\ BytesOf(tree) + RestBytes(files, next) <= held
  BY <1>1, <1>2, <1>4 DEF UploadFits
<1>7. Len(files) \in Nat /\ next - 1 = Len(files)
  BY <1>2, <1>4, <1>6, SizesOf
<1>8. tree = Contents(files)
  BY <1>2, <1>6, <1>7, ContentsGrow
<1>9. CASE tree = head /\ export = carried
  <2>1. upload' = [upload EXCEPT ![u] = Failed] /\ tip' = tip /\ objects' = objects
    BY <1>9 DEF CommitImport
  <2>2. QuotaOverrunBounded'
    BY <1>4, <2>1 DEF QuotaOverrunBounded, ZipInv
  <2>3. UploadFits(Failed, tree', objects') /\ Failed \in UploadRecs /\ Failed.pc = "failed"
    BY NoUploadFits
  <2>4. upload'[u] = Failed
    BY <2>1 DEF ZipInv
  <2> QED BY <1>3, <1>4, <1>5, <2>1, <2>2, <2>3, <2>4, UploadMoves
<1>10. CASE ~(tree = head /\ export = carried)
  <2> DEFINE k == [NoUpload EXCEPT !.pc = "acknowledged"]
  <2>1. upload' = [upload EXCEPT ![u] = k] /\ tip' = tip + 1 /\ head' = tree /\ carried' = export
    BY <1>10 DEF CommitImport
  <2>2. PICK z : z \in {0, held} /\ objects' = objects + z
    BY <1>1, <1>2, <1>6, <1>10 DEF CommitImport, Stored
  <2>3. z \in Nat /\ z <= held
    BY <1>2, <2>2
  <2>4. k \in UploadRecs /\ k.pc = "acknowledged" /\ k.held = 0
    BY NoUploadFits DEF UploadRecs
  <2> HIDE DEF k
  <2>5. UploadFits(k, tree', objects')
    BY <1>3, <2>4 DEF UploadFits
  <2>6. PICK x, a, m :
          /\ x = BytesOf(tree) /\ a = RestBytes(files, next) /\ m = LargestWrite
          /\ x \in Nat /\ a \in Nat /\ m \in Nat /\ m >= MaxTotalBytes
    <3>1. BytesOf(tree) \in Nat
      <4>1. PICK t, v : t = tree /\ TreeOK(t) /\ v = Put(t, Folder, 0)
        BY <1>4
      <4>2. BytesOf(t) \in Nat
        BY <4>1, BytesGrow
      <4> QED BY <4>1, <4>2
    <3>2. RestBytes(files, next) \in Nat
      BY <1>2, <1>6, RestOf
    <3>3. LargestWrite \in Nat /\ LargestWrite >= MaxTotalBytes
      BY <1>3 DEF LargestWrite
    <3> QED BY <3>1, <3>2, <3>3
  <2>7. objects' + x <= Quota + m
    <3>1. x + a <= held
      BY <1>6, <2>6
    <3>2. PICK o : o = objects /\ o \in Nat /\ o + held <= Quota
      BY <1>3, <1>6
    <3>3. /\ x \in Nat /\ a \in Nat /\ m \in Nat /\ z \in Nat /\ held \in Nat /\ Quota \in Nat /\ MaxTotalBytes \in Nat
          /\ m >= MaxTotalBytes /\ held <= MaxTotalBytes /\ z <= held
      BY <1>2, <1>3, <1>6, <2>3, <2>6
    <3>4. o + z + x <= Quota + m
      BY ONLY <3>1, <3>2, <3>3
    <3> QED BY <2>2, <3>2, <3>4
  <2>8. QuotaOverrunBounded'
    BY <1>4, <2>6, <2>7 DEF QuotaOverrunBounded, LargestWrite
  <2>9. tip' \in Nat /\ objects' \in Nat
    BY <1>3, <2>1, <2>2, <2>3
  <2>10. TreeOK(tree')
    BY <1>4
  <2>11. ZipInv'
    BY <1>5, <2>1, <2>4, <2>5, <2>8, <2>9, <2>10, UploadMoves
  <2> QED BY <1>1, <1>2, <1>8, <2>1, <2>11
<1> QED BY <1>9, <1>10

(* A WriteFile while no import holds the lock. *)
LEMMA SaveKeeps ==
    ASSUME ZipInv, NEW p \in ZipPaths, NEW z \in 0..MaxEntryBytes, SaveFile(p, z)
    PROVE  ZipInv'
<1>1. MaxTotalBytes \in Nat /\ MaxEntryBytes \in Nat /\ Quota \in Nat /\ tip \in Nat /\ objects \in Nat /\ z \in Nat
  BY ZipAssumption DEF ZipInv
<1>2. upload' = upload /\ section' = section /\ section = Nobody /\ tree' = Put(tree, p, z) /\ TreeOK(tree)
  BY DEF SaveFile, ZipInv
<1>3. \A v \in Uploads : upload[v].pc # "writing"
  BY <1>2, ZipAssumption DEF ZipInv, Nobody
<1>4. PICK t, v : t = tree /\ v = tree' /\ TreeOK(t) /\ v = Put(t, p, z)
  BY <1>2
<1>5. TreeOK(v) /\ BytesOf(t) \in Nat /\ BytesOf(v) \in Nat /\ BytesOf(v) <= BytesOf(t) + z
  BY <1>1, <1>4, BytesGrow
<1>6. PICK s : s \in Nat /\ s <= z /\ objects' = objects + s /\ tip' \in Nat
  <2>1. CASE p \in DOMAIN head /\ head[p] = z
    <3>1. objects' = objects /\ tip' = tip
      BY <2>1 DEF SaveFile
    <3>2. 0 \in Nat /\ 0 <= z /\ objects' = objects + 0 /\ tip' \in Nat
      BY <1>1, <3>1
    <3> QED BY <3>2
  <2>2. CASE ~(p \in DOMAIN head /\ head[p] = z)
    <3>1. PICK s : s \in {0, z} /\ objects' = objects + s /\ tip' = tip + 1
      BY <2>2 DEF SaveFile, Stored
    <3>2. s \in Nat /\ s <= z /\ tip' \in Nat
      BY <1>1, <3>1
    <3> QED BY <3>1, <3>2
  <2> QED BY <2>1, <2>2
<1>7. QuotaOverrunBounded'
  <2>1. PICK o, x, y, m :
          /\ o = objects /\ x = BytesOf(t) /\ y = BytesOf(v) /\ m = LargestWrite
          /\ o \in Nat /\ x \in Nat /\ y \in Nat /\ m \in Nat /\ y <= x + z /\ m >= MaxEntryBytes
    BY <1>1, <1>5 DEF LargestWrite
  <2>2. ~(o + x + z > Quota)
    BY <1>4, <2>1 DEF SaveFile, ExceedsQuota, RepoDiskSize
  <2>3. /\ o \in Nat /\ x \in Nat /\ y \in Nat /\ m \in Nat /\ y <= x + z /\ m >= MaxEntryBytes
        /\ s \in Nat /\ z \in Nat /\ Quota \in Nat /\ MaxEntryBytes \in Nat /\ s <= z /\ z <= MaxEntryBytes
    BY <1>1, <1>6, <2>1
  <2>4. o + s + y <= Quota + m
    BY ONLY <2>2, <2>3
  <2>5. objects' + BytesOf(tree') <= Quota + m
    BY <1>4, <1>6, <2>1, <2>4
  <2> QED BY <2>1, <2>5 DEF QuotaOverrunBounded, LargestWrite
<1>8. ASSUME NEW w \in Uploads PROVE UploadFits(upload[w], v, objects')
  <2>1. UploadFits(upload[w], tree, objects) /\ upload[w].pc # "writing"
    BY <1>3 DEF ZipInv
  <2> QED BY <2>1, FitsApart
<1>9. PICK o : o = objects' /\ o \in Nat
  BY <1>1, <1>6
<1>10. \A w \in Uploads : UploadFits(upload[w], v, o)
  BY <1>8, <1>9
<1> QED BY <1>2, <1>3, <1>4, <1>5, <1>6, <1>7, <1>9, <1>10 DEF ZipInv

(* Every step keeps the import invariant. *)
LEMMA ZipStep == ZipInv /\ [ZipNext]_zipVars => ZipInv'
<1> SUFFICES ASSUME ZipInv, [ZipNext]_zipVars PROVE ZipInv'
  OBVIOUS
<1>1. ASSUME NEW u \in Uploads,
             \/ OpenArchive(u) \/ ValidateEntry(u) \/ ValidationEnds(u) \/ EnterImport(u)
             \/ WriteEntry(u) \/ CommitImport(u) \/ RespondImport(u)
      PROVE  ZipInv'
  BY <1>1, ValidationKeeps, EnterKeeps, WriteKeeps, CommitKeeps
<1>2. ASSUME NEW p \in ZipPaths, NEW z \in 0..MaxEntryBytes, SaveFile(p, z) PROVE ZipInv'
  BY <1>2, SaveKeeps
<1>3. CASE UNCHANGED zipVars \/ RefreshExport
  BY <1>3 DEF ZipInv, QuotaOverrunBounded, zipVars, RefreshExport
<1> QED BY <1>1, <1>2, <1>3 DEF ZipNext

(* Whatever archives declare, whatever imports and WriteFiles interleave and
   however they fail, an import holds at most one entry more than the limit on an
   archive and the repository outgrows its quota by at most one accepted write
   (validateAndReadZip, enforceQuota). *)
THEOREM ImportsStayWithinLimits == ZipSpec => []ImportWithinLimits
<1>1. ZipInv => ImportWithinLimits
  BY DEF ZipInv, UploadFits, ImportWithinLimits, ImportMemoryBounded
<1> QED BY <1>1, ZipStart, ZipStep, PTL DEF ZipSpec

(* An acknowledged import committed its archive's files and no other file of the
   site's, whatever the worktree held before it: a failed import's leftovers, other
   requests' files; besides them the commit carries the export that lay under
   served/ (ImportZip, replaceWorktree). *)
THEOREM ImportsAreExact == ZipSpec => ImportedExactly
<1>1. ASSUME ZipInv, ZipNext, NEW u \in Uploads, upload[u].pc = "writing", upload'[u].pc = "acknowledged"
      PROVE  head' = Contents(upload[u].files) /\ carried' = export
  <2>1. upload \in [Uploads -> UploadRecs] /\ NoUpload.pc = "idle" /\ Failed.pc = "failed"
    BY <1>1, NoUploadFits DEF ZipInv
  <2>2. CASE CommitImport(u)
    BY <1>1, <2>2, CommitKeeps
  <2>3. ASSUME NEW v \in Uploads, v # u,
               \/ OpenArchive(v) \/ ValidateEntry(v) \/ ValidationEnds(v) \/ EnterImport(v)
               \/ WriteEntry(v) \/ CommitImport(v) \/ RespondImport(v)
        PROVE  upload'[u] = upload[u]
    BY <2>1, <2>3 DEF OpenArchive, ValidateEntry, ValidationEnds, EnterImport, WriteEntry, CommitImport, RespondImport
  <2>4. CASE OpenArchive(u) \/ ValidateEntry(u) \/ ValidationEnds(u) \/ EnterImport(u) \/ RespondImport(u)
    BY <1>1, <2>4 DEF OpenArchive, ValidateEntry, ValidationEnds, EnterImport, RespondImport
  <2>5. CASE WriteEntry(u)
    <3>1. upload'[u].pc \in {"writing", "failed"}
      BY <1>1, <2>1, <2>5 DEF WriteEntry, UploadRecs
    <3> QED BY <1>1, <3>1
  <2>6. ASSUME NEW p \in ZipPaths, NEW z \in 0..MaxEntryBytes, SaveFile(p, z) PROVE upload'[u] = upload[u]
    BY <2>6 DEF SaveFile
  <2>7. CASE RefreshExport
    BY <1>1, <2>7 DEF RefreshExport
  <2> QED BY <1>1, <2>2, <2>3, <2>4, <2>5, <2>6, <2>7 DEF ZipNext
<1>2. ZipInv /\ [ZipNext]_zipVars =>
        [\A u \in Uploads : upload[u].pc = "writing" /\ upload'[u].pc = "acknowledged"
           => head' = Contents(upload[u].files) /\ carried' = export]_zipVars
  BY <1>1
<1> QED BY <1>2, ZipStart, ZipStep, PTL DEF ZipSpec, ImportedExactly
=============================================================================
