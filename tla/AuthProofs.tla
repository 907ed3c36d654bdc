---------------------------- MODULE AuthProofs ----------------------------
(***************************************************************************)
(* What holds of authentication for every number of requests, users,       *)
(* sessions, failures and restarts.                                        *)
(***************************************************************************)
EXTENDS Accounts, LoginLockout, OidcLogin, InstanceSettings, NatFacts, FiniteSetTheorems, TLAPS

-----------------------------------------------------------------------------
(* Accounts, sessions and flags (Accounts) *)

RowFlags == [exists : BOOLEAN, admin : BOOLEAN, create : BOOLEAN]
ReqRecords ==
    [at : {"idle", "upsert", "promote", "hash", "session", "touch", "read", "write", "done"},
     user : Users \cup {NoUser}, admin : BOOLEAN, field : {"none", "admin", "create"},
     value : BOOLEAN, cur : RowFlags, via : Nat]

AccountsTypeOK ==
    /\ row \in [Users -> RowFlags]
    /\ sessions \in Seq(Users \cup {NoUser})
    /\ loggedOut \subseteq DOMAIN sessions
    /\ req \in [Requests -> ReqRecords]

(* What a request's record relies on: a row it writes is a user's (Setup's is the
   administrator's); who is to be promoted is entitled; the account is there before the
   credential and before a flag; a row a PATCH has read exists and its administrator's
   flag was due. *)
ReqFits(r, k, rw, gr) ==
    /\ k.at \in {"upsert", "promote", "touch", "read", "write"} => k.user \in Users
    /\ r \in Setups /\ k.at \in {"upsert", "promote"} => k.user = AdminUser
    /\ k.admin => k.user \in {AdminUser} \cup AdminEmails
    /\ k.at = "promote" => k.admin
    /\ k.at = "hash" => rw[AdminUser].exists
    /\ k.at \in {"promote", "touch", "read"} => rw[k.user].exists
    /\ k.at \in {"touch", "read", "write"} => k.field \in {"admin", "create"}
    /\ k.at = "write" => k.cur.exists /\ (k.cur.admin => k.user \in {AdminUser} \cup AdminEmails \cup gr)

AccountsInv ==
    /\ AccountsTypeOK
    /\ \A r \in Requests : ReqFits(r, req[r], row, granted)
    /\ CredentialHasAccount /\ AdminsAreEntitled /\ LoggedOutStaysOut

(* Rows are never removed and appointments never forgotten, so what a request relies
   on stays. *)
LEMMA ReqFitsStays ==
    ASSUME NEW r, NEW k \in ReqRecords, NEW rw, NEW gr, NEW rw2, NEW gr2, ReqFits(r, k, rw, gr),
           \A u \in Users : rw[u].exists => rw2[u].exists, gr \subseteq gr2
    PROVE  ReqFits(r, k, rw2, gr2)
<1>1. AdminUser \in Users
  BY DEF Users
<1> QED BY <1>1 DEF ReqFits

(* No request is a request's record; a request that is over relies on nothing. *)
LEMMA IdleFits ==
    /\ Idle \in ReqRecords /\ [Idle EXCEPT !.at = "done"] \in ReqRecords
    /\ \A r, rw, gr : ReqFits(r, Idle, rw, gr) /\ ReqFits(r, [Idle EXCEPT !.at = "done"], rw, gr)
BY DEF Idle, ReqRecords, ReqFits, NoRow, RowFlags

(* A step of one request keeps the invariant when its new record fits the new rows, no
   row is lost and the properties of rows and sessions hold after it. *)
LEMMA OneRequestHolds ==
    ASSUME AccountsInv, NEW r \in Requests, NEW k \in ReqRecords, req' = [req EXCEPT ![r] = k],
           ReqFits(r, k, row', granted'),
           row' \in [Users -> RowFlags], \A u \in Users : row[u].exists => row'[u].exists,
           granted \subseteq granted', AdminsAreEntitled', CredentialHasAccount',
           \/ UNCHANGED <<sessions, loggedOut>>
           \/ UNCHANGED loggedOut /\ \E u \in Users \cup {NoUser} : sessions' = Append(sessions, u)
    PROVE  AccountsInv'
<1>1. \A q \in Requests : ReqFits(q, req[q], row', granted')
  BY ReqFitsStays DEF AccountsInv, AccountsTypeOK
<1>2. req' \in [Requests -> ReqRecords] /\ \A q \in Requests : ReqFits(q, req'[q], row', granted')
  BY <1>1 DEF AccountsInv, AccountsTypeOK
<1>3. /\ sessions' \in Seq(Users \cup {NoUser}) /\ loggedOut' \subseteq DOMAIN sessions'
      /\ LoggedOutStaysOut'
  <2>1. CASE UNCHANGED <<sessions, loggedOut>>
    BY <2>1 DEF AccountsInv, AccountsTypeOK, LoggedOutStaysOut
  <2>2. ASSUME UNCHANGED loggedOut, NEW u \in Users \cup {NoUser}, sessions' = Append(sessions, u)
        PROVE  /\ sessions' \in Seq(Users \cup {NoUser}) /\ loggedOut' \subseteq DOMAIN sessions'
               /\ LoggedOutStaysOut'
    BY <2>2 DEF AccountsInv, AccountsTypeOK, LoggedOutStaysOut
  <2> QED BY <2>1, <2>2
<1> QED BY <1>2, <1>3 DEF AccountsInv, AccountsTypeOK

(* Before the first Setup there are no rows, no sessions and no requests. *)
LEMMA AccountsInitHolds == AccountsInit => AccountsInv
<1> SUFFICES ASSUME AccountsInit PROVE AccountsInv
  OBVIOUS
<1>1. AccountsTypeOK
  BY IdleFits DEF AccountsInit, AccountsTypeOK, NoRow, RowFlags
<1>2. \A r \in Requests : ReqFits(r, req[r], row, granted)
  BY IdleFits DEF AccountsInit
<1> QED
  BY <1>1, <1>2 DEF AccountsInit, AccountsInv, CredentialHasAccount, AdminsAreEntitled,
     LoggedOutStaysOut, NoRow

(* A step of one request that touches no row keeps the invariant. *)
LEMMA NoRowHolds ==
    ASSUME AccountsInv, NEW r \in Requests, NEW k \in ReqRecords, req' = [req EXCEPT ![r] = k],
           ReqFits(r, k, row, granted), UNCHANGED <<row, granted>>,
           hash' # NoHash => hash # NoHash \/ row[AdminUser].exists,
           \/ UNCHANGED <<sessions, loggedOut>>
           \/ UNCHANGED loggedOut /\ \E u \in Users \cup {NoUser} : sessions' = Append(sessions, u)
    PROVE  AccountsInv'
<1>1. AdminsAreEntitled' /\ CredentialHasAccount'
  BY DEF AccountsInv, AdminsAreEntitled, CredentialHasAccount
<1> QED BY <1>1, OneRequestHolds DEF AccountsInv, AccountsTypeOK

(* The write of a PATCH keeps the invariant although the row it was computed from may
   be out of date: it drops no account and makes nobody an administrator who was not
   due to be one. *)
LEMMA PatchHolds ==
    ASSUME AccountsInv, NEW p \in Patches, SetUserAdminFlags(p)
    PROVE  AccountsInv'
<1> DEFINE u == req[p].user
           new == [req[p].cur EXCEPT ![req[p].field] = req[p].value]
           k == [Idle EXCEPT !.at = "done"]
<1>1. p \in Requests /\ req[p] \in ReqRecords /\ req[p].cur \in RowFlags /\ req[p].value \in BOOLEAN
  BY DEF Requests, AccountsInv, AccountsTypeOK, ReqRecords
<1>2. /\ u \in Users /\ req[p].cur.exists /\ req[p].field \in {"admin", "create"}
      /\ req[p].cur.admin => u \in {AdminUser} \cup AdminEmails \cup granted
  BY <1>1 DEF SetUserAdminFlags, AccountsInv, ReqFits
<1>3. /\ row' = [row EXCEPT ![u] = new] /\ req' = [req EXCEPT ![p] = k]
      /\ granted' = IF req[p].field = "admin" /\ req[p].value THEN granted \cup {u} ELSE granted
      /\ UNCHANGED <<hash, sessions, loggedOut>>
  BY <1>2 DEF SetUserAdminFlags, Flags, Done
<1>4. new \in RowFlags /\ new.exists
      /\ (new.admin => \/ req[p].field = "admin" /\ req[p].value
                       \/ u \in {AdminUser} \cup AdminEmails \cup granted)
  <2>1. CASE req[p].field = "admin"
    BY <1>1, <1>2, <2>1 DEF RowFlags
  <2>2. CASE req[p].field = "create"
    BY <1>1, <1>2, <2>2 DEF RowFlags
  <2> QED BY <1>2, <2>1, <2>2
<1> HIDE DEF new
<1>5. row' \in [Users -> RowFlags] /\ (\A v \in Users : row[v].exists => row'[v].exists)
      /\ granted \subseteq granted'
  BY <1>2, <1>3, <1>4 DEF AccountsInv, AccountsTypeOK
<1>6. AdminsAreEntitled'
  <2> SUFFICES ASSUME NEW v \in Users, row'[v].admin
               PROVE  v \in {AdminUser} \cup AdminEmails \cup granted'
    BY DEF AdminsAreEntitled
  <2>1. CASE v = u
    <3>1. new.admin
      BY <1>2, <1>3, <2>1 DEF AccountsInv, AccountsTypeOK
    <3> QED BY <1>3, <1>4, <2>1, <3>1
  <2>2. CASE v # u
    BY <1>3, <1>5, <2>2 DEF AccountsInv, AccountsTypeOK, AdminsAreEntitled
  <2> QED BY <2>1, <2>2
<1>7. CredentialHasAccount'
  BY <1>3, <1>5 DEF AccountsInv, CredentialHasAccount, Users
<1>8. k \in ReqRecords /\ ReqFits(p, k, row', granted')
  BY IdleFits
<1> HIDE DEF k
<1> QED BY <1>1, <1>3, <1>5, <1>6, <1>7, <1>8, OneRequestHolds

(* The upsert and the promotion of completeLogin and Setup keep the invariant. *)
LEMMA LoginWritesHold ==
    ASSUME AccountsInv, NEW r \in Setups \cup Logins, UpsertLogin(r) \/ PromoteUserAdmin(r)
    PROVE  AccountsInv'
<1> DEFINE u == req[r].user
<1>1. r \in Requests /\ req[r] \in ReqRecords /\ u \in Users
  BY DEF UpsertLogin, PromoteUserAdmin, Requests, AccountsInv, AccountsTypeOK, ReqFits
<1>2. PICK l \in {"promote", "hash", "session"} :
         /\ req' = [req EXCEPT ![r].at = l]
         /\ l = "promote" => req[r].admin
         /\ l = "hash" => r \in Setups
  BY DEF UpsertLogin, PromoteUserAdmin, Goto, AfterPromote
<1> DEFINE k == [req[r] EXCEPT !.at = l]
<1>3. /\ k \in ReqRecords /\ req' = [req EXCEPT ![r] = k]
      /\ k.at = l /\ k.user = u /\ k.admin = req[r].admin
  BY <1>1, <1>2 DEF AccountsInv, AccountsTypeOK, ReqRecords
<1>4. row[u] \in RowFlags
  BY <1>1 DEF AccountsInv, AccountsTypeOK
<1>5. /\ row' \in [Users -> RowFlags] /\ row'[u].exists
      /\ \A v \in Users : row[v].exists => row'[v].exists
      /\ \A v \in Users : row'[v].admin => row[v].admin \/ (v = u /\ req[r].admin)
  <2>1. CASE UpsertLogin(r)
    <3>1. row' = [row EXCEPT ![u].exists = TRUE]
      BY <2>1 DEF UpsertLogin, UpsertUser
    <3> QED BY <1>1, <1>4, <3>1 DEF AccountsInv, AccountsTypeOK, RowFlags
  <2>2. CASE PromoteUserAdmin(r)
    <3>1. row[u].exists /\ req[r].admin
      BY <1>1, <2>2 DEF PromoteUserAdmin, AccountsInv, ReqFits
    <3>2. CASE row' = [row EXCEPT ![u].admin = TRUE]
      BY <1>1, <1>4, <3>1, <3>2 DEF AccountsInv, AccountsTypeOK, RowFlags
    <3>3. CASE UNCHANGED row
      BY <1>1, <3>1, <3>3 DEF AccountsInv, AccountsTypeOK
    <3> QED BY <2>2, <3>2, <3>3 DEF PromoteUserAdmin
  <2> QED BY <2>1, <2>2
<1>6. UNCHANGED <<hash, sessions, loggedOut, granted>>
  BY DEF UpsertLogin, PromoteUserAdmin
<1>7. req[r].admin => u \in {AdminUser} \cup AdminEmails
  BY <1>1 DEF AccountsInv, ReqFits
<1>8. r \in Setups => u = AdminUser
  BY <1>1 DEF UpsertLogin, PromoteUserAdmin, AccountsInv, ReqFits
<1>9. AdminsAreEntitled'
  BY <1>5, <1>6, <1>7 DEF AccountsInv, AdminsAreEntitled
<1>10. CredentialHasAccount'
  BY <1>5, <1>6 DEF AccountsInv, CredentialHasAccount, Users
<1> HIDE DEF k
<1>11. ReqFits(r, k, row', granted')
  BY <1>1, <1>2, <1>3, <1>5, <1>6, <1>7, <1>8 DEF ReqFits
<1> QED BY <1>1, <1>3, <1>5, <1>6, <1>9, <1>10, <1>11, OneRequestHolds

(* Every step of Setup, of a login, of a PATCH and of a logout, a failed call and a
   crash keep the invariant. *)
LEMMA AccountsStepHolds ==
    ASSUME AccountsInv, [AccountsNext]_accountsVars
    PROVE  AccountsInv'
<1>0. AdminUser \in Users /\ Setups \subseteq Requests /\ Logins \subseteq Requests /\ Patches \subseteq Requests
  BY DEF Users, Requests
<1>1. ASSUME NEW r \in Requests, NEW u \in Users, NEW admin \in BOOLEAN,
             admin => u \in {AdminUser} \cup AdminEmails, r \in Setups => u = AdminUser,
             req' = [req EXCEPT ![r].at = "upsert", ![r].user = u, ![r].admin = admin],
             UNCHANGED <<hash, row, sessions, loggedOut, granted>>
      PROVE  AccountsInv'
  <2> DEFINE k == [req[r] EXCEPT !.at = "upsert", !.user = u, !.admin = admin]
  <2>1. /\ k \in ReqRecords /\ req' = [req EXCEPT ![r] = k]
        /\ k.at = "upsert" /\ k.user = u /\ k.admin = admin
    BY <1>1 DEF AccountsInv, AccountsTypeOK, ReqRecords
  <2> HIDE DEF k
  <2>2. ReqFits(r, k, row, granted)
    BY <1>1, <2>1 DEF ReqFits
  <2> QED BY <1>1, <2>1, <2>2, NoRowHolds
<1>2. ASSUME NEW s \in Setups, SetupCheck(s) PROVE AccountsInv'
  BY <1>0, <1>1, <1>2 DEF SetupCheck, FirstWrite
<1>3. ASSUME NEW s \in Setups, SetHash(s) PROVE AccountsInv'
  <2> DEFINE k == [req[s] EXCEPT !.at = "session"]
  <2>1. s \in Requests /\ k \in ReqRecords /\ req' = [req EXCEPT ![s] = k] /\ k.at = "session"
        /\ k.admin = req[s].admin /\ k.user = req[s].user
    BY <1>0, <1>3 DEF SetHash, Goto, AccountsInv, AccountsTypeOK, ReqRecords
  <2>2. row[AdminUser].exists /\ ReqFits(s, req[s], row, granted)
    BY <1>3, <2>1 DEF SetHash, AccountsInv, ReqFits
  <2> HIDE DEF k
  <2>3. ReqFits(s, k, row, granted)
    BY <2>1, <2>2 DEF ReqFits
  <2> QED BY <1>3, <2>1, <2>2, <2>3, NoRowHolds DEF SetHash
<1>4. ASSUME NEW l \in Logins, PasswordAccepted(l) PROVE AccountsInv'
  <2>1. l \notin Setups
    BY AccountsAssumption
  <2> QED BY <1>0, <1>1, <1>4, <2>1 DEF PasswordAccepted
<1>5. ASSUME NEW l \in Logins, NEW u \in Users, OidcAccepted(l, u) PROVE AccountsInv'
  <2>1. l \notin Setups
    BY AccountsAssumption
  <2>2. Decide(u).admin \in BOOLEAN /\ (Decide(u).admin => u \in AdminEmails)
    BY DEF Decide
  <2> QED BY <1>0, <1>1, <1>5, <2>1, <2>2 DEF OidcAccepted
<1>6. ASSUME NEW r \in Setups \cup Logins, UpsertLogin(r) \/ PromoteUserAdmin(r) PROVE AccountsInv'
  BY <1>6, LoginWritesHold
<1>7. ASSUME NEW r \in Setups \cup Logins, EstablishSession(r) PROVE AccountsInv'
  <2>1. r \in Requests /\ req[r].user \in Users \cup {NoUser}
    BY <1>0 DEF AccountsInv, AccountsTypeOK, ReqRecords
  <2> QED BY <1>7, <2>1, IdleFits, NoRowHolds DEF EstablishSession, Done, CreateSession
<1>8. ASSUME NEW r \in Requests, DbFails(r) PROVE AccountsInv'
  BY <1>8, IdleFits, NoRowHolds DEF DbFails, Done
<1>9. ASSUME NEW i \in 1..MaxSessions, Logout(i) PROVE AccountsInv'
  <2>1. sessions' \in Seq(Users \cup {NoUser}) /\ DOMAIN sessions' = DOMAIN sessions
        /\ sessions'[i] = NoUser /\ \A j \in DOMAIN sessions \ {i} : sessions'[j] = sessions[j]
    BY <1>9 DEF Logout, AccountsInv, AccountsTypeOK
  <2>2. loggedOut' \subseteq DOMAIN sessions' /\ LoggedOutStaysOut'
    BY <1>9, <2>1 DEF Logout, AccountsInv, AccountsTypeOK, LoggedOutStaysOut
  <2> QED
    BY <1>9, <2>1, <2>2 DEF Logout, AccountsInv, AccountsTypeOK, CredentialHasAccount, AdminsAreEntitled
<1>10. ASSUME NEW i \in 1..MaxSessions, NEW p \in Patches, NEW u \in Users, NEW f \in {"admin", "create"},
              NEW v \in BOOLEAN, RequireAdmin(p, i, u, f, v)
       PROVE  AccountsInv'
  <2> DEFINE k == [at |-> "touch", user |-> u, admin |-> FALSE, field |-> f, value |-> v,
                   cur |-> NoRow, via |-> i]
  <2>1. k \in ReqRecords
    BY AccountsAssumption DEF ReqRecords, NoRow, RowFlags
  <2>2. row[u].exists /\ req' = [req EXCEPT ![p] = k] /\ UNCHANGED <<hash, row, sessions, loggedOut, granted>>
    BY <1>10 DEF RequireAdmin
  <2>3. ReqFits(p, k, row, granted)
    BY <2>2 DEF ReqFits
  <2> HIDE DEF k
  <2> QED BY <1>0, <2>1, <2>2, <2>3, NoRowHolds
<1>11. ASSUME NEW p \in Patches, TouchSession(p) PROVE AccountsInv'
  <2> DEFINE k == [req[p] EXCEPT !.at = "read"]
  <2>1. /\ p \in Requests /\ k \in ReqRecords /\ req' = [req EXCEPT ![p] = k] /\ k.at = "read"
        /\ k.user = req[p].user /\ k.field = req[p].field /\ k.admin = req[p].admin
    BY <1>0, <1>11 DEF TouchSession, Goto, AccountsInv, AccountsTypeOK, ReqRecords
  <2> HIDE DEF k
  <2>2. ReqFits(p, k, row, granted)
    BY <1>11, <2>1 DEF TouchSession, AccountsInv, ReqFits
  <2> QED BY <1>11, <2>1, <2>2, NoRowHolds DEF TouchSession
<1>12. ASSUME NEW p \in Patches, GetUserByID(p) PROVE AccountsInv'
  <2> DEFINE u == req[p].user
             k == [req[p] EXCEPT !.at = "write", !.cur = row[u]]
  <2>0. p \in Requests /\ u \in Users /\ row[u] \in RowFlags /\ req[p] \in ReqRecords
    BY <1>0, <1>12 DEF GetUserByID, AccountsInv, AccountsTypeOK, ReqFits
  <2>1. /\ k \in ReqRecords /\ req' = [req EXCEPT ![p] = k] /\ k.at = "write"
        /\ k.user = u /\ k.field = req[p].field /\ k.admin = req[p].admin /\ k.cur = row[u]
    BY <1>12, <2>0 DEF GetUserByID, AccountsInv, AccountsTypeOK, ReqRecords
  <2> HIDE DEF k
  <2>2. ReqFits(p, k, row, granted)
    BY <1>12, <2>0, <2>1 DEF GetUserByID, AccountsInv, ReqFits, AdminsAreEntitled
  <2> QED BY <1>12, <2>0, <2>1, <2>2, NoRowHolds DEF GetUserByID
<1>13. CASE AccountsStop
  BY <1>13, IdleFits DEF AccountsStop, AccountsInv, AccountsTypeOK, CredentialHasAccount,
                         AdminsAreEntitled, LoggedOutStaysOut
<1>14. CASE UNCHANGED accountsVars
  BY <1>14 DEF accountsVars, AccountsInv, AccountsTypeOK, CredentialHasAccount, AdminsAreEntitled,
               LoggedOutStaysOut
<1> QED
  BY <1>2, <1>3, <1>4, <1>5, <1>6, <1>7, <1>8, <1>9, <1>10, <1>11, <1>12, <1>13, <1>14, PatchHolds
  DEF AccountsNext

(* Who is an administrator follows the decisions, unless a PATCH of the other flag brings
   an earlier value back. *)
LEMMA DecisionsHold ==
    ASSUME AccountsInv, AdminsAreDecided, [AccountsNext]_accountsVars
    PROVE  AdminsAreDecided'
<1>0. row \in [Users -> RowFlags] /\ req \in [Requests -> ReqRecords]
      /\ Setups \subseteq Requests /\ Logins \subseteq Requests /\ Patches \subseteq Requests
  BY DEF AccountsInv, AccountsTypeOK, Requests
<1>1. CASE UNCHANGED <<row, decided, restored>>
  BY <1>1 DEF AdminsAreDecided
<1>2. ASSUME NEW r \in Setups \cup Logins, UpsertLogin(r) PROVE AdminsAreDecided'
  <2>1. UNCHANGED <<decided, restored>> /\ row' = [row EXCEPT ![req[r].user].exists = TRUE]
    BY <1>2 DEF UpsertLogin, UpsertUser
  <2>2. \A v \in Users : row'[v].admin = row[v].admin
    BY <1>0, <2>1 DEF RowFlags
  <2> QED BY <2>1, <2>2 DEF AdminsAreDecided
<1>3. ASSUME NEW r \in Setups \cup Logins, PromoteUserAdmin(r) PROVE AdminsAreDecided'
  <2>1. CASE UNCHANGED <<row, decided, restored>>
    BY <1>1, <2>1
  <2>2. CASE /\ row' = [row EXCEPT ![req[r].user].admin = TRUE]
             /\ decided' = decided \cup {req[r].user} /\ restored' = restored \ {req[r].user}
    <3>1. \A v \in Users : row'[v].admin = IF v = req[r].user THEN TRUE ELSE row[v].admin
      BY <1>0, <2>2 DEF RowFlags
    <3> QED BY <2>2, <3>1 DEF AdminsAreDecided
  <2> QED BY <1>3, <2>1, <2>2 DEF PromoteUserAdmin
<1>4. ASSUME NEW p \in Patches, SetUserAdminFlags(p) PROVE AdminsAreDecided'
  <2> DEFINE u == req[p].user
  <2>1. req[p] \in ReqRecords /\ u \in Users /\ req[p].cur \in RowFlags /\ req[p].value \in BOOLEAN
    BY <1>0, <1>4 DEF SetUserAdminFlags, AccountsInv, ReqFits, ReqRecords
  <2>2. row' = [row EXCEPT ![u] = [req[p].cur EXCEPT ![req[p].field] = req[p].value]]
    BY <1>4 DEF SetUserAdminFlags, Flags
  <2>3. \A v \in Users \ {u} : row'[v] = row[v]
    BY <1>0, <2>2
  <2>4. CASE req[p].field = "admin"
    <3>1. /\ decided' = IF req[p].value THEN decided \cup {u} ELSE decided \ {u}
          /\ restored' = restored \ {u}
      BY <1>4, <2>4 DEF SetUserAdminFlags
    <3>2. row'[u].admin = req[p].value
      BY <1>0, <2>1, <2>2, <2>4 DEF RowFlags
    <3>3. ASSUME NEW v \in Users \ restored' PROVE row'[v].admin <=> v \in decided'
      <4>1. CASE v = u
        BY <2>1, <3>1, <3>2, <4>1
      <4>2. CASE v # u
        BY <2>3, <3>1, <3>3, <4>2 DEF AdminsAreDecided
      <4> QED BY <4>1, <4>2
    <3> QED BY <3>3 DEF AdminsAreDecided
  <2>5. CASE req[p].field = "create"
    <3>1. /\ restored' = IF req[p].cur.admin # row[u].admin THEN restored \cup {u} ELSE restored
          /\ decided' = decided
      BY <1>4, <2>5 DEF SetUserAdminFlags
    <3>2. row'[u].admin = req[p].cur.admin
      BY <1>0, <2>1, <2>2, <2>5 DEF RowFlags
    <3>3. ASSUME NEW v \in Users \ restored' PROVE row'[v].admin <=> v \in decided'
      <4>1. CASE v = u
        BY <2>1, <3>1, <3>2, <3>3, <4>1 DEF AdminsAreDecided
      <4>2. CASE v # u
        BY <2>3, <3>1, <3>3, <4>2 DEF AdminsAreDecided
      <4> QED BY <4>1, <4>2
    <3> QED BY <3>3 DEF AdminsAreDecided
  <2> QED BY <1>4, <2>4, <2>5 DEF SetUserAdminFlags
<1>5. CASE \/ \E s \in Setups : SetupCheck(s) \/ SetHash(s)
           \/ \E l \in Logins : PasswordAccepted(l) \/ \E u \in Users : OidcAccepted(l, u)
           \/ \E r \in Setups \cup Logins : EstablishSession(r)
           \/ \E i \in 1..MaxSessions :
                 \/ Logout(i)
                 \/ \E p \in Patches, u \in Users, f \in {"admin", "create"}, v \in BOOLEAN :
                       RequireAdmin(p, i, u, f, v)
           \/ \E p \in Patches : TouchSession(p) \/ GetUserByID(p)
           \/ \E r \in Requests : DbFails(r)
           \/ AccountsStop
           \/ UNCHANGED accountsVars
  BY <1>1, <1>5 DEF SetupCheck, SetHash, PasswordAccepted, OidcAccepted, EstablishSession, Logout,
     RequireAdmin, TouchSession, GetUserByID, DbFails, AccountsStop, accountsVars
<1> QED BY <1>2, <1>3, <1>4, <1>5 DEF AccountsNext

(* The invariant holds throughout, for every number of requests, users and sessions. *)
LEMMA AccountsInvariant == AccountsSpec => []AccountsInv
<1>1. AccountsInv /\ [AccountsNext]_accountsVars => AccountsInv'
  BY AccountsStepHolds
<1> QED BY AccountsInitHolds, <1>1, PTL DEF AccountsSpec

(* Setup, interrupted anywhere and repeated by anybody, never leaves a password hash
   without the account it belongs to. *)
THEOREM CredentialNeverAlone == AccountsSpec => []CredentialHasAccount
<1>1. AccountsInv => CredentialHasAccount
  BY DEF AccountsInv
<1> QED BY AccountsInvariant, <1>1, PTL

(* is_admin is what the last decision about it says (a promotion by completeLogin, an
   administrator's PATCH) unless adminSetUserFlags wrote back what it had read before
   that decision; nobody else ever becomes an administrator; and a logged-out session
   stays out (Logout, TouchSession). *)
THEOREM AuthorityOnlyGranted == AccountsSpec => []AuthorityIsGranted
<1>1. AccountsInit => AdminsAreDecided
  BY DEF AccountsInit, AdminsAreDecided, NoRow
<1>2. AccountsInv /\ AdminsAreDecided /\ [AccountsNext]_accountsVars => AdminsAreDecided'
  BY DecisionsHold
<1>3. AccountsInv /\ AdminsAreDecided => AuthorityIsGranted
  BY DEF AccountsInv, AuthorityIsGranted
<1> QED BY AccountsInvariant, <1>1, <1>2, <1>3, PTL DEF AccountsSpec

-----------------------------------------------------------------------------
(* The lockout (LoginLockout) *)

LockoutTypeOK ==
    /\ clock \in Nat /\ lastSweep \in Nat
    /\ entries \in [Sources -> [failures : Nat, lockedUntil : Nat, lastSeen : Nat]]
    /\ step \in [Attempts -> {"idle", "gate", "comparing", "wrong", "right"}]
    /\ source \in [Attempts -> Sources]
    /\ seen \in [Attempts -> Nat]
    /\ overrun \in [Sources -> Nat]

(* A time an attempt works with is not in the future. *)
SeenIsPast == \A a \in Attempts : seen[a] <= clock

(* A lock was set by a failure past the threshold and ends by the delay for the
   failures counted since. *)
LocksDue ==
    \A k \in Sources :
        \/ entries[k].lockedUntil = 0
        \/ entries[k].failures >= Threshold /\ entries[k].lockedUntil <= clock + Delay(entries[k].failures)

(* The attempts of a source past the gate and not yet recorded. *)
PastGate(k) == {a \in Attempts : source[a] = k /\ step[a] \in {"comparing", "wrong", "right"}}

(* Since the gate last opened for a source: either no lock has been running, and nothing
   is counted; or the attempt that started the lock is neither counted nor past the gate. *)
OverrunHasRoom ==
    \A k \in Sources :
        \/ overrun[k] = 0 /\ clock >= entries[k].lockedUntil
        \/ overrun[k] + Cardinality(PastGate(k)) < Cardinality(Attempts)

LockoutInv == LockoutTypeOK /\ SeenIsPast /\ LocksDue /\ OverrunHasRoom

(* The recursion of the backoff defines a function, of numbers. *)
LEMMA DoubledIsDefined ==
    /\ Doubled \in [Nat -> Nat]
    /\ \A n \in Nat : Doubled[n + 1] = IF Doubled[n] < MaxDelay THEN 2 * Doubled[n] ELSE Doubled[n]
<1> DEFINE Equation(f) ==
      f = [n \in Nat |-> IF n = 0 THEN Base
                         ELSE IF f[n - 1] < MaxDelay THEN 2 * f[n - 1] ELSE f[n - 1]]
<1>1. Base \in Nat /\ MaxDelay \in Nat
  BY LockoutAssumption
<1>2. PICK twice \in [Nat -> Nat] : \A v \in Nat : twice[v] = IF v < MaxDelay THEN 2 * v ELSE v
  <2> DEFINE t == [v \in Nat |-> IF v < MaxDelay THEN 2 * v ELSE v]
  <2>1. t \in [Nat -> Nat] /\ \A v \in Nat : t[v] = IF v < MaxDelay THEN 2 * v ELSE v
    BY <1>1
  <2> HIDE DEF t
  <2> QED BY <2>1
<1>3. PICK g \in [Nat -> Nat] : g[0] = Base /\ \A n \in Nat : g[n + 1] = twice[g[n]]
  BY <1>1, <1>2, IterationExists DEF Iterates
<1>4. Equation(g)
  <2>1. ASSUME NEW n \in Nat, n # 0
        PROVE  g[n] = IF g[n - 1] < MaxDelay THEN 2 * g[n - 1] ELSE g[n - 1]
    <3>1. n - 1 \in Nat /\ (n - 1) + 1 = n
      BY <2>1
    <3>2. g[n] = twice[g[n - 1]]
      BY <1>3, <3>1
    <3> QED BY <1>2, <1>3, <3>1, <3>2
  <2> QED BY <1>3, <2>1
<1>5. Equation(Doubled)
  <2>1. Doubled = CHOOSE f : Equation(f)
    BY DEF Doubled
  <2> HIDE DEF Equation
  <2> QED BY <1>4, <2>1
<1>6. Doubled[0] = Base
      /\ \A n \in Nat : Doubled[n + 1] = IF Doubled[n] < MaxDelay THEN 2 * Doubled[n] ELSE Doubled[n]
  <2> HIDE DEF Doubled
  <2>1. ASSUME NEW n \in Nat
        PROVE  Doubled[n + 1] = IF Doubled[n] < MaxDelay THEN 2 * Doubled[n] ELSE Doubled[n]
    <3>1. n + 1 \in Nat /\ n + 1 # 0 /\ (n + 1) - 1 = n
      OBVIOUS
    <3> QED BY <1>5, <3>1
  <2> QED BY <1>5, <2>1
<1> DEFINE Typed == {n \in Nat : Doubled[n] \in Nat}
<1>7. Typed = Nat
  <2>1. 0 \in Typed /\ \A n \in Typed : n + 1 \in Typed
    BY <1>1, <1>6
  <2>2. Typed \in SUBSET Nat
    OBVIOUS
  <2> HIDE DEF Typed
  <2> QED BY <2>1, <2>2, NatSetInduction
<1>8. Doubled = [n \in Nat |-> Doubled[n]]
  <2> HIDE DEF Doubled
  <2> QED BY <1>5
<1>9. \A n \in Nat : Doubled[n] \in Nat
  BY <1>7
<1> HIDE DEF Doubled, Equation, Typed
<1>10. Doubled \in [Nat -> Nat]
  BY <1>8, <1>9
<1> QED BY <1>6, <1>10

(* The delay is a number, and never shrinks from one failure to the next. *)
LEMMA DelayGrows ==
    ASSUME NEW n \in Nat, n >= Threshold
    PROVE  Delay(n) \in Nat /\ Delay(n + 1) \in Nat /\ Delay(n) <= Delay(n + 1)
<1>1. n - Threshold \in Nat /\ (n + 1) - Threshold = (n - Threshold) + 1 /\ MaxDelay \in Nat
  BY LockoutAssumption
<1> DEFINE d == Doubled[n - Threshold]
<1>2. d \in Nat /\ Doubled[(n + 1) - Threshold] = IF d < MaxDelay THEN 2 * d ELSE d
  BY <1>1, DoubledIsDefined
<1> HIDE DEF d
<1>3. Delay(n) = IF d > MaxDelay THEN MaxDelay ELSE d
  BY DEF Delay, d
<1>4. Delay(n + 1) = LET e == IF d < MaxDelay THEN 2 * d ELSE d IN IF e > MaxDelay THEN MaxDelay ELSE e
  BY <1>2 DEF Delay
<1> QED BY <1>1, <1>2, <1>3, <1>4

(* Past the gate are finitely many attempts, at most all of them. *)
LEMMA PastGateIsSmall ==
    ASSUME NEW k \in Sources
    PROVE  /\ IsFiniteSet(PastGate(k)) /\ Cardinality(PastGate(k)) \in Nat
           /\ Cardinality(Attempts) \in Nat /\ Cardinality(PastGate(k)) <= Cardinality(Attempts)
<1>1. IsFiniteSet(Attempts) /\ PastGate(k) \subseteq Attempts
  BY LockoutAssumption DEF PastGate
<1> HIDE DEF PastGate
<1> QED BY <1>1, FS_Subset, FS_CardinalityType

(* An attempt past the gate that is done makes room for one more; nothing else about
   who is past the gate changes. *)
LEMMA PastGateLeft ==
    ASSUME LockoutTypeOK, NEW a \in Attempts, step[a] \in {"wrong", "right"},
           step' = [step EXCEPT ![a] = "idle"], source' = source
    PROVE  /\ Cardinality(PastGate(source[a])') = Cardinality(PastGate(source[a])) - 1
           /\ \A k \in Sources : k # source[a] => PastGate(k)' = PastGate(k)
<1>1. a \in PastGate(source[a]) /\ source[a] \in Sources
  BY DEF PastGate, LockoutTypeOK
<1>2. PastGate(source[a])' = PastGate(source[a]) \ {a}
  BY DEF PastGate, LockoutTypeOK
<1>3. \A k \in Sources : k # source[a] => PastGate(k)' = PastGate(k)
  BY DEF PastGate, LockoutTypeOK
<1>4. IsFiniteSet(PastGate(source[a]))
  BY <1>1, PastGateIsSmall
<1>5. Cardinality(PastGate(source[a]) \ {a}) = Cardinality(PastGate(source[a])) - 1
  <2> DEFINE P == PastGate(source[a])
  <2>1. a \in P /\ IsFiniteSet(P)
    BY <1>1, <1>4
  <2> HIDE DEF P
  <2>2. Cardinality(P \ {a}) = Cardinality(P) - 1
    BY <2>1, FS_RemoveElement
  <2> QED BY <2>2 DEF P
<1> QED BY <1>2, <1>3, <1>5

(* A step that moves one attempt without it passing or leaving the comparison changes
   nobody's place. *)
LEMMA PastGateKept ==
    ASSUME LockoutTypeOK, NEW a \in Attempts, NEW to \in {"idle", "gate", "wrong", "right"},
           step' = [step EXCEPT ![a] = to], source' = source,
           step[a] \in {"idle", "gate"} <=> to \in {"idle", "gate"}
    PROVE  \A k \in Sources : PastGate(k)' = PastGate(k)
BY DEF PastGate, LockoutTypeOK

(* A sweep keeps an entry or forgets one that is idle and not locked. *)
LEMMA SweepIsSafe ==
    ASSUME LockoutInv, NEW now \in Nat, now <= clock
    PROVE  /\ Swept(now) \in [Sources -> [failures : Nat, lockedUntil : Nat, lastSeen : Nat]]
           /\ SweptAt(now) \in Nat
           /\ \A k \in Sources :
                 \/ Swept(now)[k] = entries[k]
                 \/ /\ Swept(now)[k] = Forgotten
                    /\ now - entries[k].lastSeen >= IdleTTL /\ now >= entries[k].lockedUntil
<1>1. Forgotten \in [failures : Nat, lockedUntil : Nat, lastSeen : Nat]
  BY DEF Forgotten
<1>2. entries \in [Sources -> [failures : Nat, lockedUntil : Nat, lastSeen : Nat]] /\ lastSweep \in Nat
  BY DEF LockoutInv, LockoutTypeOK
<1>3. SweptAt(now) \in Nat
  BY <1>2 DEF SweptAt
<1>4. CASE now - lastSweep < IdleTTL
  BY <1>2, <1>3, <1>4 DEF Swept
<1>5. CASE ~(now - lastSweep < IdleTTL)
  BY <1>1, <1>2, <1>3, <1>5 DEF Swept
<1> QED BY <1>4, <1>5

(* The inductive invariant of the lockout holds at the start. *)
LEMMA LockoutInitHolds == LockoutInit => LockoutInv
<1> SUFFICES ASSUME LockoutInit PROVE LockoutInv
  OBVIOUS
<1>1. \A k \in Sources : entries[k] = Forgotten
  BY DEF LockoutInit
<1>2. Forgotten \in [failures : Nat, lockedUntil : Nat, lastSeen : Nat] /\ Forgotten.lockedUntil = 0
  BY DEF Forgotten
<1> QED BY <1>1, <1>2 DEF LockoutInit, LockoutInv, LockoutTypeOK, SeenIsPast, LocksDue, OverrunHasRoom

(* Every step of the lockout keeps the invariant. *)
LEMMA LockoutStepHolds ==
    ASSUME LockoutInv, [LockoutNext]_lockoutVars
    PROVE  LockoutInv'
<1> DEFINE Entry == [failures : Nat, lockedUntil : Nat, lastSeen : Nat]
<1>0. /\ LockoutTypeOK /\ SeenIsPast /\ LocksDue /\ OverrunHasRoom
      /\ Forgotten \in Entry /\ Forgotten.lockedUntil = 0 /\ Forgotten.failures = 0
  BY DEF LockoutInv, Forgotten
<1>1. CASE LockoutTick
  <2>1. clock' = clock + 1 /\ UNCHANGED <<entries, lastSweep, step, source, seen, overrun>>
    BY <1>1 DEF LockoutTick
  <2>2. \A k \in Sources : PastGate(k)' = PastGate(k)
    BY <2>1 DEF PastGate
  <2>3. LockoutTypeOK' /\ SeenIsPast'
    BY <1>0, <2>1 DEF LockoutTypeOK, SeenIsPast
  <2>4. LocksDue'
    <3>1. ASSUME NEW k \in Sources, entries[k].lockedUntil # 0
          PROVE  entries[k].failures >= Threshold
                 /\ entries[k].lockedUntil <= (clock + 1) + Delay(entries[k].failures)
      <4>1. entries[k].failures \in Nat /\ entries[k].lockedUntil \in Nat /\ clock \in Nat
        BY <1>0 DEF LockoutTypeOK
      <4>2. entries[k].failures >= Threshold
            /\ entries[k].lockedUntil <= clock + Delay(entries[k].failures)
        BY <1>0, <3>1 DEF LocksDue
      <4>3. Delay(entries[k].failures) \in Nat
        BY <4>1, <4>2, DelayGrows
      <4> QED BY <4>1, <4>2, <4>3
    <3> QED BY <2>1, <3>1 DEF LocksDue, Delay
  <2>5. OverrunHasRoom'
    BY <1>0, <2>1, <2>2 DEF OverrunHasRoom, LockoutTypeOK
  <2> QED BY <2>3, <2>4, <2>5 DEF LockoutInv
<1>2. ASSUME NEW a \in Attempts, LoginPassword(a) \/ Compare(a)
      PROVE  LockoutInv'
  <2>1. PICK to \in {"gate", "wrong", "right"} :
            step' = [step EXCEPT ![a] = to] /\ (step[a] \in {"idle", "gate"} <=> to \in {"idle", "gate"})
    BY <1>2 DEF LoginPassword, Compare
  <2>2. seen' = [seen EXCEPT ![a] = clock] /\ UNCHANGED <<clock, entries, lastSweep, source, overrun>>
    BY <1>2 DEF LoginPassword, Compare
  <2>3. \A k \in Sources : PastGate(k)' = PastGate(k)
    BY <1>0, <2>1, <2>2, PastGateKept
  <2>4. LockoutTypeOK' /\ SeenIsPast'
    BY <1>0, <2>1, <2>2 DEF LockoutTypeOK, SeenIsPast
  <2>5. LocksDue' /\ OverrunHasRoom'
    BY <1>0, <2>2, <2>3 DEF LocksDue, Delay, OverrunHasRoom
  <2> QED BY <2>4, <2>5 DEF LockoutInv
<1>3. ASSUME NEW a \in Attempts, Gate(a)
      PROVE  LockoutInv'
  <2> DEFINE swept == Swept(seen[a])
             e == swept[source[a]]
  <2>1. seen[a] \in Nat /\ seen[a] <= clock /\ source[a] \in Sources
    BY <1>0 DEF LockoutTypeOK, SeenIsPast
  <2>2. /\ swept \in [Sources -> Entry] /\ SweptAt(seen[a]) \in Nat
        /\ \A k \in Sources : swept[k] = entries[k] \/ swept[k] = Forgotten
    BY <2>1, SweepIsSafe
  <2>3. /\ step[a] = "gate" /\ lastSweep' = SweptAt(seen[a]) /\ UNCHANGED <<clock, source, seen>>
        /\ entries' = IF e = Forgotten THEN swept ELSE [swept EXCEPT ![source[a]].lastSeen = seen[a]]
        /\ \/ /\ seen[a] >= e.lockedUntil
              /\ step' = [step EXCEPT ![a] = "comparing"]
              /\ overrun' = [overrun EXCEPT ![source[a]] = 0]
           \/ step' = [step EXCEPT ![a] = "idle"] /\ UNCHANGED overrun
    BY <1>3 DEF Gate, GatePasses
  <2> HIDE DEF swept
  <2>4. /\ entries' \in [Sources -> Entry]
        /\ \A k \in Sources : entries'[k].failures = swept[k].failures
                              /\ entries'[k].lockedUntil = swept[k].lockedUntil
    BY <2>1, <2>2, <2>3
  <2>5. LockoutTypeOK' /\ SeenIsPast'
    <3>1. overrun' \in [Sources -> Nat] /\ step' \in [Attempts -> {"idle", "gate", "comparing", "wrong", "right"}]
      BY <1>0, <2>3 DEF LockoutTypeOK
    <3> QED BY <1>0, <2>1, <2>2, <2>3, <2>4, <3>1 DEF LockoutTypeOK, SeenIsPast
  <2>6. LocksDue'
    BY <1>0, <2>2, <2>3, <2>4 DEF LocksDue, Delay
  <2>7. OverrunHasRoom'
    <3> SUFFICES ASSUME NEW k \in Sources
                 PROVE  \/ overrun'[k] = 0 /\ clock >= entries'[k].lockedUntil
                        \/ overrun'[k] + Cardinality(PastGate(k)') < Cardinality(Attempts)
      BY <2>3 DEF OverrunHasRoom
    <3>1. clock >= entries[k].lockedUntil => clock >= entries'[k].lockedUntil
      <4>1. clock \in Nat
        BY <1>0 DEF LockoutTypeOK
      <4>2. entries'[k].lockedUntil = entries[k].lockedUntil \/ entries'[k].lockedUntil = 0
        BY <1>0, <2>2, <2>4
      <4> QED BY <4>1, <4>2
    <3>2. \/ overrun[k] = 0 /\ clock >= entries[k].lockedUntil
          \/ overrun[k] + Cardinality(PastGate(k)) < Cardinality(Attempts)
      BY <1>0 DEF OverrunHasRoom
    <3>3. CASE step' = [step EXCEPT ![a] = "idle"] /\ UNCHANGED overrun
      <4>1. PastGate(k)' = PastGate(k)
        BY <1>0, <2>3, <3>3, PastGateKept
      <4> QED BY <3>1, <3>2, <3>3, <4>1
    <3>4. CASE /\ seen[a] >= e.lockedUntil
               /\ step' = [step EXCEPT ![a] = "comparing"]
               /\ overrun' = [overrun EXCEPT ![source[a]] = 0]
      <4>1. CASE k = source[a]
        <5>1. overrun'[k] = 0
          BY <1>0, <3>4, <4>1 DEF LockoutTypeOK
        <5>2. clock >= e.lockedUntil
          <6>1. e.lockedUntil \in Nat /\ clock \in Nat
            BY <1>0, <2>1, <2>2 DEF LockoutTypeOK
          <6> HIDE DEF e
          <6> QED BY <2>1, <3>4, <6>1
        <5> QED BY <2>4, <4>1, <5>1, <5>2
      <4>2. CASE k # source[a]
        <5>1. PastGate(k)' = PastGate(k)
          BY <1>0, <2>3, <3>4, <4>2 DEF PastGate, LockoutTypeOK
        <5>2. overrun'[k] = overrun[k]
          BY <1>0, <3>4, <4>2 DEF LockoutTypeOK
        <5> QED BY <3>1, <3>2, <5>1, <5>2
      <4> QED BY <4>1, <4>2
    <3> QED BY <2>3, <3>3, <3>4
  <2> QED BY <2>5, <2>6, <2>7 DEF LockoutInv
<1>4. ASSUME NEW a \in Attempts, RecordFailure(a)
      PROVE  LockoutInv'
  <2> DEFINE src == source[a]
             swept == Swept(seen[a])
             n == swept[src].failures + 1
             until == IF n < Threshold THEN swept[src].lockedUntil ELSE seen[a] + Delay(n)
  <2>1. seen[a] \in Nat /\ seen[a] <= clock /\ src \in Sources /\ clock \in Nat
    BY <1>0 DEF LockoutTypeOK, SeenIsPast
  <2>2. /\ swept \in [Sources -> Entry] /\ SweptAt(seen[a]) \in Nat
        /\ \A k \in Sources : swept[k] = entries[k] \/ swept[k] = Forgotten
    BY <2>1, SweepIsSafe
  <2>3. /\ step[a] = "wrong" /\ lastSweep' = SweptAt(seen[a]) /\ UNCHANGED <<clock, source, seen>>
        /\ entries' = [swept EXCEPT ![src] = [failures |-> n, lastSeen |-> seen[a], lockedUntil |-> until]]
        /\ overrun' = [overrun EXCEPT ![src] = IF clock < entries[src].lockedUntil THEN @ + 1 ELSE @]
        /\ step' = [step EXCEPT ![a] = "idle"]
    BY <1>4 DEF RecordFailure
  <2> HIDE DEF swept
  <2>4. n \in Nat
    BY <2>1, <2>2
  <2>5. until \in Nat /\ (until = 0 \/ (n >= Threshold /\ until <= clock + Delay(n)))
    <3>1. CASE n < Threshold
      <4>1. until = swept[src].lockedUntil
        BY <3>1
      <4>2. swept[src].lockedUntil \in Nat
        BY <2>1, <2>2
      <4>3. swept[src].lockedUntil = 0
        <5>1. ASSUME swept[src] = entries[src] PROVE entries[src].lockedUntil = 0
          <6>1. ~(entries[src].failures >= Threshold)
            BY <2>1, <2>2, <3>1, <5>1, LockoutAssumption
          <6> QED BY <1>0, <2>1, <6>1 DEF LocksDue
        <5> QED BY <1>0, <2>1, <2>2, <5>1
      <4> QED BY <4>1, <4>3
    <3>2. CASE n >= Threshold
      <4>1. Delay(n) \in Nat
        <5> HIDE DEF n
        <5> QED BY <2>4, <3>2, DelayGrows
      <4>2. until = seen[a] + Delay(n)
        <5>1. ~(n < Threshold)
          <6> HIDE DEF n
          <6> QED BY <2>4, <3>2, LockoutAssumption
        <5> QED BY <5>1
      <4> HIDE DEF until, n
      <4> QED BY <2>1, <3>2, <4>1, <4>2
    <3> HIDE DEF n, until
    <3> QED BY <2>4, <3>1, <3>2, LockoutAssumption
  <2> HIDE DEF until, n
  <2>6. /\ entries' \in [Sources -> Entry]
        /\ entries'[src].failures = n /\ entries'[src].lockedUntil = until
        /\ \A k \in Sources : k # src => entries'[k] = swept[k]
    BY <2>1, <2>2, <2>3, <2>4, <2>5
  <2>7. LockoutTypeOK' /\ SeenIsPast'
    BY <1>0, <2>1, <2>2, <2>3, <2>6 DEF LockoutTypeOK, SeenIsPast
  <2>8. LocksDue'
    <3> SUFFICES ASSUME NEW k \in Sources
                 PROVE  \/ entries'[k].lockedUntil = 0
                        \/ entries'[k].failures >= Threshold
                           /\ entries'[k].lockedUntil <= clock + Delay(entries'[k].failures)
      BY <2>3 DEF LocksDue, Delay
    <3>1. CASE k = src
      BY <2>5, <2>6, <3>1
    <3>2. CASE k # src
      BY <1>0, <2>2, <2>6, <3>2 DEF LocksDue
    <3> QED BY <3>1, <3>2
  <2>9. OverrunHasRoom'
    <3> SUFFICES ASSUME NEW k \in Sources
                 PROVE  \/ overrun'[k] = 0 /\ clock >= entries'[k].lockedUntil
                        \/ overrun'[k] + Cardinality(PastGate(k)') < Cardinality(Attempts)
      BY <2>3 DEF OverrunHasRoom
    <3>1. \/ overrun[k] = 0 /\ clock >= entries[k].lockedUntil
          \/ overrun[k] + Cardinality(PastGate(k)) < Cardinality(Attempts)
      BY <1>0 DEF OverrunHasRoom
    <3>2. /\ Cardinality(PastGate(k)) \in Nat /\ Cardinality(Attempts) \in Nat
          /\ Cardinality(PastGate(k)) <= Cardinality(Attempts)
      BY PastGateIsSmall
    <3>3. overrun[k] \in Nat /\ entries[k].lockedUntil \in Nat /\ clock \in Nat
      BY <1>0 DEF LockoutTypeOK
    <3>4. CASE k = src
      <4>1. Cardinality(PastGate(k)') = Cardinality(PastGate(k)) - 1
        BY <1>0, <2>3, <3>4, PastGateLeft
      <4>2. overrun'[k] = IF clock < entries[k].lockedUntil THEN overrun[k] + 1 ELSE overrun[k]
        BY <1>0, <2>3, <3>4 DEF LockoutTypeOK
      <4> QED BY <3>1, <3>2, <3>3, <4>1, <4>2
    <3>5. CASE k # src
      <4>1. PastGate(k)' = PastGate(k) /\ overrun'[k] = overrun[k]
        BY <1>0, <2>3, <3>5, PastGateLeft DEF LockoutTypeOK
      <4>2. clock >= entries[k].lockedUntil => clock >= entries'[k].lockedUntil
        BY <1>0, <2>2, <2>6, <3>3, <3>5
      <4> QED BY <3>1, <4>1, <4>2
    <3> QED BY <3>4, <3>5
  <2> QED BY <2>7, <2>8, <2>9 DEF LockoutInv
<1>5. ASSUME NEW a \in Attempts, RecordSuccess(a)
      PROVE  LockoutInv'
  <2>1. /\ step[a] = "right" /\ UNCHANGED <<clock, lastSweep, source, seen, overrun>>
        /\ entries' = [entries EXCEPT ![source[a]] = Forgotten]
        /\ step' = [step EXCEPT ![a] = "idle"]
    BY <1>5 DEF RecordSuccess
  <2>2. LockoutTypeOK' /\ SeenIsPast'
    BY <1>0, <2>1 DEF LockoutTypeOK, SeenIsPast
  <2>3. \A k \in Sources : entries'[k] = entries[k] \/ entries'[k] = Forgotten
    BY <1>0, <2>1 DEF LockoutTypeOK
  <2>4. LocksDue'
    BY <1>0, <2>1, <2>3 DEF LocksDue, Delay
  <2>5. OverrunHasRoom'
    <3> SUFFICES ASSUME NEW k \in Sources
                 PROVE  \/ overrun[k] = 0 /\ clock >= entries'[k].lockedUntil
                        \/ overrun[k] + Cardinality(PastGate(k)') < Cardinality(Attempts)
      BY <2>1 DEF OverrunHasRoom
    <3>1. Cardinality(PastGate(k)') <= Cardinality(PastGate(k)) /\ Cardinality(PastGate(k)') \in Int
      <4>1. Cardinality(PastGate(k)) \in Nat
        BY PastGateIsSmall
      <4>2. CASE k = source[a]
        <5>1. Cardinality(PastGate(k)') = Cardinality(PastGate(k)) - 1
          BY <1>0, <2>1, <4>2, PastGateLeft
        <5> QED BY <4>1, <5>1
      <4>3. CASE k # source[a]
        <5>1. PastGate(k)' = PastGate(k)
          BY <1>0, <2>1, <4>3, PastGateLeft
        <5> QED BY <4>1, <5>1
      <4> QED BY <4>2, <4>3
    <3>2. /\ Cardinality(PastGate(k)) \in Nat /\ Cardinality(Attempts) \in Nat
          /\ overrun[k] \in Nat /\ entries[k].lockedUntil \in Nat /\ clock \in Nat
      BY <1>0, PastGateIsSmall DEF LockoutTypeOK
    <3>3. \/ overrun[k] = 0 /\ clock >= entries[k].lockedUntil
          \/ overrun[k] + Cardinality(PastGate(k)) < Cardinality(Attempts)
      BY <1>0 DEF OverrunHasRoom
    <3> QED BY <1>0, <2>3, <3>1, <3>2, <3>3
  <2> QED BY <2>2, <2>4, <2>5 DEF LockoutInv
<1>6. CASE UNCHANGED lockoutVars
  <2>1. UNCHANGED <<clock, entries, lastSweep, step, source, seen, overrun>>
    BY <1>6 DEF lockoutVars
  <2>2. \A k \in Sources : PastGate(k)' = PastGate(k)
    BY <2>1 DEF PastGate
  <2> QED BY <1>0, <2>1, <2>2 DEF LockoutInv, LockoutTypeOK, SeenIsPast, LocksDue, Delay, OverrunHasRoom
<1> QED BY <1>1, <1>2, <1>3, <1>4, <1>5, <1>6 DEF LockoutNext

(* The invariant holds throughout, for every number of attempts and sources. *)
LEMMA LockoutInvariant == LockoutSpec => []LockoutInv
<1>1. LockoutInv /\ [LockoutNext]_lockoutVars => LockoutInv'
  BY LockoutStepHolds
<1> QED BY LockoutInitHolds, <1>1, PTL DEF LockoutSpec

(* However the comparisons overlap, a lock lets through fewer wrong guesses than there
   are requests in flight (locked, recordFailure). *)
THEOREM OverrunIsBounded == LockoutSpec => []OverrunBounded
<1>1. LockoutInv => OverrunBounded
  <2> SUFFICES ASSUME LockoutInv, NEW k \in Sources
               PROVE  overrun[k] < Cardinality(Attempts)
    BY DEF OverrunBounded
  <2>1. /\ Cardinality(PastGate(k)) \in Nat /\ Cardinality(Attempts) \in Nat /\ overrun[k] \in Nat
    BY PastGateIsSmall DEF LockoutInv, LockoutTypeOK
  <2>2. Cardinality(Attempts) # 0
    BY LockoutAssumption, FS_EmptySet
  <2> QED BY <2>1, <2>2 DEF LockoutInv, OverrunHasRoom
<1> QED BY LockoutInvariant, <1>1, PTL

(* A failure that re-arms a running lock takes off it no more than the time the call
   waited for the mutex: the backoff has grown meanwhile (recordFailure). *)
LEMMA FailureKeepsLock ==
    ASSUME LockoutInv, NEW a \in Attempts, RecordFailure(a), ~(clock >= entries[source[a]].lockedUntil)
    PROVE  entries'[source[a]].lockedUntil + (clock - seen[a]) >= entries[source[a]].lockedUntil
<1> DEFINE src == source[a]
           f == entries[src].failures
           swept == Swept(seen[a])
<1>1. /\ seen[a] \in Nat /\ seen[a] <= clock /\ src \in Sources /\ clock \in Nat
      /\ entries[src].lockedUntil \in Nat /\ f \in Nat /\ Threshold \in Nat
  BY LockoutAssumption DEF LockoutInv, LockoutTypeOK, SeenIsPast
<1>2. ~(seen[a] >= entries[src].lockedUntil)
  BY <1>1
<1>3. swept[src] = entries[src] /\ swept \in [Sources -> [failures : Nat, lockedUntil : Nat, lastSeen : Nat]]
  BY <1>1, <1>2, SweepIsSafe
<1>4. f >= Threshold /\ entries[src].lockedUntil <= clock + Delay(f)
  BY <1>1 DEF LockoutInv, LocksDue
<1>5. Delay(f) \in Nat /\ Delay(f + 1) \in Nat /\ Delay(f) <= Delay(f + 1)
  <2> HIDE DEF f
  <2> QED BY <1>1, <1>4, DelayGrows
<1>6. entries' = [swept EXCEPT ![src] =
          [failures |-> swept[src].failures + 1, lastSeen |-> seen[a],
           lockedUntil |-> IF swept[src].failures + 1 < Threshold THEN swept[src].lockedUntil
                           ELSE seen[a] + Delay(swept[src].failures + 1)]]
  BY DEF RecordFailure
<1> HIDE DEF swept
<1>7. entries'[src].lockedUntil = IF f + 1 < Threshold THEN entries[src].lockedUntil ELSE seen[a] + Delay(f + 1)
  BY <1>1, <1>3, <1>6
<1>8. ~(f + 1 < Threshold)
  BY <1>1, <1>4
<1> HIDE DEF f
<1> QED BY <1>1, <1>4, <1>5, <1>7, <1>8

(* A step that lowers a source's count follows a right password from it, or found it
   idle and not locked (maybeSweepLocked, recordSuccess). *)
LEMMA ForgetsOnlyIdle ==
    ASSUME LockoutInv, [LockoutNext]_lockoutVars, NEW k \in Sources,
           entries'[k].failures < entries[k].failures
    PROVE  \/ \E a \in Attempts : source[a] = k /\ step[a] = "right"
           \/ clock - entries[k].lastSeen >= IdleTTL /\ clock >= entries[k].lockedUntil
<1>0. /\ clock \in Nat /\ entries[k].failures \in Nat /\ entries[k].lastSeen \in Nat
      /\ entries[k].lockedUntil \in Nat /\ IdleTTL \in Nat
  BY LockoutAssumption DEF LockoutInv, LockoutTypeOK
<1>1. CASE UNCHANGED entries
  BY <1>0, <1>1
<1>2. ASSUME NEW a \in Attempts, Gate(a) \/ RecordFailure(a)
      PROVE  clock - entries[k].lastSeen >= IdleTTL /\ clock >= entries[k].lockedUntil
  <2> DEFINE swept == Swept(seen[a])
  <2>1. seen[a] \in Nat /\ seen[a] <= clock /\ source[a] \in Sources
    BY DEF LockoutInv, LockoutTypeOK, SeenIsPast
  <2>2. /\ swept \in [Sources -> [failures : Nat, lockedUntil : Nat, lastSeen : Nat]]
        /\ \/ swept[k] = entries[k]
           \/ seen[a] - entries[k].lastSeen >= IdleTTL /\ seen[a] >= entries[k].lockedUntil
    BY <2>1, SweepIsSafe
  <2>3. entries'[k].failures >= swept[k].failures /\ entries'[k].failures \in Nat
    <3>1. CASE Gate(a)
      <4>1. entries' = swept \/ entries' = [swept EXCEPT ![source[a]].lastSeen = seen[a]]
        BY <3>1 DEF Gate
      <4> HIDE DEF swept
      <4> QED BY <2>1, <2>2, <4>1
    <3>2. CASE RecordFailure(a)
      <4>1. PICK u : entries' = [swept EXCEPT ![source[a]] =
                       [failures |-> swept[source[a]].failures + 1, lastSeen |-> seen[a], lockedUntil |-> u]]
        BY <3>2 DEF RecordFailure
      <4> HIDE DEF swept
      <4> QED BY <2>1, <2>2, <4>1
    <3> QED BY <1>2, <3>1, <3>2
  <2> HIDE DEF swept
  <2>4. swept[k] # entries[k]
    <3>1. ~(entries'[k].failures >= entries[k].failures)
      BY <1>0, <2>3
    <3> QED BY <2>3, <3>1
  <2> QED BY <1>0, <2>1, <2>2, <2>4
<1>3. ASSUME NEW a \in Attempts, RecordSuccess(a)
      PROVE  source[a] = k /\ step[a] = "right"
  <2>1. step[a] = "right" /\ entries' = [entries EXCEPT ![source[a]] = Forgotten]
    BY <1>3 DEF RecordSuccess
  <2>2. source[a] # k => entries'[k] = entries[k]
    BY <2>1 DEF LockoutInv, LockoutTypeOK
  <2> QED BY <1>0, <2>1, <2>2
<1>4. ASSUME NEW a \in Attempts, LoginPassword(a) \/ Compare(a)
      PROVE  UNCHANGED entries
  BY <1>4 DEF LoginPassword, Compare
<1> QED BY <1>1, <1>2, <1>3, <1>4 DEF LockoutNext, LockoutTick, lockoutVars

(* What the lockout holds against a source stands, in every step: failures that overlap
   and sweeps by other sources' calls neither wipe its history nor shorten a lock by
   more than the time a call waited (recordFailure, maybeSweepLocked). *)
THEOREM LockoutEndures == LockoutSpec => LockoutStands
<1>1. LockoutInv /\ [LockoutNext]_lockoutVars =>
        [\A a \in Attempts : RecordFailure(a) =>
            \/ clock >= entries[source[a]].lockedUntil
            \/ entries'[source[a]].lockedUntil + (clock - seen[a]) >= entries[source[a]].lockedUntil
        ]_lockoutVars
  BY FailureKeepsLock
<1>2. LockoutInv /\ [LockoutNext]_lockoutVars =>
        [\A k \in Sources :
            entries[k] # Forgotten /\ entries'[k].failures < entries[k].failures =>
               \/ \E a \in Attempts : source[a] = k /\ step[a] = "right"
               \/ /\ clock - entries[k].lastSeen >= IdleTTL
                  /\ clock >= entries[k].lockedUntil
        ]_lockoutVars
  BY ForgetsOnlyIdle
<1> QED BY LockoutInvariant, <1>1, <1>2, PTL
        DEF LockoutSpec, LockoutStands, LockShortenedOnlyByWait, ForgottenOnlyWhenIdle

-----------------------------------------------------------------------------
(* The redirect login's single-use store (OidcLogin) *)

OidcTypeOK ==
    /\ ticks \in Nat /\ usedSweep \in Nat /\ restarts \in Nat
    /\ expires \in [States -> Int]
    /\ DOMAIN used \subseteq States /\ IsFiniteSet(DOMAIN used)
    /\ \A s \in DOMAIN used : used[s] \in Nat
    /\ cb \in [Callbacks -> [at : {"idle", "consume", "exchange"}, state : States, now : Nat]]

(* A cookie lives no longer than the TTL from now. *)
CookiesAreRecent == \A s \in States : expires[s] <= Seconds(ticks + StateTTL)

(* A callback on its way to the store holds a cookie that was issued by the time it read. *)
CallbackFits(k) ==
    /\ k.now <= ticks
    /\ k.at = "consume" => expires[k.state] # -1 /\ expires[k.state] <= Seconds(k.now + StateTTL)

CallbacksFit == \A c \in Callbacks : CallbackFits(cb[c])

(* A state that was let through is remembered until its cookie's last second. *)
HonouredIsKept ==
    \A h \in honoured :
        /\ h.state \in States /\ expires[h.state] # -1 /\ h.at \in Nat
        /\ \/ Seconds(ticks) >= expires[h.state]
           \/ h.state \in DOMAIN used /\ Seconds(used[h.state]) >= expires[h.state]

OidcInv == OidcTypeOK /\ CookiesAreRecent /\ CallbacksFit /\ HonouredIsKept /\ HonouredOnce /\ WithinLimit

(* Whole seconds keep the order of ticks. *)
LEMMA SecondsMonotone ==
    ASSUME NEW a \in Nat, NEW b \in Nat, a <= b
    PROVE  Seconds(a) \in Nat /\ Seconds(b) \in Nat /\ Seconds(a) <= Seconds(b)
BY OidcAssumption, QuotientBounds, QuotientMonotone DEF Seconds

(* f is the store less some entries that are over by now. *)
Trims(f, now) ==
    /\ DOMAIN f \subseteq DOMAIN used
    /\ \A t \in DOMAIN f : f[t] = used[t]
    /\ \A t \in DOMAIN used : t \in DOMAIN f \/ now >= used[t]

(* Neither the periodic sweep nor making room at the limit drops a live entry. *)
LEMMA StoreOnlyTrimmed ==
    ASSUME NEW now
    PROVE  Trims(SweptUsed(now), now) /\ Trims(MakeRoom(SweptUsed(now), now), now)
<1>1. Trims(SweptUsed(now), now)
  BY DEF Trims, SweptUsed, Without, Expired
<1>2. ASSUME NEW f, Trims(f, now) PROVE Trims(MakeRoom(f, now), now)
  <2>1. CASE Full(f)
    BY <1>2, <2>1 DEF Trims, MakeRoom, Without, Expired
  <2>2. CASE ~Full(f)
    BY <1>2, <2>2 DEF MakeRoom
  <2> QED BY <2>1, <2>2
<1> QED BY <1>1, <1>2

(* A trimmed store is still a small store of the same kind. *)
LEMMA TrimmedIsStore ==
    ASSUME OidcInv, NEW now, NEW f, Trims(f, now)
    PROVE  /\ DOMAIN f \subseteq States /\ IsFiniteSet(DOMAIN f) /\ \A t \in DOMAIN f : f[t] \in Nat
           /\ Cardinality(DOMAIN f) \in Nat /\ Cardinality(DOMAIN f) <= MaxEntries
<1>1. DOMAIN f \subseteq DOMAIN used /\ \A t \in DOMAIN f : f[t] = used[t]
  BY DEF Trims
<1>2. /\ DOMAIN used \subseteq States /\ IsFiniteSet(DOMAIN used) /\ (\A t \in DOMAIN used : used[t] \in Nat)
      /\ Cardinality(DOMAIN used) <= MaxEntries /\ MaxEntries \in Nat
  BY OidcAssumption DEF OidcInv, OidcTypeOK, WithinLimit
<1>3. IsFiniteSet(DOMAIN f) /\ Cardinality(DOMAIN f) <= Cardinality(DOMAIN used)
  BY <1>1, <1>2, FS_Subset
<1>4. Cardinality(DOMAIN f) \in Nat /\ Cardinality(DOMAIN used) \in Nat
  BY <1>2, <1>3, FS_CardinalityType
<1> QED BY <1>1, <1>2, <1>3, <1>4

(* What was let through is still remembered by a trimmed store, or its cookie is over. *)
LEMMA TrimmedStillKeeps ==
    ASSUME OidcInv, NEW now \in Nat, now <= ticks, NEW f, Trims(f, now), NEW h \in honoured
    PROVE  \/ Seconds(ticks) >= expires[h.state]
           \/ h.state \in DOMAIN f /\ Seconds(f[h.state]) >= expires[h.state]
<1>1. /\ h.state \in States /\ ticks \in Nat /\ expires[h.state] \in Int
      /\ \A t \in DOMAIN used : used[t] \in Nat
      /\ \/ Seconds(ticks) >= expires[h.state]
         \/ h.state \in DOMAIN used /\ Seconds(used[h.state]) >= expires[h.state]
  BY DEF OidcInv, OidcTypeOK, HonouredIsKept
<1>2. CASE h.state \in DOMAIN f
  BY <1>1, <1>2 DEF Trims
<1>3. CASE h.state \in DOMAIN used /\ h.state \notin DOMAIN f /\ Seconds(used[h.state]) >= expires[h.state]
  <2>1. used[h.state] \in Nat /\ used[h.state] <= ticks
    BY <1>1, <1>3 DEF Trims
  <2>2. Seconds(used[h.state]) <= Seconds(ticks) /\ Seconds(ticks) \in Nat /\ Seconds(used[h.state]) \in Nat
    BY <1>1, <2>1, SecondsMonotone
  <2> QED BY <1>1, <1>3, <2>2
<1> QED BY <1>1, <1>2, <1>3

(* The inductive invariant of the redirect login holds at the start. *)
LEMMA OidcInitHolds == OidcInit => OidcInv
<1> SUFFICES ASSUME OidcInit PROVE OidcInv
  OBVIOUS
<1>1. NoCallback \in [at : {"idle", "consume", "exchange"}, state : States, now : Nat]
      /\ NoCallback.at = "idle" /\ NoCallback.now = 0
  BY OidcAssumption DEF NoCallback
<1>2. DOMAIN used = {} /\ honoured = {} /\ ticks = 0 /\ \A c \in Callbacks : cb[c] = NoCallback
  BY DEF OidcInit
<1>3. IsFiniteSet(DOMAIN used) /\ Cardinality(DOMAIN used) = 0
  BY <1>2, FS_EmptySet
<1>4. OidcTypeOK
  BY <1>1, <1>2, <1>3 DEF OidcInit, OidcTypeOK
<1>5. CookiesAreRecent
  <2>1. Seconds(ticks + StateTTL) \in Nat
    BY <1>2, OidcAssumption, SecondsMonotone
  <2> QED BY <2>1 DEF OidcInit, CookiesAreRecent
<1>6. CallbacksFit
  BY <1>1, <1>2 DEF CallbacksFit, CallbackFits
<1>7. HonouredIsKept /\ HonouredOnce /\ WithinLimit
  BY <1>2, <1>3, OidcAssumption DEF HonouredIsKept, HonouredOnce, WithinLimit
<1> QED BY <1>4, <1>5, <1>6, <1>7 DEF OidcInv

(* A consumed state: whether it is refused or let through, the invariant is kept. *)
LEMMA ConsumeHolds ==
    ASSUME OidcInv, NEW c \in Callbacks, Consume(c)
    PROVE  OidcInv'
<1> DEFINE s == cb[c].state
           now == cb[c].now
           f == SweptUsed(now)
           g == MakeRoom(f, now)
<1>1. /\ s \in States /\ now \in Nat /\ ticks \in Nat /\ now <= ticks /\ expires[s] \in Int
      /\ cb[c].at = "consume" /\ expires[s] # -1 /\ expires[s] <= Seconds(now + StateTTL)
      /\ StateTTL \in Nat /\ MaxEntries \in Nat
  BY OidcAssumption DEF OidcInv, OidcTypeOK, CallbacksFit, CallbackFits, Consume
<1>2. Trims(f, now) /\ Trims(g, now)
  BY StoreOnlyTrimmed
<1>3. UNCHANGED <<ticks, expires, restarts>> /\ usedSweep' \in Nat
  BY <1>1 DEF Consume, OidcInv, OidcTypeOK
<1>4. CookiesAreRecent'
  BY <1>3 DEF OidcInv, CookiesAreRecent, Seconds
<1>5. NoCallback \in [at : {"idle", "consume", "exchange"}, state : States, now : Nat]
      /\ NoCallback.at = "idle" /\ NoCallback.now = 0
  BY OidcAssumption DEF NoCallback
<1>6. ASSUME NEW r, Trims(r, now), used' = r, cb' = [cb EXCEPT ![c] = NoCallback], UNCHANGED honoured
      PROVE  OidcInv'
  <2>1. DOMAIN r \subseteq States /\ IsFiniteSet(DOMAIN r) /\ (\A t \in DOMAIN r : r[t] \in Nat)
        /\ Cardinality(DOMAIN r) <= MaxEntries
    BY <1>6, TrimmedIsStore
  <2>2. OidcTypeOK'
    BY <1>3, <1>5, <1>6, <2>1 DEF OidcInv, OidcTypeOK
  <2>3. CallbacksFit'
    BY <1>1, <1>3, <1>5, <1>6 DEF OidcInv, OidcTypeOK, CallbacksFit, CallbackFits, Seconds
  <2>4. \A h \in honoured : \/ Seconds(ticks) >= expires[h.state]
                            \/ h.state \in DOMAIN r /\ Seconds(r[h.state]) >= expires[h.state]
    BY <1>1, <1>6, TrimmedStillKeeps
  <2>5. HonouredIsKept'
    BY <1>3, <1>6, <2>4 DEF OidcInv, HonouredIsKept, Seconds
  <2>6. HonouredOnce' /\ WithinLimit'
    BY <1>3, <1>6, <2>1 DEF OidcInv, HonouredOnce, WithinLimit, Seconds
  <2> QED BY <1>4, <2>2, <2>3, <2>5, <2>6 DEF OidcInv
<1>7. ASSUME ~(s \in DOMAIN f /\ now < f[s]), ~Full(g),
             used' = [t \in DOMAIN g \cup {s} |-> IF t = s THEN now + StateTTL ELSE g[t]],
             cb' = [cb EXCEPT ![c].at = "exchange"],
             honoured' = honoured \cup {[state |-> s, at |-> ticks, nth |-> Cardinality(honoured)]}
      PROVE  OidcInv'
  <2> DEFINE new == [state |-> s, at |-> ticks, nth |-> Cardinality(honoured)]
  <2> HIDE DEF f, g
  <2>1. DOMAIN g \subseteq States /\ IsFiniteSet(DOMAIN g) /\ (\A t \in DOMAIN g : g[t] \in Nat)
        /\ Cardinality(DOMAIN g) \in Nat
    BY <1>2, TrimmedIsStore
  <2>2. /\ DOMAIN used' = DOMAIN g \cup {s} /\ used'[s] = now + StateTTL
        /\ \A t \in DOMAIN g : t # s => used'[t] = g[t]
    BY <1>7
  <2>3. IsFiniteSet(DOMAIN used') /\ Cardinality(DOMAIN used') <= MaxEntries
    <3>1. IsFiniteSet(DOMAIN g \cup {s})
          /\ (Cardinality(DOMAIN g \cup {s}) = Cardinality(DOMAIN g)
              \/ Cardinality(DOMAIN g \cup {s}) = Cardinality(DOMAIN g) + 1)
      BY <2>1, FS_AddElement
    <3>2. ~(Cardinality(DOMAIN g) >= MaxEntries)
      BY <1>7 DEF Full
    <3> QED BY <1>1, <2>1, <2>2, <3>1, <3>2
  <2>4. OidcTypeOK'
    <3>1. DOMAIN used' \subseteq States /\ \A t \in DOMAIN used' : used'[t] \in Nat
      BY <1>1, <2>1, <2>2
    <3>2. cb' \in [Callbacks -> [at : {"idle", "consume", "exchange"}, state : States, now : Nat]]
      BY <1>7 DEF OidcInv, OidcTypeOK
    <3> QED BY <1>3, <2>3, <3>1, <3>2 DEF OidcInv, OidcTypeOK
  <2>5. CallbacksFit'
    BY <1>1, <1>3, <1>7 DEF OidcInv, OidcTypeOK, CallbacksFit, CallbackFits, Seconds
  <2>6. \A h \in honoured : h.state = s => Seconds(ticks) >= expires[s]
    <3> SUFFICES ASSUME NEW h \in honoured, h.state = s PROVE Seconds(ticks) >= expires[s]
      OBVIOUS
    <3>1. \/ Seconds(ticks) >= expires[s]
          \/ s \in DOMAIN f /\ Seconds(f[s]) >= expires[s]
      <4> HIDE DEF s, now
      <4> QED BY <1>1, <1>2, TrimmedStillKeeps
    <3>2. CASE s \in DOMAIN f /\ Seconds(f[s]) >= expires[s]
      <4>1. f[s] \in Nat
        BY <1>2, <3>2, TrimmedIsStore
      <4>2. f[s] <= ticks
        BY <1>1, <1>7, <3>2, <4>1
      <4>3. Seconds(f[s]) <= Seconds(ticks) /\ Seconds(ticks) \in Nat /\ Seconds(f[s]) \in Nat
        BY <1>1, <4>1, <4>2, SecondsMonotone
      <4> QED BY <1>1, <3>2, <4>3
    <3> QED BY <3>1, <3>2
  <2>7. HonouredIsKept'
    <3> SUFFICES ASSUME NEW h \in honoured \cup {new}
                 PROVE  /\ h.state \in States /\ expires[h.state] # -1 /\ h.at \in Nat
                        /\ \/ Seconds(ticks) >= expires[h.state]
                           \/ h.state \in DOMAIN used' /\ Seconds(used'[h.state]) >= expires[h.state]
      BY <1>3, <1>7 DEF HonouredIsKept, Seconds
    <3>1. CASE h.state = s
      BY <1>1, <2>2, <3>1 DEF OidcInv, HonouredIsKept
    <3>2. CASE h.state # s
      <4>1. h \in honoured
        BY <3>2
      <4>2. \/ Seconds(ticks) >= expires[h.state]
            \/ h.state \in DOMAIN g /\ Seconds(g[h.state]) >= expires[h.state]
        <5> HIDE DEF s, now
        <5> QED BY <1>1, <1>2, <4>1, TrimmedStillKeeps
      <4> QED BY <2>2, <3>2, <4>1, <4>2 DEF OidcInv, HonouredIsKept
    <3> QED BY <3>1, <3>2
  <2>8. HonouredOnce'
    <3> SUFFICES ASSUME NEW x \in honoured \cup {new}, NEW y \in honoured \cup {new},
                        x.state = y.state, x # y
                 PROVE  \E last \in {x, y} : Seconds(last.at) >= expires[last.state]
      BY <1>3, <1>7 DEF HonouredOnce, Seconds
    <3>1. CASE x \in honoured /\ y \in honoured
      BY <3>1 DEF OidcInv, HonouredOnce
    <3>2. CASE x = new \/ y = new
      <4>1. new.state = s /\ new.at = ticks
        OBVIOUS
      <4>2. \E z \in honoured : z.state = s
        BY <3>2, <4>1
      <4>3. Seconds(new.at) >= expires[new.state]
        BY <2>6, <4>1, <4>2
      <4> QED BY <3>2, <4>3
    <3> QED BY <3>1, <3>2
  <2>9. WithinLimit'
    BY <2>3 DEF WithinLimit
  <2> QED BY <1>4, <2>4, <2>5, <2>7, <2>8, <2>9 DEF OidcInv
<1>8. \/ /\ used' \in {f, g} /\ cb' = [cb EXCEPT ![c] = NoCallback] /\ UNCHANGED honoured
      \/ /\ ~(s \in DOMAIN f /\ now < f[s]) /\ ~Full(g)
         /\ used' = [t \in DOMAIN g \cup {s} |-> IF t = s THEN now + StateTTL ELSE g[t]]
         /\ cb' = [cb EXCEPT ![c].at = "exchange"]
         /\ honoured' = honoured \cup {[state |-> s, at |-> ticks, nth |-> Cardinality(honoured)]}
  BY DEF Consume
<1> HIDE DEF f, g
<1> QED BY <1>2, <1>6, <1>7, <1>8

(* Every step of the redirect login keeps the invariant. *)
LEMMA OidcStepHolds ==
    ASSUME OidcInv, [OidcNext]_oidcVars
    PROVE  OidcInv'
<1>1. /\ OidcTypeOK /\ CookiesAreRecent /\ CallbacksFit /\ HonouredIsKept /\ HonouredOnce /\ WithinLimit
      /\ ticks \in Nat /\ StateTTL \in Nat
  BY OidcAssumption DEF OidcInv, OidcTypeOK
<1>2. NoCallback \in [at : {"idle", "consume", "exchange"}, state : States, now : Nat]
      /\ NoCallback.at = "idle" /\ NoCallback.now = 0
  BY OidcAssumption DEF NoCallback
<1>3. CASE OidcTick
  <2>1. ticks' = ticks + 1 /\ UNCHANGED <<expires, used, usedSweep, cb, honoured, restarts>>
    BY <1>3 DEF OidcTick
  <2>2. /\ Seconds(ticks) \in Nat /\ Seconds(ticks + 1) \in Nat /\ Seconds(ticks) <= Seconds(ticks + 1)
        /\ Seconds(ticks + StateTTL) \in Nat /\ Seconds((ticks + 1) + StateTTL) \in Nat
        /\ Seconds(ticks + StateTTL) <= Seconds((ticks + 1) + StateTTL)
    BY <1>1, SecondsMonotone
  <2>3. OidcTypeOK' /\ HonouredOnce' /\ WithinLimit'
    BY <1>1, <2>1 DEF OidcTypeOK, HonouredOnce, WithinLimit, Seconds
  <2>4. \A s \in States : expires[s] <= Seconds((ticks + 1) + StateTTL)
    BY <1>1, <2>2 DEF OidcTypeOK, CookiesAreRecent
  <2>5. CookiesAreRecent'
    BY <2>1, <2>4 DEF CookiesAreRecent, Seconds
  <2>6. CallbacksFit'
    BY <1>1, <2>1 DEF OidcTypeOK, CallbacksFit, CallbackFits, Seconds
  <2>7. \A h \in honoured : /\ h.state \in States /\ expires[h.state] # -1 /\ h.at \in Nat
                            /\ \/ Seconds(ticks + 1) >= expires[h.state]
                               \/ h.state \in DOMAIN used /\ Seconds(used[h.state]) >= expires[h.state]
    BY <1>1, <2>2 DEF OidcTypeOK, HonouredIsKept
  <2>8. HonouredIsKept'
    BY <2>1, <2>7 DEF HonouredIsKept, Seconds
  <2> QED BY <2>3, <2>5, <2>6, <2>8 DEF OidcInv
<1>4. ASSUME NEW s \in States, LoginStart(s)
      PROVE  OidcInv'
  <2>1. /\ expires[s] = -1 /\ expires' = [expires EXCEPT ![s] = Seconds(ticks + StateTTL)]
        /\ UNCHANGED <<ticks, used, usedSweep, cb, honoured, restarts>>
    BY <1>4 DEF LoginStart
  <2>2. Seconds(ticks + StateTTL) \in Nat
    BY <1>1, SecondsMonotone
  <2>3. expires' \in [States -> Int] /\ \A t \in States : t # s => expires'[t] = expires[t]
    BY <1>1, <2>1, <2>2 DEF OidcTypeOK
  <2>4. OidcTypeOK' /\ WithinLimit'
    BY <1>1, <2>1, <2>3 DEF OidcTypeOK, WithinLimit
  <2>5. CookiesAreRecent'
    <3>1. \A t \in States : expires'[t] <= Seconds(ticks + StateTTL)
      BY <1>1, <2>1, <2>2 DEF OidcTypeOK, CookiesAreRecent
    <3> QED BY <2>1, <3>1 DEF CookiesAreRecent, Seconds
  <2>6. \A t \in States : expires[t] # -1 => expires'[t] = expires[t]
    BY <2>1, <2>3
  <2>7. CallbacksFit'
    BY <1>1, <2>1, <2>6 DEF OidcTypeOK, CallbacksFit, CallbackFits, Seconds
  <2>8. HonouredIsKept' /\ HonouredOnce'
    BY <1>1, <2>1, <2>6 DEF HonouredIsKept, HonouredOnce, Seconds
  <2> QED BY <2>4, <2>5, <2>7, <2>8 DEF OidcInv
<1>5. ASSUME NEW c \in Callbacks, NEW s \in States, Callback(c, s)
      PROVE  OidcInv'
  <2>1. /\ expires[s] # -1 /\ cb' = [cb EXCEPT ![c] = [at |-> "consume", state |-> s, now |-> ticks]]
        /\ UNCHANGED <<ticks, expires, used, usedSweep, honoured, restarts>>
    BY <1>5 DEF Callback, CookieValid
  <2>2. OidcTypeOK' /\ CookiesAreRecent' /\ HonouredIsKept' /\ HonouredOnce' /\ WithinLimit'
    BY <1>1, <2>1 DEF OidcTypeOK, CookiesAreRecent, HonouredIsKept, HonouredOnce, WithinLimit, Seconds
  <2>3. CallbacksFit'
    BY <1>1, <2>1 DEF OidcTypeOK, CookiesAreRecent, CallbacksFit, CallbackFits, Seconds
  <2> QED BY <2>2, <2>3 DEF OidcInv
<1>6. ASSUME NEW c \in Callbacks, Exchange(c)
      PROVE  OidcInv'
  <2>1. /\ cb' = [cb EXCEPT ![c] = NoCallback]
        /\ UNCHANGED <<ticks, expires, used, usedSweep, honoured, restarts>>
    BY <1>6 DEF Exchange
  <2>2. OidcTypeOK' /\ CookiesAreRecent' /\ HonouredIsKept' /\ HonouredOnce' /\ WithinLimit'
    BY <1>1, <1>2, <2>1 DEF OidcTypeOK, CookiesAreRecent, HonouredIsKept, HonouredOnce, WithinLimit, Seconds
  <2>3. CallbacksFit'
    BY <1>1, <1>2, <2>1 DEF OidcTypeOK, CallbacksFit, CallbackFits, Seconds
  <2> QED BY <2>2, <2>3 DEF OidcInv
<1>7. CASE OidcRestart
  <2>1. /\ DOMAIN used' = {} /\ usedSweep' = ticks /\ cb' = [c \in Callbacks |-> NoCallback] /\ honoured' = {}
        /\ restarts' = restarts + 1 /\ UNCHANGED <<ticks, expires>>
    BY <1>7 DEF OidcRestart
  <2>2. IsFiniteSet(DOMAIN used') /\ Cardinality(DOMAIN used') = 0
    BY <2>1, FS_EmptySet
  <2>3. OidcTypeOK' /\ WithinLimit'
    BY <1>1, <1>2, <2>1, <2>2, OidcAssumption DEF OidcTypeOK, WithinLimit
  <2>4. CookiesAreRecent' /\ HonouredIsKept' /\ HonouredOnce'
    BY <1>1, <2>1 DEF CookiesAreRecent, HonouredIsKept, HonouredOnce, Seconds
  <2>5. CallbacksFit'
    BY <1>1, <1>2, <2>1 DEF CallbacksFit, CallbackFits, Seconds
  <2> QED BY <2>3, <2>4, <2>5 DEF OidcInv
<1>8. CASE UNCHANGED oidcVars
  BY <1>1, <1>8 DEF oidcVars, OidcInv, OidcTypeOK, CookiesAreRecent, CallbacksFit, CallbackFits, HonouredIsKept,
                    HonouredOnce, WithinLimit, Seconds
<1> QED BY <1>3, <1>4, <1>5, <1>6, <1>7, <1>8, ConsumeHolds DEF OidcNext

(* A login state is let through once per process, but for its cookie's last second, and
   the store keeps within its limit: for every number of states, callbacks and
   restarts, at every limit and sweep interval (memSingleUseStore.Consume). *)
THEOREM SingleUse == OidcSpec => []SingleUseHolds
<1>1. OidcInv /\ [OidcNext]_oidcVars => OidcInv'
  BY OidcStepHolds
<1>2. OidcInv => SingleUseHolds
  BY DEF OidcInv, SingleUseHolds
<1> QED BY OidcInitHolds, <1>1, <1>2, PTL DEF OidcSpec

-----------------------------------------------------------------------------
(* Settings at run time (InstanceSettings) *)

SettingsSet == [enabled : BOOLEAN, creds : BOOLEAN, allow : BOOLEAN, issuer : Issuers, ver : Nat]
AllUpdates == OneField \cup {[f \in {"enabled", "creds", "allow"} \ pinned |-> TRUE], << >>}

SaveRecs == [at : {"idle", "read", "check", "save", "invalidate", "rebuild"},
             in : AllUpdates, cur : SettingsSet, ver : Nat]
ClientRecs == [issuer : Issuers, lists : Nat, since : Nat]
BuiltRecs == [ok : BOOLEAN, client : ClientRecs, err : BOOLEAN]
UseRecs == [at : {"idle", "read", "got", "client"}, value : SettingsSet, since : Nat, client : ClientRecs]

SettingsTypeOK ==
    /\ pinned \subseteq {"allow"} /\ setting \in Settings
    /\ stored \in SettingsSet /\ returned \in Nat /\ blips \in Nat
    /\ cache \in [once : BOOLEAN, value : SettingsSet]
    /\ filling # Nobody => filling.first \in SettingsSet
    /\ built \in BuiltRecs
    /\ save \in [Saves -> SaveRecs] /\ use \in [Uses -> UseRecs]

(* Settings v are no older than save n, or stem from a failed read. *)
NotBefore(v, n) == v.ver >= n \/ (v.ver = 0 /\ blips > 0)

(* Nothing older than save n is stored, cached or on its way into the cache. *)
CacheHolds(n) ==
    /\ stored.ver >= n
    /\ cache.once => NotBefore(cache.value, n)
    /\ filling # Nobody => filling.first.ver >= n

(* A save writes only fields the environment leaves free, was checked, and is in the
   table once it drops the caches; between dropping the cache and being answered nothing
   older comes back into it. *)
SaveFits(k) ==
    /\ k.at \in {"read", "check", "save"} => DOMAIN k.in \cap pinned = {}
    /\ setting = "domain" => DOMAIN k.in = {}
    /\ k.at = "save" /\ setting = "oidc" => SafeToEnable(Apply(k.cur, k.in, 0))
    /\ k.at = "invalidate" => k.ver <= stored.ver
    /\ k.at = "rebuild" => CacheHolds(k.ver)

UseFits(k) ==
    /\ k.since <= returned
    /\ k.at = "got" => NotBefore(k.value, k.since)

SavesFit == \A p \in Saves : SaveFits(save[p])
UsesFit == \A u \in Uses : UseFits(use[u])

(* Whoever holds the cache's write lock is still reading. *)
FillerReads == filling # Nobody => filling.by \in Saves \cup Uses /\ WantsRead(filling.by)

SettingsInv ==
    /\ SettingsTypeOK /\ CacheHolds(returned) /\ GateLostOnlyOnStaleView
    /\ SavesFit /\ UsesFit /\ FillerReads

(* What an update can say. *)
LEMMA UpdateKinds ==
    ASSUME pinned \subseteq {"allow"}, NEW in \in AllUpdates
    PROVE  /\ DOMAIN in \subseteq {"enabled", "creds", "allow", "issuer"}
           /\ \A f \in DOMAIN in : f # "issuer" => in[f] \in BOOLEAN
           /\ "issuer" \in DOMAIN in => in["issuer"] \in Issuers
<1>1. CASE in \in OneField
  <2>1. CASE \E v \in BOOLEAN : in = [f \in {"enabled"} |-> v]
    BY <2>1
  <2>2. CASE \E i \in Issuers : in = [f \in {"issuer"} |-> i]
    BY <2>2
  <2>3. CASE \E x \in {"creds", "allow"} : in = [f \in {x} |-> FALSE]
    BY <2>3
  <2> QED BY <1>1, <2>1, <2>2, <2>3 DEF OneField
<1>2. CASE in = << >>
  BY <1>2
<1>3. CASE in = [f \in {"enabled", "creds", "allow"} \ pinned |-> TRUE]
  BY <1>3
<1> QED BY <1>1, <1>2, <1>3 DEF AllUpdates

(* Applying an update gives settings: the fields it names are its own, the others stay. *)
LEMMA ApplyIs ==
    ASSUME pinned \subseteq {"allow"}, NEW in \in AllUpdates, NEW s \in SettingsSet, NEW v \in Nat
    PROVE  /\ Apply(s, in, v) \in SettingsSet /\ Apply(s, in, v).ver = v
           /\ Apply(s, in, v).enabled = IF "enabled" \in DOMAIN in THEN in["enabled"] ELSE s.enabled
           /\ Apply(s, in, v).creds = IF "creds" \in DOMAIN in THEN in["creds"] ELSE s.creds
           /\ Apply(s, in, v).allow = IF "allow" \in DOMAIN in THEN in["allow"] ELSE s.allow
<1>1. /\ DOMAIN in \subseteq {"enabled", "creds", "allow", "issuer"}
      /\ \A f \in DOMAIN in : f # "issuer" => in[f] \in BOOLEAN
      /\ "issuer" \in DOMAIN in => in["issuer"] \in Issuers
  BY UpdateKinds
<1>2. DOMAIN s = {"enabled", "creds", "allow", "issuer", "ver"}
  BY DEF SettingsSet
<1> QED BY <1>1, <1>2 DEF Apply, SettingsSet

(* The environment adds an allow list at most. *)
LEMMA EffectiveIs ==
    ASSUME pinned \subseteq {"allow"}, NEW s \in SettingsSet
    PROVE  /\ Effective(s) \in SettingsSet /\ Effective(s).ver = s.ver
           /\ Effective(s).enabled = s.enabled /\ Effective(s).creds = s.creds
           /\ Effective(s).allow = IF "allow" \in pinned THEN TRUE ELSE s.allow
<1>1. DOMAIN s = {"enabled", "creds", "allow", "issuer", "ver"}
  BY DEF SettingsSet
<1> QED BY <1>1 DEF Effective, SettingsSet

(* The records of idle requests. *)
LEMMA IdleRecords ==
    /\ Unset \in SettingsSet /\ Unset.ver = 0
    /\ NoSave \in SaveRecs /\ NoSave.at = "idle" /\ NoSave.cur = Unset /\ NoSave.ver = 0 /\ DOMAIN NoSave.in = {}
    /\ NotBuilt \in BuiltRecs /\ NotBuilt.ok = FALSE
    /\ NoUse \in UseRecs /\ NoUse.at = "idle" /\ NoUse.since = 0 /\ NoUse.value = Unset
<1>1. Unset \in SettingsSet /\ Unset.ver = 0
  BY SettingsAssumption DEF Unset, SettingsSet
<1>2. << >> \in AllUpdates
  BY DEF AllUpdates
<1>3. NoClient \in ClientRecs
  BY SettingsAssumption DEF NoClient, ClientRecs
<1> QED BY <1>1, <1>2, <1>3 DEF NoSave, SaveRecs, NoUse, UseRecs, NotBuilt, BuiltRecs

(* The inductive invariant of the settings holds at the start. *)
LEMMA SettingsInitHolds == SettingsInit => SettingsInv
<1> SUFFICES ASSUME SettingsInit PROVE SettingsInv
  OBVIOUS
<1>1. pinned \subseteq {"allow"} /\ setting \in Settings
  BY DEF SettingsInit
<1>2. /\ stored = Unset /\ cache = [once |-> FALSE, value |-> Unset] /\ filling = Nobody /\ built = NotBuilt
      /\ save = [p \in Saves |-> NoSave] /\ use = [u \in Uses |-> NoUse] /\ returned = 0 /\ blips = 0
  BY DEF SettingsInit
<1>3. SettingsTypeOK
  BY <1>1, <1>2, IdleRecords DEF SettingsTypeOK
<1>4. CacheHolds(returned)
  BY <1>2, IdleRecords DEF CacheHolds
<1>5. GateLostOnlyOnStaleView
  <2>1. Effective(stored).enabled = FALSE
    BY <1>1, <1>2, IdleRecords, EffectiveIs DEF Unset
  <2> QED BY <2>1 DEF GateLostOnlyOnStaleView
<1>6. SavesFit
  BY <1>2, IdleRecords DEF SavesFit, SaveFits
<1>7. UsesFit
  BY <1>2, IdleRecords DEF UsesFit, UseFits
<1> QED BY <1>2, <1>3, <1>4, <1>5, <1>6, <1>7 DEF SettingsInv, FillerReads

(* What the other saves need of a step: it keeps the environment's fields, and brings
   nothing older into the table or the cache. *)
StepKeepsCache ==
    /\ UNCHANGED <<pinned, setting>>
    /\ stored.ver <= stored'.ver
    /\ \A n \in Nat : CacheHolds(n) => CacheHolds(n)'

(* A save that does not move still fits. *)
LEMMA OneSaveKept ==
    ASSUME SettingsInv, StepKeepsCache, stored' \in SettingsSet, NEW p \in Saves, save'[p] = save[p]
    PROVE  SaveFits(save[p])'
<1>1. stored \in SettingsSet
  BY DEF SettingsInv, SettingsTypeOK
<1>2. PICK r \in SaveRecs : r = save[p]
  BY DEF SettingsInv, SettingsTypeOK
<1>3. SaveFits(r) /\ save'[p] = r
  BY <1>2 DEF SettingsInv, SavesFit
<1>4. r.ver \in Nat /\ stored.ver \in Nat /\ stored'.ver \in Nat
  BY <1>1 DEF SaveRecs, SettingsSet
<1>5. UNCHANGED <<pinned, setting>> /\ stored.ver <= stored'.ver
      /\ (CacheHolds(r.ver) => CacheHolds(r.ver)')
  BY <1>4 DEF StepKeepsCache
<1>6. SaveFits(r)'
  BY <1>3, <1>4, <1>5 DEF SaveFits, Apply, SafeToEnable
<1> QED BY <1>3, <1>6 DEF SaveFits, Apply, SafeToEnable, CacheHolds, NotBefore

(* One save's step leaves the others fitting. *)
LEMMA OneSaveMoves ==
    ASSUME SettingsInv, StepKeepsCache, stored' \in SettingsSet,
           NEW q \in Saves, NEW k \in SaveRecs, SaveFits(k)', save' = [save EXCEPT ![q] = k]
    PROVE  save' \in [Saves -> SaveRecs]' /\ SavesFit'
<1>1. SaveRecs' = SaveRecs
  BY DEF StepKeepsCache, SaveRecs, AllUpdates, OneField, SettingsSet
<1>2. save \in [Saves -> SaveRecs]
  BY DEF SettingsInv, SettingsTypeOK
<1>3. save' \in [Saves -> SaveRecs] /\ save'[q] = k /\ \A p \in Saves : p # q => save'[p] = save[p]
  BY <1>2
<1>4. \A p \in Saves : p # q => SaveFits(save[p])'
  BY <1>3, OneSaveKept
<1>5. SaveFits(save[q])'
  BY <1>3 DEF SaveFits, Apply, SafeToEnable, CacheHolds, NotBefore
<1> QED BY <1>1, <1>3, <1>4, <1>5 DEF SavesFit

(* Nor does a step that moves no save disturb any. *)
LEMMA NoSaveMoves ==
    ASSUME SettingsInv, StepKeepsCache, stored' \in SettingsSet, UNCHANGED save
    PROVE  save' \in [Saves -> SaveRecs]' /\ SavesFit'
<1>1. SaveRecs' = SaveRecs
  BY DEF StepKeepsCache, SaveRecs, AllUpdates, OneField, SettingsSet
<1>2. save \in [Saves -> SaveRecs]
  BY DEF SettingsInv, SettingsTypeOK
<1>3. \A p \in Saves : SaveFits(save[p])'
  BY OneSaveKept
<1> QED BY <1>1, <1>2, <1>3 DEF SavesFit

(* What the uses need of a step. *)
StepKeepsAnswers ==
    /\ returned' \in Nat /\ returned <= returned'
    /\ blips' \in Nat /\ blips <= blips'

(* A use that does not move still fits. *)
LEMMA OneUseKept ==
    ASSUME SettingsInv, StepKeepsAnswers, NEW u \in Uses, use'[u] = use[u]
    PROVE  UseFits(use[u])'
<1>1. PICK r \in UseRecs : r = use[u]
  BY DEF SettingsInv, SettingsTypeOK
<1>2. UseFits(r) /\ use'[u] = r /\ r.since \in Nat /\ returned \in Nat /\ blips \in Nat
  BY <1>1 DEF SettingsInv, SettingsTypeOK, UsesFit, UseRecs
<1>3. UseFits(r)'
  BY <1>2 DEF UseFits, NotBefore, StepKeepsAnswers
<1> QED BY <1>2, <1>3 DEF UseFits, NotBefore

(* One use's step leaves the others fitting. *)
LEMMA OneUseMoves ==
    ASSUME SettingsInv, StepKeepsAnswers,
           NEW v \in Uses, NEW k \in UseRecs, UseFits(k)', use' = [use EXCEPT ![v] = k]
    PROVE  use' \in [Uses -> UseRecs] /\ UsesFit'
<1>1. use \in [Uses -> UseRecs]
  BY DEF SettingsInv, SettingsTypeOK
<1>2. use' \in [Uses -> UseRecs] /\ use'[v] = k /\ \A u \in Uses : u # v => use'[u] = use[u]
  BY <1>1
<1>3. \A u \in Uses : u # v => UseFits(use[u])'
  BY <1>2, OneUseKept
<1>4. UseFits(use[v])'
  BY <1>2 DEF UseFits, NotBefore
<1> QED BY <1>2, <1>3, <1>4 DEF UsesFit

(* Nor does a step that moves no use disturb any. *)
LEMMA NoUseMoves ==
    ASSUME SettingsInv, StepKeepsAnswers, UNCHANGED use
    PROVE  use' \in [Uses -> UseRecs] /\ UsesFit'
<1>1. \A u \in Uses : UseFits(use[u])'
  BY OneUseKept
<1> QED BY <1>1 DEF UsesFit, SettingsInv, SettingsTypeOK

(* A request that gets current settings, from the cache or by filling it, fits. *)
LEMMA GotFits ==
    ASSUME SettingsInv, StepKeepsCache, StepKeepsAnswers, stored' \in SettingsSet, UNCHANGED returned,
           NEW x \in Saves \cup Uses, WantsRead(x), NEW value \in SettingsSet, NotBefore(value, returned)',
           Got(x, value)
    PROVE  /\ save' \in [Saves -> SaveRecs]' /\ SavesFit'
           /\ use' \in [Uses -> UseRecs] /\ UsesFit'
<1>1. pinned \subseteq {"allow"} /\ UNCHANGED <<pinned, setting>>
  BY DEF SettingsInv, SettingsTypeOK, StepKeepsCache
<1>2. PICK e \in SettingsSet : e = Effective(value) /\ e.ver = value.ver
  BY <1>1, EffectiveIs
<1>3. CASE x \in Saves
  <2>1. PICK r \in SaveRecs : r = save[x]
    BY <1>3 DEF SettingsInv, SettingsTypeOK
  <2>2. SaveFits(r) /\ r.at = "read"
    BY <1>3, <2>1 DEF SettingsInv, SavesFit, WantsRead
  <2> DEFINE k == [r EXCEPT !.at = "check", !.cur = e]
  <2>3. k \in SaveRecs /\ k.at = "check" /\ k.in = r.in
    BY DEF SaveRecs
  <2>4. save' = [save EXCEPT ![x] = k] /\ UNCHANGED use
    <3>1. save' = [save EXCEPT ![x].at = "check", ![x].cur = Effective(value)] /\ UNCHANGED use
      BY <1>3 DEF Got
    <3> QED BY <1>2, <1>3, <2>1, <3>1 DEF SettingsInv, SettingsTypeOK, SaveRecs
  <2> HIDE DEF k
  <2>5. SaveFits(k)'
    BY <1>1, <2>2, <2>3 DEF SaveFits
  <2> QED BY <1>3, <2>3, <2>4, <2>5, OneSaveMoves, NoUseMoves
<1>4. CASE x \notin Saves
  <2>0. x \in Uses
    BY <1>4
  <2>1. PICK r \in UseRecs : r = use[x]
    BY <2>0 DEF SettingsInv, SettingsTypeOK
  <2>2. UseFits(r) /\ r.since \in Nat /\ returned \in Nat
    BY <2>0, <2>1 DEF SettingsInv, SettingsTypeOK, UsesFit, UseRecs
  <2> DEFINE k == [r EXCEPT !.at = "got", !.value = e]
  <2>3. k \in UseRecs /\ k.at = "got" /\ k.value = e /\ k.since = r.since
    BY DEF UseRecs
  <2>4. use' = [use EXCEPT ![x] = k] /\ UNCHANGED save
    <3>1. use' = [use EXCEPT ![x].at = "got", ![x].value = Effective(value)] /\ UNCHANGED save
      BY <1>4 DEF Got
    <3> QED BY <1>2, <2>0, <2>1, <3>1 DEF SettingsInv, SettingsTypeOK, UseRecs
  <2> HIDE DEF k
  <2>5. UseFits(k)'
    <3>1. value.ver \in Nat
      BY DEF SettingsSet
    <3> QED BY <1>2, <2>2, <2>3, <3>1 DEF UseFits, NotBefore
  <2> QED BY <2>0, <2>3, <2>4, <2>5, OneUseMoves, NoSaveMoves
<1> QED BY <1>3, <1>4

(* The rest of the invariant, once requests fit again after a step. *)
LEMMA SettingsInvAgain ==
    ASSUME SettingsInv, StepKeepsCache, StepKeepsAnswers,
           stored' \in SettingsSet, cache' \in [once : BOOLEAN, value : SettingsSet],
           filling' # Nobody => filling'.first \in SettingsSet,
           built' \in BuiltRecs,
           save' \in [Saves -> SaveRecs]', SavesFit', use' \in [Uses -> UseRecs], UsesFit',
           CacheHolds(returned)', GateLostOnlyOnStaleView', FillerReads'
    PROVE  SettingsInv'
<1>1. pinned' \subseteq {"allow"} /\ setting' \in Settings /\ returned' \in Nat /\ blips' \in Nat
  BY DEF SettingsInv, SettingsTypeOK, StepKeepsCache, StepKeepsAnswers
<1>2. SettingsSet' = SettingsSet /\ UseRecs' = UseRecs
  BY DEF SettingsSet, UseRecs
<1>3. SettingsTypeOK'
  BY <1>1, <1>2 DEF SettingsTypeOK, Nobody
<1> QED BY <1>3 DEF SettingsInv

(* A step that leaves the table and its fields alone keeps the gate. *)
LEMMA GateKept ==
    ASSUME SettingsInv, UNCHANGED <<pinned, stored, staleSave>>
    PROVE  GateLostOnlyOnStaleView'
BY DEF SettingsInv, GateLostOnlyOnStaleView, Effective

(* Who is filling the cache goes on reading while requests that do not read move. *)
LEMMA FillerStill ==
    ASSUME SettingsInv, UNCHANGED filling,
           \/ UNCHANGED <<save, use>>
           \/ /\ UNCHANGED use
              /\ \E q \in Saves : save[q].at # "read" /\ \E k : save' = [save EXCEPT ![q] = k]
           \/ /\ UNCHANGED save
              /\ \E v \in Uses : use[v].at # "read" /\ \E k : use' = [use EXCEPT ![v] = k]
    PROVE  FillerReads'
<1> SUFFICES ASSUME filling' # Nobody
             PROVE  filling'.by \in Saves \cup Uses /\ WantsRead(filling.by)'
  BY DEF FillerReads, Nobody
<1>1. PICK x \in Saves \cup Uses : x = filling.by /\ filling'.by = x /\ WantsRead(x)
  BY DEF SettingsInv, FillerReads
<1>2. save \in [Saves -> SaveRecs] /\ use \in [Uses -> UseRecs]
  BY DEF SettingsInv, SettingsTypeOK
<1>3. (x \in Saves => save'[x].at = save[x].at) /\ (x \notin Saves => use'[x].at = use[x].at)
  BY <1>1, <1>2 DEF WantsRead
<1> QED BY <1>1, <1>3 DEF WantsRead

(* A step that changes neither table, cache nor answers keeps what is current. *)
LEMMA CacheKept ==
    ASSUME SettingsInv, UNCHANGED <<pinned, setting, stored, cache, filling, returned, blips>>
    PROVE  StepKeepsCache /\ StepKeepsAnswers /\ CacheHolds(returned)'
<1>1. stored.ver \in Nat /\ returned \in Nat /\ blips \in Nat /\ CacheHolds(returned)
  BY DEF SettingsInv, SettingsTypeOK, SettingsSet
<1>2. \A n \in Nat : CacheHolds(n) => CacheHolds(n)'
  BY DEF CacheHolds, NotBefore, Nobody
<1>3. CacheHolds(returned)'
  BY <1>1 DEF CacheHolds, NotBefore, Nobody
<1> QED BY <1>1, <1>2, <1>3 DEF StepKeepsCache, StepKeepsAnswers

(* Reading the settings through the cache keeps the invariant. *)
LEMMA ReadHolds ==
    ASSUME SettingsInv, NEW x \in Saves \cup Uses,
           CacheHit(x) \/ StartFill(x) \/ EndFill(x) \/ FillFails(x)
    PROVE  SettingsInv'
<1>0. /\ stored \in SettingsSet /\ cache \in [once : BOOLEAN, value : SettingsSet] /\ returned \in Nat
      /\ blips \in Nat /\ built \in BuiltRecs /\ CacheHolds(returned)
      /\ (filling # Nobody => filling.first \in SettingsSet) /\ stored.ver \in Nat
  BY DEF SettingsInv, SettingsTypeOK, SettingsSet
<1>1. CASE CacheHit(x)
  <2>1. /\ WantsRead(x) /\ filling = Nobody /\ cache.once /\ Got(x, cache.value)
        /\ UNCHANGED <<pinned, setting, stored, cache, filling, built, returned, staleSave, blips, discoveryFaults>>
    BY <1>1 DEF CacheHit
  <2>2. StepKeepsCache /\ StepKeepsAnswers /\ CacheHolds(returned)'
    BY <2>1, CacheKept
  <2>3. PICK v \in SettingsSet : v = cache.value
    BY <1>0
  <2>4. NotBefore(v, returned)' /\ Got(x, v)
    BY <1>0, <2>1, <2>3 DEF CacheHolds, NotBefore, Got
  <2>5. /\ save' \in [Saves -> SaveRecs]' /\ SavesFit'
        /\ use' \in [Uses -> UseRecs] /\ UsesFit'
    BY <1>0, <2>1, <2>2, <2>4, GotFits
  <2>6. GateLostOnlyOnStaleView'
    BY <2>1, GateKept
  <2>7. FillerReads'
    BY <2>1 DEF FillerReads, Nobody
  <2> QED BY <1>0, <2>1, <2>2, <2>5, <2>6, <2>7, SettingsInvAgain
<1>2. CASE StartFill(x)
  <2>1. /\ WantsRead(x) /\ filling' = [by |-> x, first |-> stored]
        /\ UNCHANGED <<pinned, setting, stored, cache, built, save, use, returned, staleSave, blips, discoveryFaults>>
    BY <1>2 DEF StartFill
  <2>2. \A n \in Nat : CacheHolds(n) => CacheHolds(n)'
    BY <2>1 DEF CacheHolds, NotBefore
  <2>3. StepKeepsCache /\ StepKeepsAnswers
    BY <1>0, <2>1, <2>2 DEF StepKeepsCache, StepKeepsAnswers
  <2>4. CacheHolds(returned)'
    BY <1>0, <2>1 DEF CacheHolds, NotBefore
  <2>5. GateLostOnlyOnStaleView'
    BY <2>1, GateKept
  <2>6. save' \in [Saves -> SaveRecs]' /\ SavesFit' /\ use' \in [Uses -> UseRecs] /\ UsesFit'
    BY <1>0, <2>1, <2>3, NoSaveMoves, NoUseMoves
  <2>7. filling'.first \in SettingsSet
    BY <1>0, <2>1
  <2>8. FillerReads'
    BY <2>1 DEF FillerReads, WantsRead
  <2> QED BY <1>0, <2>1, <2>3, <2>4, <2>5, <2>6, <2>7, <2>8, SettingsInvAgain
<1>3. CASE EndFill(x) \/ FillFails(x)
  <2>1. PICK v \in SettingsSet :
          /\ cache' = [once |-> TRUE, value |-> v] /\ filling # Nobody /\ filling' = Nobody /\ Got(x, v)
          /\ UNCHANGED <<pinned, setting, stored, built, returned, staleSave>>
          /\ \/ v.ver = filling.first.ver /\ blips' = blips
             \/ v.ver = 0 /\ blips' = blips + 1
    <3>1. CASE EndFill(x)
      <4> DEFINE first == filling.first
                 v == [stored EXCEPT !.enabled = first.enabled, !.issuer = first.issuer,
                                     !.creds = first.creds, !.ver = first.ver]
      <4>1. /\ filling # Nobody /\ cache' = [once |-> TRUE, value |-> v] /\ filling' = Nobody /\ Got(x, v)
            /\ UNCHANGED <<pinned, setting, stored, built, returned, staleSave, blips>>
        BY <3>1 DEF EndFill
      <4>2. first \in SettingsSet
        BY <1>0, <4>1
      <4>3. v \in SettingsSet /\ v.ver = first.ver
        <5> HIDE DEF first
        <5> QED BY <1>0, <4>2 DEF SettingsSet
      <4> HIDE DEF v
      <4> QED BY <4>1, <4>3
    <3>2. CASE FillFails(x)
      BY <3>2, IdleRecords DEF FillFails
    <3> QED BY <1>3, <3>1, <3>2
  <2>2. /\ v.ver \in Nat /\ filling.first.ver \in Nat /\ blips' \in Nat /\ blips <= blips'
        /\ cache'.once = TRUE /\ cache'.value = v
    BY <1>0, <2>1 DEF SettingsSet
  <2>3. \A n \in Nat : CacheHolds(n) => CacheHolds(n)' /\ NotBefore(v, n)'
    BY <1>0, <2>1, <2>2 DEF CacheHolds, NotBefore
  <2>4. StepKeepsCache /\ StepKeepsAnswers
    BY <1>0, <2>1, <2>2, <2>3 DEF StepKeepsCache, StepKeepsAnswers
  <2>5. CacheHolds(returned)' /\ NotBefore(v, returned)'
    <3>1. PICK n \in Nat : n = returned
      BY <1>0
    <3>2. CacheHolds(n)' /\ NotBefore(v, n)' /\ returned' = n
      BY <1>0, <2>1, <2>3, <3>1
    <3> QED BY <3>2 DEF CacheHolds, NotBefore
  <2>6. /\ save' \in [Saves -> SaveRecs]' /\ SavesFit'
        /\ use' \in [Uses -> UseRecs] /\ UsesFit'
    <3>1. WantsRead(x) /\ stored' \in SettingsSet /\ UNCHANGED returned /\ Got(x, v)
      BY <1>0, <1>3, <2>1 DEF SettingsInv, FillerReads, EndFill, FillFails
    <3> QED BY <2>4, <2>5, <3>1, GotFits
  <2>7. GateLostOnlyOnStaleView'
    BY <2>1, GateKept
  <2>8. cache' \in [once : BOOLEAN, value : SettingsSet]
    BY <2>1
  <2>9. FillerReads'
    BY <2>1 DEF FillerReads, Nobody
  <2> QED BY <1>0, <2>1, <2>4, <2>5, <2>6, <2>7, <2>8, <2>9, SettingsInvAgain
<1> QED BY <1>1, <1>2, <1>3

(* A save's steps that touch neither table nor cache: the request, its check, its
   failure. *)
LEMMA SaveStepHolds ==
    ASSUME SettingsInv, NEW p \in Saves,
           \/ \E in \in Updates : AdminPutDomain(p, in) \/ AdminPutOIDC(p, in)
           \/ Check(p) \/ SaveFails(p)
    PROVE  SettingsInv'
<1>0. /\ stored \in SettingsSet /\ cache \in [once : BOOLEAN, value : SettingsSet]
      /\ built \in BuiltRecs /\ pinned \subseteq {"allow"}
      /\ (filling # Nobody => filling.first \in SettingsSet) /\ save \in [Saves -> SaveRecs]
      /\ setting \in Settings
  BY DEF SettingsInv, SettingsTypeOK
<1>1. PICK r \in SaveRecs : r = save[p] /\ SaveFits(r)
  BY <1>0 DEF SettingsInv, SavesFit
<1>2. UNCHANGED <<pinned, setting, stored, cache, filling, built, use, returned, staleSave, blips, discoveryFaults>>
  BY DEF AdminPutDomain, AdminPutOIDC, Check, SaveFails
<1>3. StepKeepsCache /\ StepKeepsAnswers /\ CacheHolds(returned)' /\ GateLostOnlyOnStaleView'
  BY <1>2, CacheKept, GateKept
<1>4. PICK k \in SaveRecs : save' = [save EXCEPT ![p] = k] /\ SaveFits(k)' /\ save[p].at # "read"
  <2>1. ASSUME NEW in \in Updates, AdminPutDomain(p, in) \/ AdminPutOIDC(p, in)
        PROVE  \E k \in SaveRecs : save' = [save EXCEPT ![p] = k] /\ SaveFits(k)' /\ save[p].at # "read"
    <3>1. in \in AllUpdates /\ (setting = "domain" => DOMAIN in = {})
      BY <1>0 DEF Updates, AllUpdates, Settings
    <3>2. PICK at \in {"read", "save"} :
              /\ save' = [save EXCEPT ![p] = [NoSave EXCEPT !.at = at, !.in = in]]
              /\ save[p].at = "idle" /\ DOMAIN in \cap pinned = {} /\ (at = "save" => setting = "domain")
      BY <2>1 DEF AdminPutDomain, AdminPutOIDC, Writable
    <3> DEFINE k == [NoSave EXCEPT !.at = at, !.in = in]
    <3>3. k \in SaveRecs /\ k.at = at /\ k.in = in
      BY <3>1, IdleRecords DEF SaveRecs
    <3> HIDE DEF k
    <3>4. SaveFits(k)'
      BY <1>2, <3>1, <3>2, <3>3 DEF SaveFits
    <3> QED BY <3>2, <3>3, <3>4 DEF k
  <2>2. SaveFits(NoSave)'
    BY IdleRecords DEF SaveFits
  <2>3. CASE Check(p)
    <3> DEFINE k == [r EXCEPT !.at = "save"]
    <3>1. /\ save[p].at = "check"
          /\ \/ save' = [save EXCEPT ![p] = NoSave]
             \/ SafeToEnable(Apply(r.cur, r.in, 0)) /\ save' = [save EXCEPT ![p] = k]
      BY <1>0, <1>1, <2>3 DEF Check
    <3>2. k \in SaveRecs /\ k.at = "save" /\ k.in = r.in /\ k.cur = r.cur
      BY DEF SaveRecs
    <3> HIDE DEF k
    <3>3. SafeToEnable(Apply(r.cur, r.in, 0)) => SaveFits(k)'
      BY <1>1, <1>2, <3>1, <3>2 DEF SaveFits
    <3> QED BY <2>2, <3>1, <3>2, <3>3, IdleRecords
  <2>4. CASE SaveFails(p)
    BY <2>2, <2>4, IdleRecords DEF SaveFails
  <2> QED BY <2>1, <2>3, <2>4
<1>5. save' \in [Saves -> SaveRecs]' /\ SavesFit'
  BY <1>0, <1>2, <1>3, <1>4, OneSaveMoves
<1>6. use' \in [Uses -> UseRecs] /\ UsesFit'
  BY <1>2, <1>3, NoUseMoves
<1>7. FillerReads'
  BY <1>2, <1>4, FillerStill
<1> QED BY <1>0, <1>2, <1>3, <1>5, <1>6, <1>7, SettingsInvAgain

(* The committed save: the gate is lost only over settings it was not checked against. *)
LEMMA SaveSettingsHolds ==
    ASSUME SettingsInv, NEW p \in Saves, SaveSettings(p)
    PROVE  SettingsInv'
<1>0. /\ stored \in SettingsSet /\ cache \in [once : BOOLEAN, value : SettingsSet] /\ CacheHolds(returned)
      /\ built \in BuiltRecs /\ pinned \subseteq {"allow"}
      /\ (filling # Nobody => filling.first \in SettingsSet) /\ save \in [Saves -> SaveRecs]
      /\ setting \in Settings /\ returned \in Nat /\ blips \in Nat /\ stored.ver \in Nat
  BY DEF SettingsInv, SettingsTypeOK, SettingsSet
<1>1. PICK r \in SaveRecs : r = save[p] /\ SaveFits(r) /\ r.at = "save"
  BY <1>0 DEF SettingsInv, SavesFit, SaveSettings
<1>2. PICK in \in AllUpdates, cur \in SettingsSet, n \in Nat : in = r.in /\ cur = r.cur /\ n = stored.ver + 1
  <2>1. r.in \in AllUpdates /\ r.cur \in SettingsSet /\ stored.ver + 1 \in Nat
    BY <1>0 DEF SaveRecs
  <2> QED BY <2>1, Zenon
<1> DEFINE k == [NoSave EXCEPT !.at = "invalidate", !.ver = n]
<1>3. /\ stored' = Apply(stored, in, n)
      /\ staleSave' = (staleSave \/ (setting = "oidc" /\ Gates(cur) # Gates(Effective(stored))))
      /\ save' = [save EXCEPT ![p] = k]
      /\ UNCHANGED <<pinned, setting, cache, filling, built, use, returned, blips, discoveryFaults>>
  BY <1>1, <1>2 DEF SaveSettings
<1>4. k \in SaveRecs /\ k.at = "invalidate" /\ k.ver = n /\ DOMAIN k.in = {}
  BY IdleRecords DEF SaveRecs
<1> HIDE DEF k
<1>5. /\ stored' \in SettingsSet /\ stored'.ver = n
      /\ stored'.enabled = IF "enabled" \in DOMAIN in THEN in["enabled"] ELSE stored.enabled
      /\ stored'.creds = IF "creds" \in DOMAIN in THEN in["creds"] ELSE stored.creds
      /\ stored'.allow = IF "allow" \in DOMAIN in THEN in["allow"] ELSE stored.allow
  <2>1. stored \in SettingsSet /\ pinned \subseteq {"allow"} /\ stored' = Apply(stored, in, n)
    BY <1>0, <1>3
  <2>2. /\ Apply(stored, in, n) \in SettingsSet /\ Apply(stored, in, n).ver = n
        /\ Apply(stored, in, n).enabled = IF "enabled" \in DOMAIN in THEN in["enabled"] ELSE stored.enabled
        /\ Apply(stored, in, n).creds = IF "creds" \in DOMAIN in THEN in["creds"] ELSE stored.creds
        /\ Apply(stored, in, n).allow = IF "allow" \in DOMAIN in THEN in["allow"] ELSE stored.allow
    BY <2>1, ApplyIs
  <2> QED BY <2>1, <2>2
<1>6. \A v \in Nat : CacheHolds(v) => CacheHolds(v)'
  BY <1>0, <1>2, <1>3, <1>5 DEF CacheHolds, NotBefore
<1>7. StepKeepsCache /\ StepKeepsAnswers
  BY <1>0, <1>2, <1>3, <1>5, <1>6 DEF StepKeepsCache, StepKeepsAnswers
<1>8. CacheHolds(returned)'
  BY <1>0, <1>2, <1>3, <1>5 DEF CacheHolds, NotBefore
<1>9. PICK j \in SaveRecs : j = k
  BY <1>4
<1>10. SaveFits(j)'
  BY <1>0, <1>4, <1>5, <1>9 DEF SaveFits
<1>11. save' \in [Saves -> SaveRecs]' /\ SavesFit'
  BY <1>3, <1>5, <1>7, <1>9, <1>10, OneSaveMoves
<1>12. use' \in [Uses -> UseRecs] /\ UsesFit'
  BY <1>3, <1>7, NoUseMoves
<1>13. FillerReads'
  BY <1>1, <1>3, FillerStill
<1>14. GateLostOnlyOnStaleView'
  <2> DEFINE s == Effective(stored)
             t == Apply(cur, in, 0)
             w == Effective(stored')
  <2>1. GateLostOnlyOnStaleView' = (w.enabled /\ ~(w.creds /\ w.allow) => staleSave')
    BY <1>3 DEF GateLostOnlyOnStaleView, Effective
  <2>3. /\ w.enabled = stored'.enabled /\ w.creds = stored'.creds
        /\ w.allow = IF "allow" \in pinned THEN TRUE ELSE stored'.allow
    BY <1>0, <1>5, EffectiveIs
  <2>4. /\ s.enabled = stored.enabled /\ s.creds = stored.creds
        /\ s.allow = IF "allow" \in pinned THEN TRUE ELSE stored.allow
    BY <1>0, EffectiveIs
  <2>5. /\ t.enabled = IF "enabled" \in DOMAIN in THEN in["enabled"] ELSE cur.enabled
        /\ t.creds = IF "creds" \in DOMAIN in THEN in["creds"] ELSE cur.creds
        /\ t.allow = IF "allow" \in DOMAIN in THEN in["allow"] ELSE cur.allow
    <3>1. 0 \in Nat
      OBVIOUS
    <3> QED BY <1>0, <3>1, ApplyIs
  <2>6. DOMAIN in \cap pinned = {} /\ (setting = "domain" => DOMAIN in = {})
        /\ (setting = "oidc" => SafeToEnable(t))
    BY <1>1, <1>2 DEF SaveFits
  <2>7. s.enabled /\ ~(s.creds /\ s.allow) => staleSave
    BY DEF SettingsInv, GateLostOnlyOnStaleView
  <2> HIDE DEF s, t, w
  <2>8. CASE setting = "domain"
    <3>1. w.enabled = s.enabled /\ w.creds = s.creds /\ w.allow = s.allow
      BY <1>5, <2>3, <2>4, <2>6, <2>8
    <3>2. staleSave => staleSave'
      BY <1>3
    <3> QED BY <2>1, <2>7, <3>1, <3>2
  <2>9. CASE setting = "oidc" /\ Gates(cur) = Gates(Effective(stored))
    <3>1. cur.enabled = s.enabled /\ cur.creds = s.creds /\ cur.allow = s.allow
      BY <2>9 DEF Gates, s
    <3>2. w.enabled = t.enabled /\ w.creds = t.creds /\ w.allow = t.allow
      BY <1>5, <2>3, <2>4, <2>5, <2>6, <3>1
    <3>3. ~t.enabled \/ (t.creds /\ t.allow)
      BY <2>6, <2>9 DEF SafeToEnable
    <3> QED BY <2>1, <3>2, <3>3
  <2>10. CASE setting = "oidc" /\ Gates(cur) # Gates(Effective(stored))
    BY <1>3, <2>1, <2>10
  <2> QED BY <1>0, <2>8, <2>9, <2>10 DEF Settings
<1> QED BY <1>0, <1>3, <1>5, <1>7, <1>8, <1>11, <1>12, <1>13, <1>14, SettingsInvAgain

(* Dropping the cache after a save: nobody is filling it, so nothing older returns. *)
LEMMA InvalidateCacheHolds ==
    ASSUME SettingsInv, NEW p \in Saves, InvalidateCache(p)
    PROVE  SettingsInv'
<1>0. /\ stored \in SettingsSet /\ cache \in [once : BOOLEAN, value : SettingsSet] /\ CacheHolds(returned)
      /\ built \in BuiltRecs /\ stored.ver \in Nat
      /\ (filling # Nobody => filling.first \in SettingsSet) /\ save \in [Saves -> SaveRecs]
      /\ returned \in Nat /\ blips \in Nat
  BY DEF SettingsInv, SettingsTypeOK, SettingsSet
<1>1. PICK r \in SaveRecs : r = save[p] /\ SaveFits(r)
  BY <1>0 DEF SettingsInv, SavesFit
<1> DEFINE k == [r EXCEPT !.at = "rebuild"]
<1>2. /\ r.at = "invalidate" /\ filling = Nobody /\ cache' = [cache EXCEPT !.once = FALSE]
      /\ save' = [save EXCEPT ![p] = k]
      /\ UNCHANGED <<pinned, setting, stored, filling, built, use, returned, staleSave, blips, discoveryFaults>>
  BY <1>0, <1>1 DEF InvalidateCache, Dropped
<1>3. k \in SaveRecs /\ k.at = "rebuild" /\ k.ver = r.ver /\ k.in = r.in /\ r.ver \in Nat
  BY DEF SaveRecs
<1> HIDE DEF k
<1>4. cache' \in [once : BOOLEAN, value : SettingsSet] /\ cache'.once = FALSE
  BY <1>0, <1>2
<1>5. \A n \in Nat : n <= stored.ver => CacheHolds(n)'
  BY <1>0, <1>2, <1>4 DEF CacheHolds, Nobody
<1>6. StepKeepsCache /\ StepKeepsAnswers
  BY <1>0, <1>2, <1>5 DEF StepKeepsCache, StepKeepsAnswers, CacheHolds
<1>7. CacheHolds(returned)'
  BY <1>0, <1>2, <1>4 DEF CacheHolds, Nobody
<1>8. PICK j \in SaveRecs : j = k /\ j.ver = r.ver
  BY <1>3
<1>9. SaveFits(j)'
  <2>1. CacheHolds(j.ver)'
    BY <1>1, <1>2, <1>3, <1>5, <1>8 DEF SaveFits
  <2> QED BY <1>1, <1>2, <1>3, <1>8, <2>1 DEF SaveFits
<1>10. save' \in [Saves -> SaveRecs]' /\ SavesFit'
  BY <1>0, <1>2, <1>6, <1>8, <1>9, OneSaveMoves
<1>11. use' \in [Uses -> UseRecs] /\ UsesFit' /\ GateLostOnlyOnStaleView'
  BY <1>2, <1>6, NoUseMoves, GateKept
<1>12. FillerReads'
  BY <1>2 DEF FillerReads, Nobody
<1> QED BY <1>0, <1>2, <1>4, <1>6, <1>7, <1>10, <1>11, <1>12, SettingsInvAgain

(* Answering a save: what it wrote is what is stored and cached, or something later. *)
LEMMA InvalidateProviderHolds ==
    ASSUME SettingsInv, NEW p \in Saves, InvalidateProvider(p)
    PROVE  SettingsInv'
<1>0. /\ stored \in SettingsSet /\ cache \in [once : BOOLEAN, value : SettingsSet] /\ CacheHolds(returned)
      /\ built \in BuiltRecs /\ stored.ver \in Nat
      /\ (filling # Nobody => filling.first \in SettingsSet) /\ save \in [Saves -> SaveRecs]
      /\ returned \in Nat /\ blips \in Nat
  BY DEF SettingsInv, SettingsTypeOK, SettingsSet
<1>1. PICK r \in SaveRecs : r = save[p] /\ SaveFits(r)
  BY <1>0 DEF SettingsInv, SavesFit
<1>2. /\ r.at = "rebuild" /\ built' = (IF setting = "oidc" THEN NotBuilt ELSE built)
      /\ returned' = (IF r.ver > returned THEN r.ver ELSE returned) /\ save' = [save EXCEPT ![p] = NoSave]
      /\ UNCHANGED <<pinned, setting, stored, cache, filling, use, staleSave, blips, discoveryFaults>>
  BY <1>1 DEF InvalidateProvider
<1>3. r.ver \in Nat /\ NotBuilt \in BuiltRecs
  BY IdleRecords DEF SaveRecs
<1>4. \A n \in Nat : CacheHolds(n) => CacheHolds(n)'
  BY <1>2 DEF CacheHolds, NotBefore, Nobody
<1>5. returned' \in Nat /\ returned <= returned' /\ CacheHolds(r.ver)
  BY <1>0, <1>1, <1>2, <1>3 DEF SaveFits
<1>6. StepKeepsCache /\ StepKeepsAnswers
  BY <1>0, <1>2, <1>4, <1>5 DEF StepKeepsCache, StepKeepsAnswers
<1>7. CacheHolds(returned)'
  <2>1. CASE returned' = r.ver
    BY <1>2, <1>5, <2>1 DEF CacheHolds, NotBefore, Nobody
  <2>2. CASE returned' = returned
    BY <1>0, <1>2, <2>2 DEF CacheHolds, NotBefore, Nobody
  <2> QED BY <1>2, <2>1, <2>2
<1>8. SaveFits(NoSave)'
  BY IdleRecords DEF SaveFits
<1>9. save' \in [Saves -> SaveRecs]' /\ SavesFit'
  BY <1>0, <1>2, <1>6, <1>8, IdleRecords, OneSaveMoves
<1>10. use' \in [Uses -> UseRecs] /\ UsesFit' /\ GateLostOnlyOnStaleView'
  BY <1>2, <1>6, NoUseMoves, GateKept
<1>11. FillerReads'
  BY <1>1, <1>2, FillerStill
<1> QED BY <1>0, <1>2, <1>3, <1>6, <1>7, <1>9, <1>10, <1>11, SettingsInvAgain

(* ProviderFor hands out, and keeps, the client it found for the issuer, or one with the
   lists of the settings it was called with. *)
LEMMA ProviderBuilds ==
    ASSUME SettingsInv, NEW u \in Uses, ProviderFor(u)
    PROVE  /\ built' \in BuiltRecs /\ use[u].at = "got" /\ setting = "oidc"
           /\ built'.client.issuer = use[u].value.issuer
           /\ \/ built' = built /\ built.ok
              \/ built'.client = NewClient(use[u].value)
<1>1. PICK s \in SettingsSet : s = use[u].value
  BY DEF SettingsInv, SettingsTypeOK, UseRecs
<1>2. PICK c \in ClientRecs : c = NewClient(s)
  <2>1. s.issuer \in Issuers /\ s.ver \in Nat /\ returned \in Nat
    BY DEF SettingsSet, SettingsInv, SettingsTypeOK
  <2>2. NewClient(s) \in ClientRecs /\ NewClient(s).issuer = s.issuer
    BY <2>1 DEF NewClient, ClientRecs
  <2> QED BY <2>2
<1>3. built \in BuiltRecs /\ use[u].at = "got" /\ setting = "oidc"
  BY DEF ProviderFor, SettingsInv, SettingsTypeOK
<1>6. c.issuer = s.issuer
  BY <1>2 DEF NewClient
<1>4. \/ built' = built /\ built.ok /\ built.client.issuer = s.issuer
      \/ \E e \in BOOLEAN : built' = [ok |-> TRUE, client |-> c, err |-> e]
  BY <1>1, <1>2 DEF ProviderFor, BuiltFor
<1>5. ASSUME NEW e \in BOOLEAN, built' = [ok |-> TRUE, client |-> c, err |-> e]
      PROVE  built' \in BuiltRecs /\ built'.client = c
  BY <1>5 DEF BuiltRecs
<1> QED BY <1>1, <1>2, <1>3, <1>4, <1>5, <1>6

(* The steps of a request that uses the settings. *)
LEMMA UseStepHolds ==
    ASSUME SettingsInv, NEW u \in Uses, StartUse(u) \/ ProviderFor(u) \/ EndUse(u)
    PROVE  SettingsInv'
<1>0. /\ stored \in SettingsSet /\ cache \in [once : BOOLEAN, value : SettingsSet]
      /\ built \in BuiltRecs
      /\ (filling # Nobody => filling.first \in SettingsSet) /\ use \in [Uses -> UseRecs]
      /\ returned \in Nat /\ blips \in Nat
  BY DEF SettingsInv, SettingsTypeOK
<1>1. PICK r \in UseRecs : r = use[u] /\ UseFits(r)
  BY <1>0 DEF SettingsInv, UsesFit
<1>2. UNCHANGED <<pinned, setting, stored, cache, filling, save, returned, staleSave, blips>>
  BY DEF StartUse, ProviderFor, EndUse
<1>3. StepKeepsCache /\ StepKeepsAnswers /\ CacheHolds(returned)' /\ GateLostOnlyOnStaleView'
  BY <1>2, CacheKept, GateKept
<1>4. UseFits(NoUse)'
  BY <1>0, <1>2, IdleRecords DEF UseFits
<1>6. built' \in BuiltRecs
  BY <1>0, ProviderBuilds DEF StartUse, EndUse
<1>5. PICK k \in UseRecs : use' = [use EXCEPT ![u] = k] /\ UseFits(k)' /\ use[u].at # "read"
  <2>1. CASE StartUse(u)
    <3> DEFINE k == [NoUse EXCEPT !.at = "read", !.since = returned]
    <3>1. use' = [use EXCEPT ![u] = k] /\ use[u].at = "idle"
      BY <2>1 DEF StartUse
    <3>2. k \in UseRecs /\ k.at = "read" /\ k.since = returned
      BY <1>0, IdleRecords DEF UseRecs
    <3> HIDE DEF k
    <3>3. PICK j \in UseRecs : j = k
      BY <3>2
    <3>4. UseFits(j)'
      BY <1>0, <1>2, <3>2, <3>3 DEF UseFits
    <3> QED BY <3>1, <3>3, <3>4
  <2>2. CASE EndUse(u)
    BY <1>4, <2>2, IdleRecords DEF EndUse
  <2>3. CASE ProviderFor(u)
    <3>1. PICK c \in ClientRecs : c = built'.client
      BY <1>6, <2>3 DEF BuiltRecs
    <3> DEFINE k == [r EXCEPT !.at = "client", !.client = c]
    <3>2. r.at = "got" /\ (use' = [use EXCEPT ![u] = NoUse] \/ use' = [use EXCEPT ![u] = k])
      BY <1>0, <1>1, <2>3, <3>1 DEF ProviderFor
    <3>3. k \in UseRecs /\ k.at = "client" /\ k.since = r.since
      BY DEF UseRecs
    <3> HIDE DEF k
    <3>4. PICK j \in UseRecs : j = k
      BY <3>3
    <3>5. UseFits(j)'
      BY <1>1, <1>2, <3>3, <3>4 DEF UseFits
    <3> QED BY <1>1, <1>4, <3>2, <3>4, <3>5, IdleRecords
  <2> QED BY <2>1, <2>2, <2>3
<1>7. use' \in [Uses -> UseRecs] /\ UsesFit'
  BY <1>3, <1>5, OneUseMoves
<1>8. save' \in [Saves -> SaveRecs]' /\ SavesFit'
  BY <1>0, <1>2, <1>3, NoSaveMoves
<1>9. FillerReads'
  BY <1>2, <1>5, FillerStill
<1> QED BY <1>0, <1>2, <1>3, <1>6, <1>7, <1>8, <1>9, SettingsInvAgain

(* Every step keeps the invariant of the settings. *)
LEMMA SettingsStepHolds ==
    ASSUME SettingsInv, [SettingsNext]_settingsVars
    PROVE  SettingsInv'
<1>1. CASE UNCHANGED settingsVars
  <2>1. /\ UNCHANGED <<pinned, setting, stored, cache, filling, returned, blips>>
        /\ UNCHANGED <<staleSave, built, save, use>>
    BY <1>1 DEF settingsVars
  <2>2. StepKeepsCache /\ StepKeepsAnswers /\ CacheHolds(returned)' /\ GateLostOnlyOnStaleView'
    BY <2>1, CacheKept, GateKept
  <2>3. /\ stored' \in SettingsSet /\ cache' \in [once : BOOLEAN, value : SettingsSet]
        /\ built' \in BuiltRecs
        /\ (filling' # Nobody => filling'.first \in SettingsSet)
    BY <2>1 DEF SettingsInv, SettingsTypeOK
  <2>4. save' \in [Saves -> SaveRecs]' /\ SavesFit' /\ use' \in [Uses -> UseRecs] /\ UsesFit' /\ FillerReads'
    BY <2>1, <2>2, <2>3, NoSaveMoves, NoUseMoves, FillerStill
  <2> QED BY <2>2, <2>3, <2>4, SettingsInvAgain
<1> QED BY <1>1, ReadHolds, SaveStepHolds, SaveSettingsHolds, InvalidateCacheHolds, InvalidateProviderHolds,
           UseStepHolds DEF SettingsNext

(* The invariant holds throughout, for every number of administrators and requests. *)
LEMMA SettingsInvariant == SettingsSpec => []SettingsInv
<1>1. SettingsInv /\ [SettingsNext]_settingsVars => SettingsInv'
  BY SettingsStepHolds
<1> QED BY SettingsInitHolds, <1>1, PTL DEF SettingsSpec

(* The cached client has the lists of the last save answered, or was built late; and so
   have the clients handed out. *)
ClientsInv ==
    /\ built.ok => setting = "oidc" /\ (built.client.lists >= returned \/ BuiltLate(built.client))
    /\ ClientIsCurrent

LEMMA ClientsHold ==
    ASSUME SettingsInv, ClientsInv, [SettingsNext]_settingsVars
    PROVE  ClientsInv'
<1>0. returned \in Nat /\ built \in BuiltRecs /\ use \in [Uses -> UseRecs] /\ save \in [Saves -> SaveRecs]
  BY DEF SettingsInv, SettingsTypeOK
<1>1. ASSUME UNCHANGED <<setting, built, returned>>,
             \A u \in Uses : use'[u] = use[u] \/ use'[u].at # "client"
      PROVE  ClientsInv'
  BY <1>1 DEF ClientsInv, ClientIsCurrent
<1>2. CASE UNCHANGED settingsVars
  BY <1>1, <1>2 DEF settingsVars
<1>3. ASSUME NEW x \in Saves \cup Uses, CacheHit(x) \/ StartFill(x) \/ EndFill(x) \/ FillFails(x)
      PROVE  ClientsInv'
  <2>1. UNCHANGED <<setting, built, returned>>
        /\ (UNCHANGED use \/ \E v : use' = [use EXCEPT ![x].at = "got", ![x].value = v])
    BY <1>3 DEF CacheHit, StartFill, EndFill, FillFails, Got
  <2>2. \A u \in Uses : use'[u] = use[u] \/ use'[u].at # "client"
    BY <1>0, <2>1 DEF UseRecs
  <2> QED BY <1>1, <2>1, <2>2
<1>4. ASSUME NEW p \in Saves,
             \/ \E in \in Updates : AdminPutDomain(p, in) \/ AdminPutOIDC(p, in)
             \/ Check(p) \/ SaveSettings(p) \/ SaveFails(p) \/ InvalidateCache(p)
      PROVE  ClientsInv'
  <2>1. UNCHANGED <<setting, built, returned, use>>
    BY <1>4 DEF AdminPutDomain, AdminPutOIDC, Check, SaveSettings, SaveFails, InvalidateCache
  <2> QED BY <1>1, <2>1
<1>5. ASSUME NEW p \in Saves, InvalidateProvider(p) PROVE ClientsInv'
  <2>1. UNCHANGED <<use, setting>> /\ (built'.ok => built' = built /\ setting # "oidc")
    BY <1>5, IdleRecords DEF InvalidateProvider
  <2> QED BY <2>1 DEF ClientsInv, ClientIsCurrent
<1>6. ASSUME NEW u \in Uses, StartUse(u) \/ EndUse(u) PROVE ClientsInv'
  <2>1. UNCHANGED <<setting, built, returned>>
        /\ (\/ use' = [use EXCEPT ![u] = [NoUse EXCEPT !.at = "read", !.since = returned]]
            \/ use' = [use EXCEPT ![u] = NoUse])
    BY <1>6 DEF StartUse, EndUse
  <2>2. \A v \in Uses : use'[v] = use[v] \/ use'[v].at # "client"
    BY <1>0, <2>1, IdleRecords DEF UseRecs
  <2> QED BY <1>1, <2>1, <2>2
<1>7. ASSUME NEW u \in Uses, ProviderFor(u) PROVE ClientsInv'
  <2>1. PICK r \in UseRecs : r = use[u] /\ UseFits(r)
    BY <1>0 DEF SettingsInv, UsesFit
  <2>2. /\ built' \in BuiltRecs /\ setting = "oidc" /\ built'.client.issuer = r.value.issuer
        /\ (built' = built /\ built.ok) \/ built'.client = NewClient(r.value)
    BY <1>7, <2>1, ProviderBuilds
  <2>3. PICK c \in ClientRecs : c = built'.client
    BY <2>2 DEF BuiltRecs
  <2>4. c.lists \in Nat /\ (c.lists >= returned \/ BuiltLate(c))
    <3>1. CASE built' = built /\ built.ok
      BY <2>3, <3>1 DEF ClientsInv, ClientRecs
    <3>2. CASE c = NewClient(r.value)
      <4>1. PICK n \in Nat : n = r.value.ver
        BY DEF UseRecs, SettingsSet
      <4>2. c.lists = n /\ c.since = returned
        BY <3>2, <4>1 DEF NewClient
      <4> QED BY <1>0, <4>2 DEF BuiltLate
    <3> QED BY <2>2, <2>3, <3>1, <3>2
  <2>5. r.since \in Nat /\ r.since <= returned /\ UNCHANGED <<setting, returned>>
    BY <1>7, <2>1 DEF UseFits, UseRecs, ProviderFor
  <2>6. c.lists >= r.since \/ BuiltLate(c)
    BY <1>0, <2>4, <2>5
  <2>7. ASSUME NEW v \in Uses, use'[v].at = "client"
        PROVE  /\ use'[v].client.issuer = use'[v].value.issuer
               /\ use'[v].client.lists >= use'[v].since \/ BuiltLate(use'[v].client)
    <3>1. CASE v # u
      <4>1. use'[v] = use[v]
        BY <1>0, <1>7, <3>1 DEF ProviderFor
      <4> QED BY <2>7, <4>1 DEF ClientsInv, ClientIsCurrent
    <3>2. CASE v = u
      <4>1. use' = [use EXCEPT ![u] = NoUse] \/ use' = [use EXCEPT ![u] = [r EXCEPT !.at = "client", !.client = c]]
        BY <1>0, <1>7, <2>1, <2>3 DEF ProviderFor
      <4>2. use'[u] = [r EXCEPT !.at = "client", !.client = c]
        BY <1>0, <2>7, <3>2, <4>1, IdleRecords
      <4>3. use'[u].client = c /\ use'[u].value = r.value /\ use'[u].since = r.since
        BY <4>2 DEF UseRecs
      <4> QED BY <2>2, <2>3, <2>6, <3>2, <4>3
    <3> QED BY <3>1, <3>2
  <2> QED BY <2>2, <2>3, <2>4, <2>5, <2>7 DEF ClientsInv, ClientIsCurrent
<1> QED BY <1>2, <1>3, <1>4, <1>5, <1>6, <1>7 DEF SettingsNext

(* A request that starts after a save was answered works with it or a later one, or with
   a cached failed read; and a sign-in gets a client of the issuer it resolved, with the
   access lists of that save or a later one or, because the cache's key leaves the lists
   out, with those of a sign-in that built its client late (cachedDBConfig,
   adminPutOIDC, ProviderFor). *)
THEOREM SettingsTakeForce == SettingsSpec => []SettingsInForce
<1>1. SettingsInit => ClientsInv
  BY IdleRecords DEF SettingsInit, ClientsInv, ClientIsCurrent
<1>2. SettingsInv /\ ClientsInv /\ [SettingsNext]_settingsVars => ClientsInv'
  BY ClientsHold
<1>3. SettingsInv /\ ClientsInv => SettingsInForce
  BY DEF SettingsInv, UsesFit, UseFits, NotBefore, ClientsInv, SettingsInForce, SavedSettingsApply
<1> QED BY SettingsInvariant, <1>1, <1>2, <1>3, PTL DEF SettingsSpec

(* OIDC is never enabled without credentials and an allow list, unless a save was written
   over settings other than those it was checked against (adminPutOIDC). *)
THEOREM GateLostOnlyWhenStale == SettingsSpec => []GateLostOnlyOnStaleView
<1>1. SettingsInv => GateLostOnlyOnStaleView
  BY DEF SettingsInv
<1> QED BY SettingsInvariant, <1>1, PTL
=============================================================================
