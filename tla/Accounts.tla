------------------------------ MODULE Accounts ------------------------------
(***************************************************************************)
(* Accounts of the control plane: first-run Setup, the tail every login    *)
(* shares (completeLogin), server-side sessions, and the administrator's   *)
(* change of a user's flags.  Each database call is a step of its own; the *)
(* calls of concurrent requests interleave, any of them may fail, and the  *)
(* process may die between two of them.                                    *)
(***************************************************************************)
EXTENDS Integers, FiniteSets, Sequences

CONSTANTS
    Setups,        \* POST /auth/setup requests, each with a password of its own
    Logins,        \* login requests past their credential or code exchange
    Patches,       \* PATCH /api/admin/users/{id}/flags requests
    AdminUser,     \* the account of cfg.AdminEmail
    OtherUsers,    \* accounts that sign in through the identity provider
    AllowedEmails, AllowedDomains,  \* the OIDC access lists
    AdminEmails,   \* the OIDC admin allowlist
    DomainOf,      \* DomainOf[u]: the domain of the user's address
    MaxSessions, MaxDbFaults, MaxStops

Users == {AdminUser} \cup OtherUsers

ASSUME AccountsAssumption ==
    /\ AdminUser \notin OtherUsers /\ Setups \cap Logins = {}
    /\ AllowedEmails \subseteq Users /\ AdminEmails \subseteq Users
    /\ Users \subseteq DOMAIN DomainOf
    /\ MaxSessions \in Nat /\ MaxDbFaults \in Nat /\ MaxStops \in Nat

VARIABLES
    hash,      \* the stored admin password: the setup that wrote it, or NoHash
    row,       \* row[u]: [exists, admin, create] in table users
    sessions,  \* sessions[i]: user of session i = 1, 2, ... or NoUser once deleted
    loggedOut, \* sessions a logout has deleted
    req,       \* req[r]: where request r is and what it has read
    granted,   \* users an administrator has ever made administrators
    decided,   \* users whom the last decision about is_admin made administrators
    restored,  \* users whose is_admin a PATCH of the other flag has put back since
    dbFaults, stops

accountsVars ==
    <<hash, row, sessions, loggedOut, req, granted, decided, restored, dbFaults, stops>>

NoHash == "none"
NoUser == "nobody"
Requests == Setups \cup Logins \cup Patches
NoRow == [exists |-> FALSE, admin |-> FALSE, create |-> FALSE]
Idle == [at |-> "idle", user |-> NoUser, admin |-> FALSE, field |-> "none",
         value |-> FALSE, cur |-> NoRow, via |-> 0]

AccountsInit ==
    /\ hash = NoHash
    /\ row = [u \in Users |-> NoRow]
    /\ sessions = << >> /\ loggedOut = {}
    /\ req = [r \in Requests |-> Idle]
    /\ granted = {} /\ decided = {} /\ restored = {}
    /\ dbFaults = 0 /\ stops = 0

Goto(r, l) == req' = [req EXCEPT ![r].at = l]
Done(r) == req' = [req EXCEPT ![r] = [Idle EXCEPT !.at = "done"]]

-----------------------------------------------------------------------------
(* Setup *)

(* Password mode without an environment password, and no hash stored. *)
SetupRequired == hash = NoHash

CredentialFirst(s) == "hash"     \* mutant: the credential is written before the account
FirstWrite(s) == "upsert"

SetupCheck(s) ==
    /\ req[s].at = "idle" /\ SetupRequired
    /\ req' = [req EXCEPT ![s].at = FirstWrite(s), ![s].user = AdminUser, ![s].admin = TRUE]
    /\ UNCHANGED <<hash, row, sessions, loggedOut, granted, decided, restored, dbFaults, stops>>

(* SetAdminPasswordHash, after the account exists. *)
SetHash(s) ==
    /\ req[s].at = "hash"
    /\ hash' = s
    /\ Goto(s, "session")
    /\ UNCHANGED <<row, sessions, loggedOut, granted, decided, restored, dbFaults, stops>>

-----------------------------------------------------------------------------
(* completeLogin, shared with Setup *)

(* PasswordProvider.Exchange accepts the password of the stored hash; applyAdmin
   will promote.  A store that cannot be read is answered like a wrong password. *)
ActiveHash == hash

PasswordAccepted(l) ==
    /\ req[l].at = "idle" /\ ActiveHash # NoHash
    /\ req' = [req EXCEPT ![l].at = "upsert", ![l].user = AdminUser, ![l].admin = TRUE]
    /\ UNCHANGED <<hash, row, sessions, loggedOut, granted, decided, restored, dbFaults, stops>>

(* accessPolicy.decide on a verified address: both lists empty deny everybody. *)
Decide(u) ==
    LET allow == u \in AllowedEmails \/ DomainOf[u] \in AllowedDomains IN
    [allow |-> allow, admin |-> allow /\ u \in AdminEmails]

(* OIDCProvider.Exchange; an address may also be that of the password account. *)
OidcAccepted(l, u) ==
    /\ req[l].at = "idle" /\ Decide(u).allow
    /\ req' = [req EXCEPT ![l].at = "upsert", ![l].user = u, ![l].admin = Decide(u).admin]
    /\ UNCHANGED <<hash, row, sessions, loggedOut, granted, decided, restored, dbFaults, stops>>

(* After the promotion Setup and completeLogin part. *)
AfterPromote(r) == IF r \in Setups THEN "hash" ELSE "session"

(* INSERT ... ON CONFLICT (email) DO UPDATE: an existing row keeps its flags. *)
UpsertUser(u) == [row EXCEPT ![u].exists = TRUE]

UpsertLogin(r) ==
    /\ req[r].at = "upsert"
    /\ row' = UpsertUser(req[r].user)
    /\ Goto(r, IF req[r].admin THEN "promote" ELSE AfterPromote(r))
    /\ UNCHANGED <<hash, sessions, loggedOut, granted, decided, restored, dbFaults, stops>>

(* PromoteUserAdmin: its error is ignored. *)
PromoteUserAdmin(r) ==
    /\ req[r].at = "promote"
    /\ \/ /\ row' = [row EXCEPT ![req[r].user].admin = TRUE]
          /\ decided' = decided \cup {req[r].user}
          /\ restored' = restored \ {req[r].user}
          /\ UNCHANGED dbFaults
       \/ /\ dbFaults < MaxDbFaults
          /\ dbFaults' = dbFaults + 1
          /\ UNCHANGED <<row, decided, restored>>
    /\ Goto(r, AfterPromote(r))
    /\ UNCHANGED <<hash, sessions, loggedOut, granted, stops>>

(* Every login mints a new session id. *)
CreateSession(u) == Append(sessions, u)

EstablishSession(r) ==
    /\ req[r].at = "session" /\ Len(sessions) < MaxSessions
    /\ sessions' = CreateSession(req[r].user)
    /\ Done(r)
    /\ UNCHANGED <<hash, row, loggedOut, granted, decided, restored, dbFaults, stops>>

(* A failed database call is answered 5xx; what was written stays. *)
DbFails(r) ==
    /\ req[r].at \in {"upsert", "hash", "session", "read", "write"} /\ dbFaults < MaxDbFaults
    /\ dbFaults' = dbFaults + 1
    /\ Done(r)
    /\ UNCHANGED <<hash, row, sessions, loggedOut, granted, decided, restored, stops>>

-----------------------------------------------------------------------------
(* Sessions *)

(* DELETE of the cookie's session; a repeated logout deletes nothing. *)
Logout(i) ==
    /\ i \in DOMAIN sessions /\ sessions[i] # NoUser
    /\ sessions' = [sessions EXCEPT ![i] = NoUser]
    /\ loggedOut' = loggedOut \cup {i}
    /\ UNCHANGED <<hash, row, req, granted, decided, restored, dbFaults, stops>>

(* SessionManager.Get: the session's row joined with its user's. *)
SessionUser(i) ==
    IF i \in DOMAIN sessions /\ sessions[i] # NoUser THEN row[sessions[i]] ELSE NoRow

(* The administrator's flags are read here, once.  The PATCH sets one of the two
   flags of user u. *)
RequireAdmin(p, i, u, f, v) ==
    /\ req[p].at = "idle" /\ SessionUser(i).admin /\ row[u].exists
    /\ req' = [req EXCEPT ![p] = [at |-> "touch", user |-> u, admin |-> FALSE, field |-> f,
                                  value |-> v, cur |-> NoRow, via |-> i]]
    /\ UNCHANGED <<hash, row, sessions, loggedOut, granted, decided, restored, dbFaults, stops>>

(* TouchSession, an UPDATE: a row deleted meanwhile stays deleted. *)
TouchSession(p) ==
    /\ req[p].at = "touch"
    /\ Goto(p, "read")
    /\ UNCHANGED <<hash, row, sessions, loggedOut, granted, decided, restored, dbFaults, stops>>

(* adminSetUserFlags: read the row, replace the supplied field, write both. *)
GetUserByID(p) ==
    /\ req[p].at = "read"
    /\ req' = [req EXCEPT ![p].at = "write", ![p].cur = row[req[p].user]]
    /\ UNCHANGED <<hash, row, sessions, loggedOut, granted, decided, restored, dbFaults, stops>>

Defaulted(p) ==                 \* mutant: the field that was not supplied is cleared
    [NoRow EXCEPT !.exists = TRUE, ![req[p].field] = req[p].value]
Flags(p) == [req[p].cur EXCEPT ![req[p].field] = req[p].value]

(* Of the fields the body supplies one; the other goes back as it was read. *)
SetUserAdminFlags(p) ==
    LET u == req[p].user IN
    /\ req[p].at = "write"
    /\ row' = [row EXCEPT ![u] = Flags(p)]
    /\ \/ /\ req[p].field = "admin"
          /\ granted' = IF req[p].value THEN granted \cup {u} ELSE granted
          /\ decided' = IF req[p].value THEN decided \cup {u} ELSE decided \ {u}
          /\ restored' = restored \ {u}
       \/ /\ req[p].field = "create"
          /\ restored' = IF req[p].cur.admin # row[u].admin THEN restored \cup {u} ELSE restored
          /\ UNCHANGED <<granted, decided>>
    /\ Done(p)
    /\ UNCHANGED <<hash, sessions, loggedOut, dbFaults, stops>>

(* The process dies; rows stay, requests are gone (and may be sent again). *)
AccountsStop ==
    /\ stops < MaxStops
    /\ stops' = stops + 1
    /\ req' = [r \in Requests |-> Idle]
    /\ UNCHANGED <<hash, row, sessions, loggedOut, granted, decided, restored, dbFaults>>

AccountsNext ==
    \/ \E s \in Setups : SetupCheck(s) \/ SetHash(s)
    \/ \E l \in Logins : PasswordAccepted(l) \/ \E u \in Users : OidcAccepted(l, u)
    \/ \E r \in Setups \cup Logins : UpsertLogin(r) \/ PromoteUserAdmin(r) \/ EstablishSession(r)
    \/ \E i \in 1..MaxSessions :
          \/ Logout(i)
          \/ \E p \in Patches, u \in Users, f \in {"admin", "create"}, v \in BOOLEAN :
                RequireAdmin(p, i, u, f, v)
    \/ \E p \in Patches : TouchSession(p) \/ GetUserByID(p) \/ SetUserAdminFlags(p)
    \/ \E r \in Requests : DbFails(r)
    \/ AccountsStop

AccountsSpec == AccountsInit /\ [][AccountsNext]_accountsVars

-----------------------------------------------------------------------------
(* Setup writes the account first and the credential last: whatever fails or
   crashes in between, there is never a password without an account behind it
   (after which nobody could sign in and setup would be refused). *)
CredentialHasAccount == hash # NoHash => row[AdminUser].exists

(* An administrator is who the last decision made one: a login of the password account
   or of an address on the admin allowlist, or an administrator's PATCH of is_admin; and
   whoever that decision deprived is none.  The exception is adminSetUserFlags' own: a
   PATCH of can_create_sites writes is_admin back as it read it, and so undoes a decision
   taken between its read and its write, until the next decision about that user. *)
AdminsAreDecided ==
    \A u \in Users \ restored : row[u].admin <=> u \in decided

(* Even then nobody becomes an administrator but the password account, the addresses on
   the admin allowlist and whom an administrator has appointed at some time. *)
AdminsAreEntitled ==
    \A u \in Users : row[u].admin => u \in {AdminUser} \cup AdminEmails \cup granted

(* A session that was logged out is never valid again, although requests that
   authenticated with it before are still running and touch it afterwards. *)
LoggedOutStaysOut == \A i \in loggedOut : sessions[i] = NoUser

(* Authority is what was last decided, under requests that read before and write after:
   no administrator but by the last decision (or an overtaken PATCH of the other flag,
   which brings back an earlier one), and no session once it was logged out. *)
AuthorityIsGranted == AdminsAreDecided /\ AdminsAreEntitled /\ LoggedOutStaysOut
=============================================================================
