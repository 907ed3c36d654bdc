------------------------------- MODULE MCAuth -------------------------------
(* The parts of authentication, and the settings an administrator changes, share no
   state; each behaviour runs one of them, so the state spaces add up instead of
   multiplying. *)
EXTENDS LoginLockout, OidcLogin, Accounts, InstanceSettings, TLC

VARIABLE focus

vars == <<focus, lockoutVars, oidcVars, accountsVars, settingsVars>>

MCDomainOf == [u \in Users |-> IF u = AdminUser THEN "operator" ELSE "company"]

Init ==
    /\ focus \in {"lockout", "oidc", "accounts", "settings"}
    /\ LockoutInit /\ OidcInit /\ AccountsInit /\ SettingsInit
    /\ focus # "settings" => pinned = {} /\ setting = "oidc"

Next ==
    /\ UNCHANGED focus
    /\ \/ focus = "lockout" /\ LockoutNext /\ UNCHANGED <<oidcVars, accountsVars, settingsVars>>
       \/ focus = "oidc" /\ OidcNext /\ UNCHANGED <<lockoutVars, accountsVars, settingsVars>>
       \/ focus = "accounts" /\ AccountsNext /\ UNCHANGED <<lockoutVars, oidcVars, settingsVars>>
       \/ focus = "settings" /\ SettingsNext /\ UNCHANGED <<lockoutVars, oidcVars, accountsVars>>

(* Requests of one kind are alike.  The parts have the same names for theirs, setups
   aside, which stand beside the changes of flags: fewer permutations to try. *)
RequestSymmetry == Permutations(Saves \cup Patches \cup Attempts \cup Callbacks) \cup Permutations(Setups)

Spec == Init /\ [][Next]_vars
=============================================================================
