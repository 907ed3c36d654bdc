--------------------------- MODULE MCControlPlane ---------------------------
(* Five parts of the control plane with no state in common; each behaviour runs one
   of them, so the state spaces add up instead of multiplying. *)
EXTENDS SiteRegistry, SiteAccess, SiteMembers, HistoryReads, MirrorSync

VARIABLE focus

vars == <<focus, registryVars, accessVars, membersVars, historyVars, mirrorVars>>

Init ==
    /\ focus \in {"registry", "access", "members", "history", "mirror"}
    /\ RegistryInit /\ AccessInit /\ MembersInit /\ HistoryInit /\ MirrorInit
    /\ focus # "access" => role = [u \in People |-> "owner"] /\ flags = [u \in People |-> {}] /\ mode = "direct"

Next ==
    /\ UNCHANGED focus
    /\ \/ focus = "registry" /\ RegistryNext /\ UNCHANGED <<accessVars, membersVars, historyVars, mirrorVars>>
       \/ focus = "access" /\ AccessNext /\ UNCHANGED <<registryVars, membersVars, historyVars, mirrorVars>>
       \/ focus = "members" /\ MembersNext /\ UNCHANGED <<registryVars, accessVars, historyVars, mirrorVars>>
       \/ focus = "history" /\ HistoryNext /\ UNCHANGED <<registryVars, accessVars, membersVars, mirrorVars>>
       \/ focus = "mirror" /\ MirrorNext /\ UNCHANGED <<registryVars, accessVars, membersVars, historyVars>>

Spec == Init /\ [][Next]_vars
=============================================================================
