----------------------------- MODULE MCSiteLock -----------------------------
(* Two processes: two writers and a reader in the first, a writer and a reader
   in the second. *)
EXTENDS SiteLock, TLC

CONSTANTS p1, p2, w1, w2, w3, r1, r2

MCProcOf == (w1 :> p1) @@ (w2 :> p1) @@ (r1 :> p1) @@ (w3 :> p2) @@ (r2 :> p2)
=============================================================================
