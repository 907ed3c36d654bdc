----------------------------- MODULE MCDataPlane -----------------------------
(* The parts of the data plane, and the archives by which content comes in, share no
   state; each behaviour runs one of them (the limiter as its HTTP or its MCP half), so
   the state spaces add up instead of multiplying. *)
EXTENDS RateLimits, PageCaching, HostResolve, PreviewAccess, TlsGate, ZipImport

VARIABLE focus

vars == <<focus, rateVars, pageVars, resolveVars, previewVars, tlsVars, zipVars>>

MCControl == << >>

Init ==
    /\ focus \in {"http", "tool", "page", "resolve", "preview", "tls", "zip"}
    /\ RateInit /\ PageInit /\ ResolveInit /\ PreviewInit /\ TlsInit /\ ZipInit
    /\ focus # "tls" => \A h \in TlsHandles : name[h] = "live"
    /\ focus # "page" => pages[1] = [second |-> CHOOSE t \in CommitSeconds : TRUE, size |-> CHOOSE z \in PageSizes : TRUE]
    /\ focus # "preview" => /\ hostSite = CHOOSE s \in PreviewSites : TRUE
                            /\ mayView = [s \in PreviewSites |-> {}]

Next ==
    /\ UNCHANGED focus
    /\ \/ focus = "http" /\ HttpNext /\ UNCHANGED <<pageVars, resolveVars, previewVars, tlsVars, zipVars>>
       \/ focus = "tool" /\ ToolNext /\ UNCHANGED <<pageVars, resolveVars, previewVars, tlsVars, zipVars>>
       \/ focus = "page" /\ PageNext /\ UNCHANGED <<rateVars, resolveVars, previewVars, tlsVars, zipVars>>
       \/ focus = "resolve" /\ ResolveNext /\ UNCHANGED <<rateVars, pageVars, previewVars, tlsVars, zipVars>>
       \/ focus = "preview" /\ PreviewNext /\ UNCHANGED <<rateVars, pageVars, resolveVars, tlsVars, zipVars>>
       \/ focus = "tls" /\ TlsNext /\ UNCHANGED <<rateVars, pageVars, resolveVars, previewVars, zipVars>>
       \/ focus = "zip" /\ ZipNext /\ UNCHANGED <<rateVars, pageVars, resolveVars, previewVars, tlsVars>>

Spec == Init /\ [][Next]_vars
=============================================================================
