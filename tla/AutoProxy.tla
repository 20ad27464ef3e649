------------------------------- MODULE AutoProxy -------------------------------
(****************************************************************************)
(* NetworkAccessManager on Windows: every call of the manager asks Pac for  *)
(* its proxy, and the first one that does makes the manager a connection    *)
(* monitor of its own, the monitor of Connectivity here.  A lookup that     *)
(* failed is not tried again until that monitor says up().                  *)
(****************************************************************************)
EXTENDS Connectivity

VARIABLE pac    \* m_pac: "none", "ready", or "failed" when m_bFailed is set

proxyVars == <<vars, pac>>

ProxyInit == Init /\ pac = "none"

\* Pac::resolve(): one lookup, which may fail, unless one failed before.
Resolve ==
    /\ pac # "none"
    /\ pac' \in IF pac = "failed" THEN {"failed"} ELSE {"ready", "failed"}

\* Seeded bug of onConnectivityChanged(): it forgets the failure on a down().
ResetOnDown == pac' = IF pac = "failed" /\ ~up' THEN "ready" ELSE pac

\* onConnectivityChanged(): an up() makes resolve() try again.
OnConnectivityChanged == pac' = IF pac = "failed" /\ up' THEN "ready" ELSE pac

\* proxy(): the settings of the user may ask for a proxy, each time anew; nobody
\* calls the manager while it makes its monitor.
Proxy == phase # "read" /\ (Resolve \/ UNCHANGED pac)

\* What a step of the monitor or of a call does to the proxy.
ProxyStep ==
    CASE platform # "windows" -> UNCHANGED pac
      [] platform = "windows" /\ phase # phase' -> pac' = "ready"
      [] platform = "windows" /\ Cardinality(requests') > Cardinality(requests) -> Proxy
      [] platform = "windows" /\ up # up' -> OnConnectivityChanged
      [] OTHER -> UNCHANGED pac

ProxyNext == Next /\ ProxyStep

ProxySpec == ProxyInit /\ [][ProxyNext]_proxyVars /\ Fairness

----------------------------------------------------------------------------
(* Properties *)

\* A lookup that failed, with the monitor down, is tried again in the end when the
\* network comes back and calls without the proxy end well.  With the monitor up
\* it is not: the failure stays until something brings the monitor down.
ProxyAskedAgain ==
    Settled("online", "ok") => (pac = "failed" /\ ~up ~> pac # "failed")

=============================================================================
